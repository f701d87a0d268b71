# OxPulse mesh core: TLA+ models, checks and proofs

`packages/mesh-core` carries encrypted bundles between phones over Bluetooth
Low Energy and, when there is a network, over a relay; `packages/identity`
keeps the device's keys in IndexedDB. Both are TypeScript, single-threaded and
asynchronous: one callback runs at a time and gives way at every `await`. What
goes wrong in such code goes wrong between two awaits, so an action of these
models is the code from one await to the next, and any number of calls may be
suspended together.

## 1. Inventory

Paths are relative to `src/packages/mesh-core/src/` unless they start with
`identity/`, which stands for `src/packages/identity/src/`.

| Part | State | Operations | Called by / calls | What is hard | What makes it correct |
|---|---|---|---|---|---|
| connection manager `transport.ts` (with `gatt-channel.ts`, `ble-scanner.ts`, `ble-advertiser.ts`, `peer-registry.ts`) | `connectedDevices`, `cryptoStates`, `backoff`, registry, listeners, timers, `peerId` | scan callback, link events, `initiateHandshake`, `advanceHandshake`, `handleIncomingChunk`, accept / reject, `sendFrame`, timeout and GC ticks, `startMesh`, `stopMesh` | native BLE events and intervals call it; it calls Noise, the ratchet, the reassembler, the frame handlers | every handler tests a map, awaits, then writes one; two links per device; peers rotate addresses | no handshake state without a connection, settled peers stay settled, retry windows respected, every handshake is decided, stop ends |
| Noise XX handshake `crypto/noise-xx.ts` | `msgIdx`, symmetric state, ephemeral and ML-KEM keys | `writeMessage`, `readMessage`, `split`, `sas` | `advanceHandshake` | mixes before it authenticates, suspends inside a message, frames repeated or damaged | ends that complete went by the same messages and agree on keys and SAS; frames do not touch a session |
| session ratchet `crypto/session-ratchet.ts` | chains, counters, replay window, key cache | `encrypt`, `decrypt` | `sendFrame`, `handleIncomingChunk` | lossy, reordering link; overlapping decrypts | no replay, no refusal inside the window, keys agree, forward secrecy |
| frame chunking `frame.ts` | one partial frame per device | `chunkFrame`, `pushWithType` | transport | lost chunks, interleaved frames | a delivered frame is one that was sent |
| router `router.ts`, `online-bridge.ts` | outbox handle, shared dedupe cache | `routeOutgoing`, `onIncoming` | app; transport, relay, inbox, Bloom filter | marks before it stores; state snapshot before awaits | every message handed over at most once, and only the filters drop one |
| outbox and drainer `outbox.ts`, `outbox-drainer.ts` | entries in IndexedDB, `draining` | `enqueue`, `nextPending`, `markSent`, `markFailed`, eviction; drain loop | router, app | cap, retries, reload between send and mark | at least once until eight failures; bounded |
| mailbox `mailbox/*.ts` | inbox, spool and Bloom filter in IndexedDB | bounded put, consume, hop decrement, evict, flush | router, app | quota errors, cap, overlapping transactions | bounded; what was consumed stays consumed; stored marks hold |
| dedupe cache `dedupe.ts`, token client `token-client.ts`, MAC rotation `mac-rotation.ts` | small maps, one timer | mark, fetch, rotate | router, transport | in-flight fetches | a token belongs to its key |
| bundles and channels `bundle-composer.ts`, `channel.ts`, `wrap.ts` | none | compose, encrypt, wrap | app | data only | round trips |
| identity store `identity/device-identity.ts`, `idb-store.ts`, `aes-kw.ts`, ... | wrapping key, identity, sealed X25519 key, profile seed, in IndexedDB | get-or-create, adopt legacy key, recover, clear, replace | app, transport (`getLocalIdentity`) | several tabs, crashes between transactions, callers outside the lock | one identity for ever; every record opens under the stored key |
| seeds `identity/room-host-seed.ts`, `host-identity.ts`, `x25519-identity.ts` | seeds in IndexedDB | get-or-create | app | minted by two callers | all callers get the same seed |
| helpers, metrics, constants, native bridges | none | | | | |

A device's life in the mesh: a scan sighting leads to `connect`, MTU and
subscription, then to `initiateHandshake`; or the peer connects to our GATT
server and sends a handshake frame. Three Noise messages later
`advanceHandshake` puts a `RatchetSession` and an SAS in the `CryptoState`, the
user compares the SAS and accepts, and frames flow through `encrypt`,
`chunkFrame`, the reassembler and `decrypt` to the router.

## 2. Modules

| Module | Models | State and actions |
|---|---|---|
| `SessionRatchet` | one direction of a session: `encrypt` of one end, `decrypt` of the other | `DecryptStart` is `decrypt` up to its first await (window test, key lookup, possible extension of the cache), `DecryptDone` / `DecryptFailed` what follows AES-GCM. A chain key is the number of times it was ratcheted. The link may hand over any frame ever sent, again and in any order, and forgeries under any counter. |
| `GuardedDelivery` | what `decrypt` promises, without windows or keys | `Accept` takes the guard, `Return` delivers. |
| `SessionRatchetProofs` | proofs about both | |
| `NoiseHandshake` | both ends' `NoiseXxHandshake`, driven by `advanceHandshake` | a call of `advanceHandshake` has a program counter that stops at each WebCrypto operation and at the writes; calls of one node overlap as they like. The symmetric state is the sequence of what was mixed into it; a ciphertext is the state it was made under. `session` is the state keys and SAS were derived from, `built` how many `RatchetSession` objects were made of it; `mixed` is history: whose state moved while one of its operations ran. |
| `NoiseHandshakeProofs` | proofs about `NoiseHandshake` | |
| `MeshTransport` | the connection manager of one node | `task` holds the suspended calls of the scan callback and of the responder branch of `handleIncomingChunk`; `mesh` is how far `startMesh` / `stopMesh` has come; `outLink` / `inLink` are what the radio knows, `connected`, `crypto`, `order`, `backoff`, `registry` the module's maps. |
| `MeshTransportProofs` | proofs about `MeshTransport` | |
| `Delivery` | the way of a frame to the application: `sendFrame`'s chunks, the reassembler, `onIncoming` with its two filters, the inbox | a peer's frames are numbered, and what the reassembler's slots hold is of which frame each chunk is. `Opened` is `onIncoming`'s gate from the decrypt to the handler, which runs without an await. The inbox's writing transactions run one by one in the order they were created (`txq`); each is one action. `params` is the page's setting of the Bloom filter (its m and k), `disk` the stored bits with theirs: `Boot` discards bits of another setting. |
| `DeliveryProofs` | proofs about `Delivery` | |
| `IdentityStore` | the wrapping key, the identity, the sealed scalar, the Noise keypair, restore and forget, over one IndexedDB and the memory of several pages | `call` holds the calls, suspended at a named await; `tab` is the module-level state of `device-identity.ts` and `x25519-identity.ts` in one page; `kek`, `legacy` and `row` are the two databases, `lock` the Web Lock. Call c mints the value c. Restores, forgets and Noise calls take no lock and may be made at any time, whatever the page has; `raced`, `restored`, `overtaken`, `early` and `mistaken` are history, which the properties' conditions speak of. |
| `IdentityStoreProofs` | proofs about `IdentityStore`: types, pairs, owners | |
| `IdentityHistoryProofs` | proofs about what the Web Lock protects | extends `IdentityStoreProofs` |
| `IdentitySealedProofs` | proofs about the sealed scalar on disk and in memory | extends `IdentityHistoryProofs` |
| `Outbox` | the queue in IndexedDB, the pages that share it and their drainers | `store` holds an entry or nothing per message id; each method of `Outbox` is one transaction and one action. `drain` holds the runs of `drain()`, suspended in `nextPending`, in the request, or in `markSent` / `markFailed`; `draining` is the in-flight flag of a page. `relayed` and `refused` are what the relay has and how often it, or the way to it, failed: history the properties compare the queue with. |
| `OutboxProofs` | proofs about `Outbox` | |
| `MC*` | the constants of the model-checked instances | |

`MeshTransport` uses of a handshake only whether it completes or fails;
`NoiseHandshake` is the detailed view of that, and `SessionRatchet` of what
follows. The three meet in the `CryptoState`: `session`, `verdict` and the
strike count.

Abstractions that matter:

- Time. `MeshTransport` has a handshake become overdue and a retry window
  expire at any moment; the tick that notices comes later. Step sizes of the
  backoff (5, 15, 60 s) are left out.
- Cryptography is ideal: no ciphertext opens under a state or key other than
  its own, and nobody but the peer makes one.
- `startMesh` and `stopMesh` do not overlap, and `stopScan` /
  `stopAdvertising` return.
- In `Outbox` a request may fail whether or not the relay got it, at any moment
  and whatever `online` says; a success is taken to be the relay's. (The code
  reads any 2xx answer so, also one without a JSON body.) `open()` has
  succeeded; that `getOutbox()` in the router hands out a queue whose `open()`
  is still pending is not modelled.
- `Delivery` has one page, peers whose sessions are up and accepted, and
  distinct `receivedAtMs`. Frames that come by SSE pass no filter
  (`online-bridge.ts`) and are left out. The application consumes one message at
  a time. A false positive of the Bloom filter is part of the model: `Hash` is any
  function of the id, one for each setting of m and k a build may come with.
- In `IdentityStore` a transaction takes effect in the step whose code asks for
  it, and its answer is used in the call's next step. Web Locks are there. The profile seed, the room-host seed and the raw export are left out.
- `SessionRatchet` counters are bounded by `MaxCounter`; the code's are 64 bits
  wide and a session does not reach that.

## 3. Runs

| Run | Instance | Shows |
|---|---|---|
| `ratchet` | window 3, lookahead 1, counters 0..5, two overlapping decrypts; 121 778 states | the window is exact, keys match and are there, forward secrecy, forgeries move no window, gaps below three lookaheads survived, refinement of `GuardedDelivery` |
| `ratchet_gap` | same | expected violation: a counter the window accepts has no key |
| `ratchet_overlap` | same | expected violation: a frame is delivered twice |
| `transport` | two addresses of one peer, one of which also connects to us, limit 1, two suspended calls (symmetric); 3 043 488 states | no orphaned state, settled state kept, retry windows kept |
| `transport_live` | one address, two calls; 58 621 states | handshakes end, `stopMesh` ends |
| `transport_stop` | as `transport` | expected violation: a device is connected after `stopMesh` |
| `transport_accept` | as `transport`, limit 2 | expected violation: an accepted peer cannot be sent to |
| `noise` | two overlapping calls per end (symmetric), four frames handed to an end, damage and failing writes; 2 282 981 states | both ends went by the same parts, keys and SAS agree unless reads of msg-3 overlapped, neither end finishes alone, frames leave a session alone, a pending write builds it anew once at most |
| `noise_replay` | four frames, no damage | expected violation: repetitions reject a handshake |
| `outbox` | two messages, room for one, two pages, two runs of `drain()`, two attempts, one entry per cycle, three enqueues, one fault, clock up to 2; 1 336 576 states | the cap, sent means relayed, given up only after the attempts, flags exact, no entry stays pending while the network keeps returning |
| `delivery` | two peers (symmetric), three messages of one or two chunks whose Bloom bits overlap, three sends, two at a time, LRU of one, inbox of two, two settings of the Bloom filter, one reload, one quota failure; 3 025 270 states | the inbox keeps its cap, a message comes once per page life and not after its mark was stored under the page's setting, marks are those of messages handed over, a clean link yields clean frames, consumed stays consumed |
| `identity` | two tabs (symmetric), three calls, two beside one another, one of each kind without the lock, six layouts left by earlier versions, one fault or reload; 3 221 681 states | stored pairs are whole and open, pages agree on one stored identity, sealed scalars stay their owners' and durable, no mint overwrites a whole identity |

Why the bounds are enough. The ratchet's window, lookahead and counter range
are the smallest in which a counter leaves the window, a shift clears it, the
cache extends in `get`, and a gap cannot be bridged. Two decrypts suffice for an
overtaking, and the theorems lift all of it to any number. In `MeshTransport`
two calls are enough for one call to change what another tested before it
suspended; two addresses of one peer give the ambiguity of ids, and the limit
of one makes its test bite. Four frames let the responder receive msg-1 and then
msg-3 three times, damaged or repeated, with room for the three strikes; two
slots let the write of msg-2 be pending while msg-3 is read, and two reads of
msg-3 or of msg-2 overlap. What takes a third call (two overlapping reads of
msg-3 beside the pending write, after which the session built anew is of other
keys) is left to the theorems, which hold for any number. In
`Outbox` one message more than there is room for makes every enqueue at the cap
evict, two pages make one entry be sent, counted and marked twice, three
enqueues let a message be evicted under a request and queued again before its
mark arrives, and one fault is enough for each place where a drain can be cut
off; the proofs lift the safety properties to any number of each. The clock only
orders entries, and two values do. `Drain` is as large as `Page`, which
`FlagExact` shows to be enough. In `Delivery` three sends fill an inbox of two
and evict, three messages whose bits cover each other pairwise make a false
positive, two chunks and two open sends make a mixed frame, and one reload
separates what is stored from what is not; two settings of the filter let it bring
another one. In `IdentityStore` three calls, two at a time, are a mint, one that
waits for it or overtakes it, be it a restore, a forget or a Noise call outside the
lock, and one that finds what they left; one fault or reload is enough for each place
where a call can be cut off. Each layout is one an earlier version or a crash left.
The theorems lift all of it to any number.

Fairness. In `MeshTransport` the intervals fire while they are set
(`TimeoutTick`), clocks advance (`Overdue`), and the native calls `stopMesh`
awaits return (`StopTimers`, `StopDevice`, `StopListeners`, `StopEnd`); all are
weak fairness. Nothing is assumed of the radio, the peer or the user: a connect
or a write may stay pending for ever. `HandshakesEnd` is conditional on the
mesh staying up. `StopEnds` needs that sightings stop at `stopScan`: a loop over
a `Map` visits keys added while it runs. In `Outbox` a dispatched 'online'
event is handled (`OnlineEvent`) and a run of `drain()` goes on (`Step`):
IndexedDB transactions end and `fetch()` answers or fails. Which answer comes is
not fair, and nothing makes the network return: `Drained` is conditional on it
leaving and returning for ever, because a page drains on no other occasion.

`NoiseHandshake` may stop (frames are lost), so its runs do not look for
deadlocks; nor do those of `Outbox`, `Delivery` and `IdentityStore`, whose
enqueues, sends and calls are bounded.

Findings, each an expected violation with the line it contradicts:

1. `ratchet_gap`. After a burst of at least `3 * RECV_LOOKAHEAD` lost frames
   every later frame is refused for want of a key; the comment at
   `session-ratchet.ts:71` says the cache covers what the window accepts.
2. `ratchet_overlap`. `handleIncomingChunk` awaits no decrypt; two copies of a
   frame that arrive together are both delivered, against `README.md:43`.
3. `transport_stop`. A connect in flight enters its device after
   `stopMesh` has cleared everything, against `transport.ts:536`. Nothing else gets
   past it (`StoppedIsClear`).
4. `transport_accept`. Accepting a peer that rotated its address may settle a
   state `sendFrame` does not use, against `transport.ts:636`. It does not
   happen while each peer keeps to one address (`AcceptMeant`).
5. `noise_replay`. Three repetitions of msg-1 reject a handshake, against
   `transport.ts:863`.

What the properties of the `noise` run leave open is behaviour of the code, too:

- `handleIncomingChunk` starts `advanceHandshake` per frame without waiting for the
  one before. Two reads of one msg-3 that overlap both mix into the symmetric state:
  the responder completes with keys and an SAS of its own, where `sas.ts:5` says
  "both peers compute the same SAS over the final Noise handshake hash".
  `KeysAgree` says that this is the only way, and that both ends went by the same
  keys and ciphertexts even then.
- A write of msg-2 that returns after msg-3 was read finds the handshake complete
  and builds the `RatchetSession` again (`transport.ts:918-934`): its counters and
  its replay window start anew under the same keys. What `README.md:40-43` says of
  distinct frame keys and replays holds of each of the two objects, not of both.
  `SessionSafe` says that it happens once at most and that no frame brings it about.
- A read that was suspended when the session was derived may still fail and count,
  and three of them reject the peer; so does a write of msg-2 that times out after
  it was answered.

What the conditions of the `identity` run leave out is behaviour of the code
too, found when a stronger property failed:

- `OneIdentity` and `PairOpens` do not hold of every history with a restore:
  another tab keeps the identity and the KEK it cached. Nor of one in which a
  forget ran beside another call or another tab's caches (`raced`):
  `clearDeviceIdentity` empties memory and bumps the epoch first and deletes the
  rows one by one afterwards, so a call in flight caches again, or stores under,
  a key that is about to go. A crash between two of the deletes leaves the rows
  that were still to come.
- `SealedDurable` is stated for one tab that seals or restores. The comment at
  `device-identity.ts:1872` says no undurable key can survive a restore; another
  tab's mint may delete or overwrite the sealed row of the restored owner while
  this one goes on serving its scalar from memory.
- Nor does it hold once a mint went by another identity than the stored one
  (`mistaken`). The comment at `device-identity.ts:1323` says of a null
  `cachedIdentity` that there is nothing live to overwrite; a caller that still
  holds a retired or session-only identity and mints while no identity is loaded
  overwrites the scalar of the stored one. Conversely a scalar handed out unsaved,
  as a retired identity's, is memoised by `x25519-identity.ts` and served again when
  that identity is loaded once more, after a restore that failed half way.
- `getOrCreateX25519Keypair` takes no lock. Beside a first mint it can mint a
  second KEK and store it over the one the identity is being wrapped under: the
  stored pair then opens under nothing that is stored. `PairOpens` holds unless a
  Noise keypair was asked for before there was an identity (`early`); the transport
  asks after it. Two tabs can also each mint a Noise keypair and keep their own.
- `replaceDeviceIdentity` takes no lock either. Beside a first mint in the same or
  another page its pair is stored and then overwritten by the mint's `saveMany`
  (`device-identity.ts:797`): the restored identity is lost. `IdentityKept` holds of
  every mint but those beside which a restore stored its pair (`overtaken`).
- The comment at `device-identity.ts:396-407` speaks of two transactions in
  `persistIdentity`; the code stores both rows with one `saveMany`, which is
  what `PairMatched` rests on.

And of the `delivery` run:

- A lost chunk, or two `sendFrame` calls to one peer that overlap, misalign the
  reassembler for later frames with as many chunks: `CleanLink` is about links
  without either.
- A frame is marked before its put commits. A reload after a flush of the marks
  and before the commit loses the entry for good; `ConsumedStays` and
  `DurableDedup` say what holds, not that every message is stored.
- Eviction at the cap goes by age alone and drops an unconsumed entry before a
  newer consumed one.
- The Bloom filter has false positives (`dedup-bloom.ts:7`): once the bits of a
  message are all set by others, it is dropped unseen. In the instance the third
  message is, after the first two. `MarkedWasHanded` says that nothing but such a
  collision drops one.
- A page whose build has another m or k discards the stored bits
  (`dedup-bloom.ts:134-151`) and hands over again what earlier pages had;
  `DurableDedup` is about pages of the stored setting.
- `BloomDedup.open` publishes its database handle before the bits are loaded;
  the model opens the page in one step.

## 4. Proofs

All constants are arbitrary within the named assumptions of the modules
(`RatchetAssumption`, `HandshakeAssumption`, `TransportAssumption`,
`OutboxAssumption`, `DeliveryAssumption`, `IdentityAssumption`).

`SessionRatchetProofs`. `Invariance` proves an inductive invariant that says,
beyond the types: both chains' positions equal the counters they belong to (the
send chain the send counter, `chain` one more than `highestDerived`,
`chainAtLowest` the `lowestCounter`); the cache holds exactly the counters
from `lowestCounter` to `highestDerived`, each with its own number as key; a
delivered counter is at most `highest`; the bitmap is exact inside the window;
and a suspended decrypt holds a counter below the send counter if it is going
to succeed. The properties of the `ratchet` run do not carry themselves:
`WindowExact`, for one, survives the commit of an overtaken decrypt only because
`highest` never decreases. `Refinement` maps a suspended call that will succeed
to `GuardedDelivery`'s pending counter; a call on a forgery is a stutter.
`DeliveredOnceIfSerial` shows that with one decrypt at a time each frame is
delivered once, so what `ratchet_overlap` finds is due to the overlap alone.

`MeshTransportProofs`. `NoOrphanCrypto` is inductive with the types: a state is
created only in the step that tests `connected`, and each step that takes a
device out of `connected` takes its state with it, save for the phase of
`stopMesh` between its two `clear()`s. From it `SettledKept` and `WindowKept`
follow, one lemma per group of actions. `TypeCorrect` adds the insertion order of
`cryptoStates` (`OrderInv`), by which `acceptPeer` chooses among the devices of one
id: the sequence lists the map's keys, each once. `AppendedOrder` and
`DeletedOrder` say what `Map.set` of a new key and `Map.delete` do to such a
sequence, and each action is brought to one of the two or leaves the keys alone.

Two theorems of that module say how far the findings 3 and 4 reach.
`StoppedIsClear` assumes that no `SetupDone` step comes between the clearing of
`connectedDevices` and the next `startMesh` (`NoLateConnect`) and concludes
`StopClearsAll`: the connect in flight is the only way past `stopMesh`.
`AcceptMeant` assumes `OneAddress`, that no two addresses advertise one id and no id
is an address, and concludes `AcceptUnblocks`. It rests on `OwnIdsKept`, which needs no
such assumption: what the maps and the suspended calls hold for an address is the id
it advertises or the address itself. With one address per peer the first match of
`acceptPeer`, the registry's entry and the connected match of `sendFrame` are then one
entry (`IdsResolve`), since an id matches once in a sequence without repetitions.

`OutboxProofs`. `FlagIsExact` is inductive with the types. `OnlyRelayedSent`
needs that a drain about to mark its message has seen the relay take it
(`SentInv`), which holds however late the mark comes because `relayed` only
grows. `GivenUp` rests on `CountInv`: the attempts of an entry plus the drains
about to add one (`Marking`) are at most the failures counted; a failure moves a
drain into `Marking`, its mark moves it from there into the entry, and
eviction, queueing again and reloads only lose counts. `QueueBounded` needs that
a full queue has an oldest entry (`OldestExists`, from the well-foundedness of
`<` on times and then on ids), so that an enqueue at the cap evicts one.

`DeliveryProofs` proves all seven properties of the `delivery` run from one
inductive invariant, `IInv`. `LinkOK` and `PageOK` are the types; that a
reassembler holds fewer chunks than it waits for is among them and needs the
cardinalities of growing slot sets. `BoxInv` adds to the cap that the set of
entries is finite, without which it has no oldest to evict. `OnceInv` explains
`OncePerLife`: a message the present page has handed over, once, has its bits set, so the
Bloom filter, not the LRU cache, which forgets, is what keeps it out; with
`LoadedInv` (an open page has all bits in memory that are stored under its setting) it gives `DurableDedup`.
`CleanInv` says what a link that lost nothing has in its reassembler chunk by
chunk. `PutInv` counts the puts of a message in the transaction queue: one that
was handed over once has at most one, and none once its entry is stored, so no
retried put can undo a `markConsumed`.

`IdentityStoreProofs` proves the four invariants of the `identity` run that need
no condition: `TypeOK`, `PairMatched`, `CachedWasSaved` and `SealedForOwner`.
None is inductive, because what is cached or stored comes out of a call that
read it several awaits earlier. `CallInv` therefore says what a suspended call
has read is worth: a call past the store has its identity in `saved`
(`PairSane`), a call that holds, waits for or has read a scalar has one minted
for the owner it will use it for (`SealedSane`). `Minted` states the latter by
the calls themselves and is stable, since no call that was made changes its
owner (`OwnersKept`); every lemma of a step starts from that. `FlightInv` keeps
the call a page has in flight and the holder of the lock apart from the calls
that merely wait, so that settling the waiting ones disturbs neither.

`IdentityHistoryProofs` proves the properties that need the lock: `OneIdentity`,
`IdentityKept` and `PairOpens`. `HInv` says who may be where. The calls that
resolve an identity or seal hold the lock (`LockHeld`), and only they mint
(`MintsHeld`). What the lock's holder has read is worth what it depends on, and
`ReadGood` says each part under its own condition: what it did not find is still
not there (`ReadKept`), unless a restore stored its pair beside it, and that is
`IdentityKept`, forgets or not; what it found is still there (`ReadPresent`), unless a
forget raced; and it is what is stored (`Current`), unless a backup was restored,
too. Where no forget raced, a forget has the origin to itself (`ClearAlone`); every
page that has an identity lives over a stored pair that is whole (`LoadedWhole`);
while a call that stored a pair ends, no page has an identity (`AfterAlone`). The
holder therefore leaves the page with the stored
identity (`IdInv`), which is `OneIdentity`. `clearDeviceIdentity` and
`replaceDeviceIdentity` take no lock, nor does `getOrCreateX25519Keypair`: the
conditions `raced`, `restored`, `overtaken` and `early` are what they cost.
`AlwaysOpens` adds `OpenInv`. The stored
identity is wrapped under the KEK or under the legacy key while that is stored; one
without a seed is a pre-#98 one and under the legacy key; a call asks for a new KEK
only where that locks nothing out (`KekSafe`: what it found missing is still
missing, or the legacy key is what it adopts), and one that is about to mint over a
seedless identity holds the legacy key (`ReadSafe`).

`IdentitySealedProofs` proves `SealedDurable`. `DurableInv` is the heart: the
scalars of any identity the page may still come to have (`Claimed`: it is stored,
cached, or read by a call that resolves it) and of the page's present epoch are on
disk, whether cached, memoised, handed out or about to be saved (`Durable`). It
does not hold of a page in the middle of a restore (`Moving`), and need not: the
restore's last step bumps the epoch, and with it nothing of the page counts any
more (`Spent`), which is what the comment at `device-identity.ts:1870` argues. A mint
that ends after such a restore drops no scalar anybody would miss, and nobody comes
to have one of the stored identity's meanwhile (`Gone`). `SInv` is what
that rests on: only pages that sealed or restored keep scalars (`SealerInv`); an
epoch sampled, by a call at its start, by its mint, or in an entry, is no later than
the page's (`EpochInv`), so that an entry of the present epoch was made in it; a call
that waits for another is of the same page and epoch (`JoinInv`), so that settling it
adds nothing new; and nobody asks for the scalar of an identity not yet minted
(`UnbornInv`), so that a fresh identity starts with none. Steps that leave the
scalars alone are brought to `Frame`, those of a sealed call to `SealedFrame`; what
either keeps is proved once (`FrameKeeps`, `DurableKept`, `SealedKeeps`).

`NoiseHandshakeProofs` proves all four properties of the `noise` run for any
number of calls and frames, whichever calls overlap. What a frame is worth is said
by `WireInv` and `From`: a msg-3 tells that the initiator is at msgIdx 3 with the
state that seals it, and a frame that was read is one of the wire with fields
damaged. `Good` is the heart of the argument. A msg-2 is sealed under a state of
three items, or under one whose second item is a damaged ML-KEM key; the
initiator's second item is its own key, so a static part that opens for it shows
that it had three items, and a payload that opens shows that both ends hold the same
four (`Answered`), however many damaged msg-2 failed before. Only the initiator's
first read of a msg-2 begins with three items (`Leading`), and it opens only as long
as no other has mixed in: so one call at a time gets anywhere at that end, and
nothing mixes into a state that moved. The responder's end has no such call. There
`ResponderInv` says that no two reads try a payload under states of one length, and
`DoneInv` what a completed responder has: all items of the initiator's state but
perhaps the last (`AllButLast`), which is the payload of msg-3, and all of them
unless its state moved under a read (`mixed`); that is `KeysAgree` and
`ResponderLast`. It also says that no other read can still complete, and that a
pending write of msg-2 finds one session built, which gives `SessionSafe`. The steps
of either end are brought to one form (`Moved`), so that what the other end keeps is
proved once (`InitiatorStep`, `ResponderStep`).

Every invariant and every action property of the passing runs is proved, and so is
the refinement. Left to TLC: the three liveness properties, `HandshakesEnd`,
`StopEnds` and `Drained`, because the proof system does not reason about fairness
and ENABLED.

## 5. Done and not modelled

Session ratchet, connection manager, Noise handshake, outbox, the way of a frame
from chunk to inbox, and the identity store are modelled and checked, in this
order, and all have proofs.

Not modelled, and why:

- The rest of the router: `routeOutgoing` chooses between mesh, relay and queue
  by a snapshot of the network state, and `getOutbox()` hands out a queue whose
  `open()` is still pending. What the queue then does is in `Outbox`.
- Overlapping `startMesh()` / `stopMesh()` calls, a `stopScan()` that throws, and
  the step sizes of the backoff.
- The spool (`mailbox/spool.ts`): nothing in the package fills or reads it.
- The token client, a cache of 32 entries in front of `fetch()`, whose
  `clearTokens()` nothing calls; the MAC rotation timer, whose effect, a peer
  under a new address, is in `MeshTransport`.
- The profile seed and the room-host seed: get-or-create without a lock, like
  the Noise keypair, in databases of their own.
- Bundle and channel crypto, encodings, metrics, constants and native bridges,
  which keep no state and have no control worth checking.
