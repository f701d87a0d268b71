--------------------------- MODULE SessionRatchet ---------------------------
(***************************************************************************)
(* One direction of an encrypted BLE session: the send side of one         *)
(* RatchetSession and the receive side of its peer                         *)
(* (packages/mesh-core/src/crypto/session-ratchet.ts).                     *)
(*                                                                         *)
(* encrypt() numbers its frames and ratchets the send chain.  The link may *)
(* lose, repeat and reorder frames and may hand over frames no peer        *)
(* encrypted.  decrypt() checks the replay window and looks up a key, then *)
(* suspends in WebCrypto; when it resumes it commits the counter and       *)
(* prunes the key cache.  Other decrypts of the session run while one is   *)
(* suspended: handleIncomingChunk starts one per frame and awaits none.    *)
(*                                                                         *)
(* A chain key is represented by how often it was ratcheted, and the AEAD  *)
(* key derived from it by the same number.                                 *)
(***************************************************************************)
EXTENDS Integers

CONSTANTS
    RECV_WINDOW_SIZE,  \* 64 in the code
    RECV_LOOKAHEAD,    \* 8 in the code
    MaxCounter,        \* the last frame counter (2^64 - 1 on the wire)
    Call               \* decrypt() calls that may be suspended together

ASSUME RatchetAssumption ==
    /\ RECV_WINDOW_SIZE \in Nat \ {0}
    /\ RECV_LOOKAHEAD \in Nat \ {0}
    /\ MaxCounter \in Nat

VARIABLES
    sendCounter,     \* counter of the next frame
    sendChain,       \* position of the send chain
    wire,            \* every frame encrypted so far
    highest,         \* ReplayWindow.highest, -1 before the first commit
    bitmap,          \* the set bits of ReplayWindow.bitmap
    keys,            \* RecvKeyCache.keys: counter -> AEAD key
    lowestCounter,   \* RecvKeyCache.lowestCounter
    chainAtLowest,   \* RecvKeyCache.chainAtLowest
    chain,           \* RecvKeyCache.chain
    highestDerived,  \* RecvKeyCache.highestDerived
    call,            \* the decrypt() calls
    delivered        \* how often each counter's plaintext was returned

sendVars  == <<sendCounter, sendChain, wire>>
cacheVars == <<keys, lowestCounter, chainAtLowest, chain, highestDerived>>
vars == <<sendVars, highest, bitmap, cacheVars, call, delivered>>

Counter == 0 .. MaxCounter
NoKey == -1
Frame == [ctr : Counter, key : Nat \cup {NoKey}]
Idle  == [pc |-> "idle", ctr |-> 0, key |-> NoKey, rawKey |-> 0]

\* What the link may hand to decrypt(): a frame of the peer's, or one that no
\* key authenticates (damaged or foreign bytes under any counter).
Received == wire \cup {[ctr |-> c, key |-> NoKey] : c \in Counter}

TypeOK ==
    /\ sendCounter \in Nat
    /\ sendChain \in Nat
    /\ wire \subseteq Frame
    /\ highest \in Counter \cup {-1}
    /\ bitmap \subseteq Nat
    /\ keys \in [DOMAIN keys -> Nat]
    /\ DOMAIN keys \subseteq Nat
    /\ lowestCounter \in Nat
    /\ chainAtLowest \in Nat
    /\ chain \in Nat
    /\ highestDerived \in Nat
    /\ call \in [Call -> [pc : {"idle", "aead"}, ctr : Counter,
                          key : Nat \cup {NoKey}, rawKey : Nat]]
    /\ delivered \in [Counter -> Nat]

-----------------------------------------------------------------------------
(* ReplayWindow *)

CanAcceptAnyAge(c) == highest - c \notin bitmap

CanAccept(c) ==
    \/ c > highest
    \/ /\ highest - c < RECV_WINDOW_SIZE
       /\ highest - c \notin bitmap

CommittedHighest(c) == IF c > highest THEN c ELSE highest

CommittedBitmapUnshifted(c) ==
    IF c > highest THEN bitmap \cup {0} ELSE bitmap \cup {highest - c}

CommittedBitmapForwardOnly(c) ==
    IF c > highest
    THEN {b \in 0 .. RECV_WINDOW_SIZE - 1 :
             b = 0 \/ (highest >= 0 /\ b - (c - highest) \in bitmap)}
    ELSE bitmap

CommittedBitmap(c) ==
    IF c > highest
    THEN {b \in 0 .. RECV_WINDOW_SIZE - 1 :
             b = 0 \/ (highest >= 0 /\ b - (c - highest) \in bitmap)}
    ELSE bitmap \cup {highest - c}

-----------------------------------------------------------------------------
(* RecvKeyCache.  Filled(ks, upTo) is the cache ks after fill(upTo).       *)

Filled(ks, upTo) ==
    [c \in DOMAIN ks \cup (highestDerived + 1) .. upTo |->
        IF c > highestDerived THEN chain + (c - highestDerived - 1) ELSE ks[c]]

Fill(ks, upTo) ==
    /\ keys' = Filled(ks, upTo)
    /\ IF upTo > highestDerived
       THEN /\ highestDerived' = upTo
            /\ chain' = chain + (upTo - highestDerived)
       ELSE UNCHANGED <<highestDerived, chain>>

WithinReachShort(c) == c <= highestDerived + RECV_LOOKAHEAD

\* get() finds or derives a key for any counter it has not pruned, up to
\* 2 * RECV_LOOKAHEAD beyond the last key it derived.
WithinReach(c) == c <= highestDerived + 2 * RECV_LOOKAHEAD

HasKey(c) == c >= lowestCounter /\ WithinReach(c)

WindowFloorHigh(c) == c - RECV_WINDOW_SIZE + 2

WindowFloor(c) == c - RECV_WINDOW_SIZE + 1

PruneBelowFloor(c) == WindowFloor(c)

PruneBelow(c) ==
    IF WindowFloor(c) > lowestCounter THEN WindowFloor(c) ELSE lowestCounter

PruneKeysOnly(c) ==
    /\ lowestCounter' = PruneBelow(c)
    /\ UNCHANGED chainAtLowest
    /\ Fill([k \in {k \in DOMAIN keys : k >= PruneBelow(c)} |-> keys[k]],
            c + RECV_LOOKAHEAD)

PruneOlderThan(c) ==
    /\ lowestCounter' = PruneBelow(c)
    /\ chainAtLowest' = chainAtLowest + (PruneBelow(c) - lowestCounter)
    /\ Fill([k \in {k \in DOMAIN keys :
                      ~ (lowestCounter <= k /\ k < PruneBelow(c))} |-> keys[k]],
            c + RECV_LOOKAHEAD)

-----------------------------------------------------------------------------
(* RatchetSession *)

Init ==
    /\ sendCounter = 0
    /\ sendChain = 0
    /\ wire = {}
    /\ highest = -1
    /\ bitmap = {}
    /\ lowestCounter = 0
    /\ chainAtLowest = 0
    /\ keys = [c \in 0 .. RECV_LOOKAHEAD - 1 |-> c]
    /\ highestDerived = RECV_LOOKAHEAD - 1
    /\ chain = RECV_LOOKAHEAD
    /\ call = [k \in Call |-> Idle]
    /\ delivered = [c \in Counter |-> 0]

EncryptUnratcheted ==
    /\ sendCounter <= MaxCounter
    /\ wire' = wire \cup {[ctr |-> sendCounter, key |-> sendChain]}
    /\ sendCounter' = sendCounter + 1
    /\ UNCHANGED <<sendChain, highest, bitmap, cacheVars, call, delivered>>

\* The counter is taken and the chain ratcheted before encrypt() first awaits.
Encrypt ==
    /\ sendCounter <= MaxCounter
    /\ wire' = wire \cup {[ctr |-> sendCounter, key |-> sendChain]}
    /\ sendCounter' = sendCounter + 1
    /\ sendChain' = sendChain + 1
    /\ UNCHANGED <<highest, bitmap, cacheVars, call, delivered>>

\* decrypt() up to its first await.  A frame that fails either check makes it
\* throw with no state changed.
DecryptStart(k) ==
    /\ call[k].pc = "idle"
    /\ \E f \in Received :
         /\ CanAccept(f.ctr)
         /\ HasKey(f.ctr)
         /\ Fill(keys, IF f.ctr > highestDerived
                       THEN f.ctr + RECV_LOOKAHEAD ELSE highestDerived)
         /\ call' = [call EXCEPT ![k] =
                       [pc |-> "aead", ctr |-> f.ctr, key |-> f.key,
                        rawKey |-> keys'[f.ctr]]]
    /\ UNCHANGED <<sendVars, highest, bitmap, lowestCounter, chainAtLowest, delivered>>

\* The AEAD tag verifies: commit() the counter, prune the cache, return.
DecryptDone(k) ==
    /\ call[k].pc = "aead"
    /\ call[k].key = call[k].rawKey
    /\ highest' = CommittedHighest(call[k].ctr)
    /\ bitmap' = CommittedBitmap(call[k].ctr)
    /\ PruneOlderThan(call[k].ctr)
    /\ delivered' = [delivered EXCEPT ![call[k].ctr] = @ + 1]
    /\ call' = [call EXCEPT ![k] = Idle]
    /\ UNCHANGED sendVars

DecryptFailedCommits(k) ==
    /\ call[k].pc = "aead"
    /\ call[k].key # call[k].rawKey
    /\ highest' = CommittedHighest(call[k].ctr)
    /\ bitmap' = CommittedBitmap(call[k].ctr)
    /\ call' = [call EXCEPT ![k] = Idle]
    /\ UNCHANGED <<sendVars, cacheVars, delivered>>

\* The AEAD tag does not verify: decrypt() throws before it commits.
DecryptFailed(k) ==
    /\ call[k].pc = "aead"
    /\ call[k].key # call[k].rawKey
    /\ call' = [call EXCEPT ![k] = Idle]
    /\ UNCHANGED <<sendVars, highest, bitmap, cacheVars, delivered>>

Next ==
    \/ Encrypt
    \/ \E k \in Call : DecryptStart(k) \/ DecryptDone(k) \/ DecryptFailed(k)

Spec == Init /\ [][Next]_vars

-----------------------------------------------------------------------------
(* Properties *)

\* The two ends derive the same key for a counter: a frame of the peer's whose
\* key is in the receive cache authenticates under it, whatever was lost,
\* reordered or damaged before (deriveFrameKey, ratchetChain, fill, prune).
KeysMatchSender ==
    \A f \in wire : f.ctr \in DOMAIN keys => keys[f.ctr] = f.key

\* ReplayWindow's two directions at once: inside the window a bit is set
\* exactly when that counter was delivered, so no delivered frame is accepted
\* again and no undelivered one is refused, also when an overtaken decrypt
\* commits after the window moved.
WindowExact ==
    \A c \in Counter :
        highest - RECV_WINDOW_SIZE < c /\ c <= highest
            => (highest - c \in bitmap <=> delivered[c] > 0)

\* Once a counter has been delivered, no decrypt that starts later accepts it
\* again, however far the window has moved since (canAccept).
NoLateReplay ==
    \A c \in Counter : delivered[c] > 0 => ~ CanAccept(c)

\* A frame that is late but still inside the replay window finds its key, and
\* the next RECV_LOOKAHEAD counters have theirs derived already.
WindowHasKeys ==
    \A c \in Nat \cap (highest - RECV_WINDOW_SIZE + 1) .. (highest + RECV_LOOKAHEAD) :
        c \in DOMAIN keys

\* Forward secrecy of the cache: nothing it holds, neither a key nor the
\* chain position of its lowest counter, reaches a counter that has left the
\* replay window.
ForwardSecrecy ==
    /\ \A c \in DOMAIN keys : keys[c] > highest - RECV_WINDOW_SIZE
    /\ chainAtLowest > highest - RECV_WINDOW_SIZE

\* Frames the peer never encrypted neither move the window nor mark a counter
\* (one within reach does extend the key cache, see DecryptStart): the window
\* stays behind the send counter, so they cannot make it refuse the frames the
\* peer is still going to send.
SpoofCannotAdvance ==
    /\ highest < sendCounter
    /\ \A c \in Counter : delivered[c] > 0 => c < sendCounter

\* A burst of lost frames shorter than 3 * RECV_LOOKAHEAD leaves the session
\* usable: any counter the window accepts that close ahead finds a key.
SurvivesShortGap ==
    \A c \in Counter :
        CanAccept(c) /\ c <= highest + 3 * RECV_LOOKAHEAD => HasKey(c)

\* "any counter the ReplayWindow accepts also has a key available"
\* (session-ratchet.ts:71): claimed for every counter.
AcceptedHasKey ==
    \A f \in wire : CanAccept(f.ctr) => HasKey(f.ctr)

\* "A sliding 64-frame replay window rejects duplicated or replayed frames"
\* (README.md:43): claimed for every frame.
DeliveredOnce ==
    \A c \in Counter : delivered[c] <= 1

-----------------------------------------------------------------------------
(* What the receive side promises, see GuardedDelivery.                    *)

Promise == INSTANCE GuardedDelivery WITH
    sent <- {f.ctr : f \in wire},
    pending <- [k \in Call |->
                  IF call[k].pc = "aead" /\ call[k].key = call[k].rawKey
                  THEN call[k].ctr ELSE -1]

\* Every run of the ratchet is a run of GuardedDelivery.
ImplementsPromise == Promise!Spec
=============================================================================
