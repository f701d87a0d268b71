------------------------ MODULE SessionRatchetProofs ------------------------
(***************************************************************************)
(* Proofs about SessionRatchet for every window, lookahead, counter range  *)
(* and number of overlapping decrypts.                                     *)
(***************************************************************************)
EXTENDS SessionRatchet, TLAPS

\* The send side numbers frames and ratchets its chain in step.
SendInv ==
    /\ sendChain = sendCounter
    /\ sendCounter <= MaxCounter + 1
    /\ \A f \in wire : f.key = f.ctr /\ f.ctr < sendCounter

\* The cache is the identity on one interval that starts at the window's edge
\* and reaches at least RECV_LOOKAHEAD beyond the highest committed counter.
CacheInv ==
    /\ keys = [c \in lowestCounter .. highestDerived |-> c]
    /\ chain = highestDerived + 1
    /\ chainAtLowest = lowestCounter
    /\ lowestCounter = IF highest < RECV_WINDOW_SIZE
                       THEN 0 ELSE highest - RECV_WINDOW_SIZE + 1
    /\ highest + RECV_LOOKAHEAD <= highestDerived

\* A suspended call holds the key of its own counter; the AEAD tag verifies
\* only if the peer encrypted the frame.
CallInv ==
    \A k \in Call : call[k].pc = "aead" =>
        /\ call[k].rawKey = call[k].ctr
        /\ call[k].ctr <= highestDerived
        /\ call[k].key = NoKey \/ (call[k].key = call[k].ctr /\ call[k].ctr < sendCounter)

\* Nothing beyond the window's head has been delivered, and the head itself
\* is a counter the peer has used.
DeliveredInv ==
    /\ highest < sendCounter
    /\ \A c \in Counter : delivered[c] > 0 => c <= highest /\ c < sendCounter

IInv == TypeOK /\ SendInv /\ CacheInv /\ CallInv /\ DeliveredInv /\ WindowExact

-----------------------------------------------------------------------------
\* fill() extends an identity interval to an identity interval.
LEMMA FillExtends ==
    ASSUME NEW lo \in Nat, NEW ks, NEW upTo \in Int,
           highestDerived \in Nat, chain = highestDerived + 1,
           lo <= highestDerived + 1,
           ks = [c \in lo .. highestDerived |-> c],
           Fill(ks, upTo)
    PROVE  /\ highestDerived' = IF upTo > highestDerived THEN upTo ELSE highestDerived
           /\ chain' = highestDerived' + 1
           /\ keys' = [c \in lo .. highestDerived' |-> c]
<1>1. highestDerived' = IF upTo > highestDerived THEN upTo ELSE highestDerived
  BY DEF Fill
<1>2. chain' = highestDerived' + 1
  BY DEF Fill
<1>3. keys' = [c \in (lo .. highestDerived) \cup ((highestDerived + 1) .. upTo) |->
                 IF c > highestDerived THEN chain + (c - highestDerived - 1) ELSE ks[c]]
  BY DEF Fill, Filled
<1>4. (lo .. highestDerived) \cup ((highestDerived + 1) .. upTo) = lo .. highestDerived'
  BY <1>1
<1>5. \A c \in lo .. highestDerived' :
        (IF c > highestDerived THEN chain + (c - highestDerived - 1) ELSE ks[c]) = c
  BY <1>1
<1>6. keys' = [c \in lo .. highestDerived' |->
                 IF c > highestDerived THEN chain + (c - highestDerived - 1) ELSE ks[c]]
  BY <1>3, <1>4
<1>7. QED
  BY <1>1, <1>2, <1>5, <1>6

\* pruneOlderThan() moves the cache to the window of the committed counter.
LEMMA PruneMovesWindow ==
    ASSUME TypeOK, CacheInv, NEW c \in Counter, c <= highestDerived,
           PruneOlderThan(c), highest' = CommittedHighest(c)
    PROVE  CacheInv' /\ highestDerived <= highestDerived' /\ highestDerived' \in Nat
<1> DEFINE ks == [k \in {k \in DOMAIN keys :
                           ~ (lowestCounter <= k /\ k < PruneBelow(c))} |-> keys[k]]
<1>1. highest \in Int /\ highest >= -1 /\ highestDerived \in Nat /\ lowestCounter \in Nat
      /\ c \in Nat /\ RECV_WINDOW_SIZE \in Nat \ {0} /\ RECV_LOOKAHEAD \in Nat \ {0}
  BY RatchetAssumption DEF TypeOK, Counter
<1>2. lowestCounter' = PruneBelow(c) /\ PruneBelow(c) \in Nat
  BY <1>1 DEF PruneOlderThan, PruneBelow, WindowFloor
<1>3. PruneBelow(c) = IF highest' < RECV_WINDOW_SIZE
                      THEN 0 ELSE highest' - RECV_WINDOW_SIZE + 1
  BY <1>1 DEF CacheInv, PruneBelow, WindowFloor, CommittedHighest
<1>4. PruneBelow(c) >= lowestCounter /\ PruneBelow(c) <= highestDerived + 1
  BY <1>1 DEF PruneBelow, WindowFloor, CacheInv
<1>5. ks = [k \in PruneBelow(c) .. highestDerived |-> k]
  <2>1. DOMAIN keys = lowestCounter .. highestDerived
    BY DEF CacheInv
  <2>2. {k \in DOMAIN keys : ~ (lowestCounter <= k /\ k < PruneBelow(c))}
          = PruneBelow(c) .. highestDerived
    BY <1>1, <1>2, <1>4, <2>1
  <2>3. \A k \in PruneBelow(c) .. highestDerived : keys[k] = k
    BY <1>1, <1>2, <1>4 DEF CacheInv
  <2>4. QED
    BY <2>2, <2>3
<1>6. Fill(ks, c + RECV_LOOKAHEAD)
  BY DEF PruneOlderThan
<1>7. /\ highestDerived' = IF c + RECV_LOOKAHEAD > highestDerived
                           THEN c + RECV_LOOKAHEAD ELSE highestDerived
      /\ chain' = highestDerived' + 1
      /\ keys' = [k \in PruneBelow(c) .. highestDerived' |-> k]
  <2> HIDE DEF ks
  <2>1. chain = highestDerived + 1
    BY DEF CacheInv
  <2>2. c + RECV_LOOKAHEAD \in Int
    BY <1>1
  <2>3. QED
    BY <1>1, <1>2, <1>4, <1>5, <1>6, <2>1, <2>2, FillExtends
<1>8. chainAtLowest' = lowestCounter'
  BY <1>1, <1>2 DEF PruneOlderThan, CacheInv
<1>9. highest' + RECV_LOOKAHEAD <= highestDerived'
  BY <1>1, <1>7 DEF CommittedHighest, CacheInv
<1>10. QED
  BY <1>1, <1>2, <1>3, <1>7, <1>8, <1>9 DEF CacheInv

\* commit() keeps the bitmap exact: the new bitmap describes the new window
\* once the committed counter is counted as delivered.
LEMMA CommitKeepsExact ==
    ASSUME TypeOK, DeliveredInv, WindowExact, NEW c \in Counter,
           highest' = CommittedHighest(c), bitmap' = CommittedBitmap(c),
           delivered' = [delivered EXCEPT ![c] = @ + 1]
    PROVE  WindowExact'
<1>1. highest \in Int /\ highest >= -1 /\ bitmap \subseteq Nat
      /\ RECV_WINDOW_SIZE \in Nat \ {0} /\ Counter \subseteq Nat /\ MaxCounter \in Nat
      /\ delivered \in [Counter -> Nat]
  BY RatchetAssumption DEF TypeOK, Counter
<1>2. SUFFICES ASSUME NEW d \in Counter,
                      highest' - RECV_WINDOW_SIZE < d, d <= highest'
               PROVE  highest' - d \in bitmap' <=> delivered'[d] > 0
  BY DEF WindowExact, Counter
<1>3. delivered'[d] > 0 <=> (d = c \/ delivered[d] > 0)
  BY <1>1
<1>4. CASE c > highest
  <2>1. highest' = c
    BY <1>4 DEF CommittedHighest
  <2>2. c - d \in 0 .. RECV_WINDOW_SIZE - 1
    BY <1>1, <1>2, <2>1
  <2>3. c - d \in bitmap' <=> (c - d = 0 \/ (highest >= 0 /\ highest - d \in bitmap))
    <3>1. (c - d) - (c - highest) = highest - d
      BY <1>1
    <3>2. QED
      BY <1>4, <2>2, <3>1 DEF CommittedBitmap
  <2>4. CASE d = c
    BY <1>1, <1>3, <2>1, <2>3, <2>4
  <2>5. CASE d # c /\ d <= highest
    <3>1. highest - RECV_WINDOW_SIZE < d
      BY <1>1, <1>2, <1>4, <2>1
    <3>2. highest - d \in bitmap <=> delivered[d] > 0
      BY <2>5, <3>1 DEF WindowExact
    <3>3. highest >= 0 /\ c - d # 0
      BY <1>1, <2>5
    <3>4. QED
      BY <1>3, <2>1, <2>3, <2>5, <3>2, <3>3
  <2>6. CASE d # c /\ d > highest
    <3>1. ~ (delivered[d] > 0)
      BY <1>1, <2>6 DEF DeliveredInv
    <3>2. highest - d \notin bitmap /\ c - d # 0
      BY <1>1, <2>6
    <3>3. QED
      BY <1>3, <2>1, <2>3, <2>6, <3>1, <3>2
  <2>7. QED
    BY <1>1, <2>4, <2>5, <2>6
<1>5. CASE ~ (c > highest)
  <2>1. highest' = highest /\ bitmap' = bitmap \cup {highest - c}
    BY <1>5 DEF CommittedHighest, CommittedBitmap
  <2>2. highest - d \in bitmap <=> delivered[d] > 0
    BY <1>2, <2>1 DEF WindowExact
  <2>3. highest - d = highest - c <=> d = c
    BY <1>1
  <2>4. QED
    BY <1>3, <2>1, <2>2, <2>3
<1>6. QED
  BY <1>4, <1>5

-----------------------------------------------------------------------------
LEMMA InitInv == Init => IInv
<1> SUFFICES ASSUME Init PROVE IInv
  OBVIOUS
<1> USE RatchetAssumption DEF Init, Counter
<1>1. CacheInv
  BY DEF CacheInv
<1>2. TypeOK
  BY DEF TypeOK, Idle, Frame, NoKey
<1>3. SendInv
  BY DEF SendInv
<1>4. CallInv
  BY DEF CallInv, Idle
<1>5. DeliveredInv /\ WindowExact
  BY DEF DeliveredInv, WindowExact
<1>6. QED
  BY <1>1, <1>2, <1>3, <1>4, <1>5 DEF IInv

LEMMA EncryptInv == IInv /\ Encrypt => IInv'
<1> SUFFICES ASSUME IInv, Encrypt PROVE IInv'
  OBVIOUS
<1> USE DEF IInv, Encrypt, cacheVars
<1>1. sendCounter \in Counter /\ sendChain = sendCounter /\ MaxCounter \in Nat
  BY RatchetAssumption DEF TypeOK, SendInv, Counter
<1>2. TypeOK'
  BY <1>1 DEF TypeOK, Frame, Counter
<1>3. SendInv'
  BY <1>1 DEF SendInv, Counter, TypeOK, Frame
<1>4. CacheInv'
  BY DEF CacheInv
<1>5. CallInv'
  BY <1>1 DEF CallInv, TypeOK, Counter
<1>6. DeliveredInv'
  BY <1>1 DEF DeliveredInv, TypeOK, Counter
<1>7. WindowExact'
  BY DEF WindowExact
<1>8. QED
  BY <1>2, <1>3, <1>4, <1>5, <1>6, <1>7

LEMMA StartInv == \A k \in Call : IInv /\ DecryptStart(k) => IInv'
<1> SUFFICES ASSUME NEW k \in Call, IInv, DecryptStart(k) PROVE IInv'
  OBVIOUS
<1> USE DEF IInv
<1>1. PICK f \in Received :
        /\ HasKey(f.ctr)
        /\ Fill(keys, IF f.ctr > highestDerived
                      THEN f.ctr + RECV_LOOKAHEAD ELSE highestDerived)
        /\ call' = [call EXCEPT ![k] = [pc |-> "aead", ctr |-> f.ctr, key |-> f.key,
                                        rawKey |-> keys'[f.ctr]]]
  BY DEF DecryptStart
<1>2. UNCHANGED <<sendVars, highest, bitmap, lowestCounter, chainAtLowest, delivered>>
  BY DEF DecryptStart
<1>3. f.ctr \in Counter /\ f.key \in Nat \cup {NoKey}
      /\ (f.key = NoKey \/ (f.key = f.ctr /\ f.ctr < sendCounter))
  BY DEF Received, TypeOK, Frame, SendInv
<1>4. f.ctr \in Nat /\ highestDerived \in Nat /\ lowestCounter \in Nat
      /\ RECV_LOOKAHEAD \in Nat \ {0} /\ highest \in Int /\ sendCounter \in Nat
      /\ RECV_WINDOW_SIZE \in Nat \ {0}
  BY <1>3, RatchetAssumption DEF TypeOK, Counter
<1>5. /\ highestDerived' = IF f.ctr > highestDerived
                           THEN f.ctr + RECV_LOOKAHEAD ELSE highestDerived
      /\ chain' = highestDerived' + 1
      /\ keys' = [c \in lowestCounter .. highestDerived' |-> c]
  <2> DEFINE upTo == IF f.ctr > highestDerived
                     THEN f.ctr + RECV_LOOKAHEAD ELSE highestDerived
  <2>1. upTo \in Int /\ (upTo > highestDerived <=> f.ctr > highestDerived)
    BY <1>4
  <2>2. lowestCounter <= highestDerived + 1
    BY <1>4 DEF CacheInv
  <2>3. Fill(keys, upTo)
    BY <1>1
  <2> HIDE DEF upTo
  <2>4. /\ highestDerived' = IF upTo > highestDerived THEN upTo ELSE highestDerived
        /\ chain' = highestDerived' + 1
        /\ keys' = [c \in lowestCounter .. highestDerived' |-> c]
    BY <1>4, <2>1, <2>2, <2>3, FillExtends DEF CacheInv
  <2>5. QED
    BY <2>1, <2>4 DEF upTo
<1>6. highestDerived' \in Nat /\ highestDerived' >= highestDerived
      /\ f.ctr <= highestDerived' /\ keys'[f.ctr] = f.ctr
  BY <1>1, <1>4, <1>5 DEF HasKey
<1>7. CacheInv'
  BY <1>2, <1>4, <1>5, <1>6 DEF CacheInv
<1>8. TypeOK'
  <2>1. call' \in [Call -> [pc : {"idle", "aead"}, ctr : Counter,
                            key : Nat \cup {NoKey}, rawKey : Nat]]
    BY <1>1, <1>3, <1>4, <1>6 DEF TypeOK
  <2>2. keys' \in [DOMAIN keys' -> Nat] /\ DOMAIN keys' \subseteq Nat
    BY <1>4, <1>5, <1>6
  <2>3. chain' \in Nat
    BY <1>5, <1>6
  <2>4. QED
    BY <1>2, <1>6, <2>1, <2>2, <2>3 DEF TypeOK, sendVars
<1>9. CallInv'
  <2>1. SUFFICES ASSUME NEW j \in Call, call'[j].pc = "aead"
        PROVE /\ call'[j].rawKey = call'[j].ctr
              /\ call'[j].ctr <= highestDerived'
              /\ \/ call'[j].key = NoKey
                 \/ call'[j].key = call'[j].ctr /\ call'[j].ctr < sendCounter'
    BY DEF CallInv
  <2>2. CASE j = k
    BY <1>1, <1>2, <1>3, <1>6, <2>2 DEF TypeOK, sendVars
  <2>3. CASE j # k
    <3>1. call'[j] = call[j] /\ call[j].ctr \in Nat
      BY <1>1, <2>3 DEF TypeOK, Counter
    <3>2. QED
      BY <1>2, <1>4, <1>6, <2>1, <3>1 DEF CallInv, sendVars
  <2>4. QED
    BY <2>2, <2>3
<1>10. SendInv' /\ DeliveredInv' /\ WindowExact'
  BY <1>2 DEF SendInv, DeliveredInv, WindowExact, sendVars
<1>11. QED
  BY <1>7, <1>8, <1>9, <1>10

LEMMA DoneInv == \A k \in Call : IInv /\ DecryptDone(k) => IInv'
<1> SUFFICES ASSUME NEW k \in Call, IInv, DecryptDone(k) PROVE IInv'
  OBVIOUS
<1> DEFINE c == call[k].ctr
<1> USE DEF IInv
<1>1. /\ highest' = CommittedHighest(c)
      /\ bitmap' = CommittedBitmap(c)
      /\ PruneOlderThan(c)
      /\ delivered' = [delivered EXCEPT ![c] = @ + 1]
      /\ call' = [call EXCEPT ![k] = Idle]
      /\ UNCHANGED sendVars
  BY DEF DecryptDone
<1>2. c \in Counter /\ c <= highestDerived /\ c < sendCounter
  BY DEF DecryptDone, CallInv, TypeOK, NoKey
<1>3. c \in Nat /\ highest \in Int /\ highest >= -1 /\ sendCounter \in Nat
      /\ delivered \in [Counter -> Nat] /\ RECV_WINDOW_SIZE \in Nat \ {0}
  BY <1>2, RatchetAssumption DEF TypeOK, Counter
<1> HIDE DEF c
<1>4. CacheInv' /\ highestDerived <= highestDerived' /\ highestDerived' \in Nat
  BY <1>1, <1>2, PruneMovesWindow
<1>5. WindowExact'
  BY <1>1, <1>2, CommitKeepsExact
<1>6. TypeOK'
  <2>1. highest' \in Counter \cup {-1} /\ highest' \in Int
    BY <1>1, <1>2, <1>3 DEF CommittedHighest, TypeOK
  <2>2. bitmap' \subseteq Nat
    BY <1>1, <1>3 DEF CommittedBitmap, TypeOK
  <2>3. lowestCounter' \in Nat
    <3>1. lowestCounter' = IF highest' < RECV_WINDOW_SIZE
                           THEN 0 ELSE highest' - RECV_WINDOW_SIZE + 1
      BY <1>4 DEF CacheInv
    <3>2. \A h \in Int, w \in Nat : (IF h < w THEN 0 ELSE h - w + 1) \in Nat
      OBVIOUS
    <3>3. QED
      BY <1>3, <2>1, <3>1, <3>2
  <2>4. keys' \in [DOMAIN keys' -> Nat] /\ DOMAIN keys' \subseteq Nat
    BY <1>4, <2>3 DEF CacheInv
  <2>5. chain' = highestDerived' + 1 /\ chainAtLowest' = lowestCounter'
    BY <1>4 DEF CacheInv
  <2>9. chain' \in Nat /\ chainAtLowest' \in Nat
    <3>1. \A n \in Nat : n + 1 \in Nat
      OBVIOUS
    <3>2. QED
      BY <1>4, <2>3, <2>5, <3>1
  <2>6. call' \in [Call -> [pc : {"idle", "aead"}, ctr : Counter,
                            key : Nat \cup {NoKey}, rawKey : Nat]]
    <3>1. 0 \in Counter
      BY RatchetAssumption DEF Counter
    <3>2. QED
      BY <1>1, <3>1 DEF TypeOK, Idle
  <2>7. delivered' \in [Counter -> Nat]
    BY <1>1, <1>2, <1>3
  <2>8. QED
    BY <1>1, <1>4, <2>1, <2>2, <2>3, <2>4, <2>6, <2>7, <2>9 DEF TypeOK, sendVars
<1>7. CallInv'
  <2>1. SUFFICES ASSUME NEW j \in Call, call'[j].pc = "aead"
        PROVE /\ call'[j].rawKey = call'[j].ctr
              /\ call'[j].ctr <= highestDerived'
              /\ \/ call'[j].key = NoKey
                 \/ call'[j].key = call'[j].ctr /\ call'[j].ctr < sendCounter'
    BY DEF CallInv
  <2>2. call'[j] = call[j] /\ call[j].ctr \in Nat /\ highestDerived \in Nat
    BY <1>1, <2>1 DEF TypeOK, Idle, Counter
  <2>3. QED
    BY <1>1, <1>4, <2>1, <2>2 DEF CallInv, sendVars
<1>8. DeliveredInv'
  <2>1. highest' < sendCounter' /\ highest <= highest' /\ c <= highest' /\ highest' \in Int
    BY <1>1, <1>2, <1>3 DEF CommittedHighest, DeliveredInv, sendVars
  <2>2. \A d \in Counter : delivered'[d] > 0 => d = c \/ delivered[d] > 0
    BY <1>1, <1>3
  <2>3. Counter \subseteq Nat
    BY RatchetAssumption DEF Counter
  <2>4. QED
    BY <1>1, <1>2, <1>3, <2>1, <2>2, <2>3 DEF DeliveredInv, sendVars
<1>9. SendInv'
  BY <1>1 DEF SendInv, sendVars
<1>10. QED
  BY <1>4, <1>5, <1>6, <1>7, <1>8, <1>9

LEMMA FailedInv == \A k \in Call : IInv /\ DecryptFailed(k) => IInv'
<1> SUFFICES ASSUME NEW k \in Call, IInv, DecryptFailed(k) PROVE IInv'
  OBVIOUS
<1> USE DEF IInv
<1>1. /\ call' = [call EXCEPT ![k] = Idle]
      /\ UNCHANGED <<sendVars, highest, bitmap, cacheVars, delivered>>
  BY DEF DecryptFailed
<1>2. 0 \in Counter
  BY RatchetAssumption DEF Counter
<1>3. TypeOK'
  BY <1>1, <1>2 DEF TypeOK, Idle, sendVars, cacheVars
<1>4. CallInv'
  BY <1>1 DEF CallInv, TypeOK, Idle, sendVars, cacheVars
<1>5. SendInv' /\ CacheInv' /\ DeliveredInv' /\ WindowExact'
  BY <1>1 DEF SendInv, CacheInv, DeliveredInv, WindowExact, sendVars, cacheVars
<1>6. QED
  BY <1>3, <1>4, <1>5

LEMMA NextInv == IInv /\ [Next]_vars => IInv'
<1> SUFFICES ASSUME IInv, [Next]_vars PROVE IInv'
  OBVIOUS
<1>1. CASE Encrypt
  BY <1>1, EncryptInv
<1>2. ASSUME NEW k \in Call, DecryptStart(k) PROVE IInv'
  BY <1>2, StartInv
<1>3. ASSUME NEW k \in Call, DecryptDone(k) PROVE IInv'
  BY <1>3, DoneInv
<1>4. ASSUME NEW k \in Call, DecryptFailed(k) PROVE IInv'
  BY <1>4, FailedInv
<1>5. CASE UNCHANGED vars
  BY <1>5 DEF vars, sendVars, cacheVars, IInv, TypeOK, SendInv, CacheInv, CallInv,
              DeliveredInv, WindowExact
<1>6. QED
  BY <1>1, <1>2, <1>3, <1>4, <1>5 DEF Next

-----------------------------------------------------------------------------
\* IInv is an invariant of the ratchet.
THEOREM Invariance == Spec => []IInv
<1>1. QED
  BY InitInv, NextInv, PTL DEF Spec

\* The ratchet's state keeps its types.
THEOREM TypeCorrect == Spec => []TypeOK
<1>1. IInv => TypeOK
  BY DEF IInv
<1>2. QED
  BY <1>1, Invariance, PTL

\* The replay window is exact: inside it, a bit is set for precisely the
\* counters that were delivered.
THEOREM WindowIsExact == Spec => []WindowExact
<1>1. IInv => WindowExact
  BY DEF IInv
<1>2. QED
  BY <1>1, Invariance, PTL

LEMMA ReplayRefused == IInv => NoLateReplay
<1> SUFFICES ASSUME IInv, NEW c \in Counter, delivered[c] > 0, CanAccept(c)
             PROVE  FALSE
  BY DEF NoLateReplay
<1>1. c \in Int /\ highest \in Int /\ c <= highest /\ RECV_WINDOW_SIZE \in Nat
  BY RatchetAssumption DEF IInv, DeliveredInv, TypeOK, Counter
<1>2. highest - RECV_WINDOW_SIZE < c /\ highest - c \notin bitmap
  BY <1>1 DEF CanAccept
<1>3. QED
  BY <1>1, <1>2 DEF IInv, WindowExact

\* No decrypt that starts after a counter was delivered accepts it again.
THEOREM NoReplay == Spec => []NoLateReplay
<1>1. QED
  BY ReplayRefused, Invariance, PTL

\* Both ends derive the same key for every counter the cache holds.
THEOREM KeysAgree == Spec => []KeysMatchSender
<1>1. IInv => KeysMatchSender
  BY DEF IInv, CacheInv, SendInv, KeysMatchSender
<1>2. QED
  BY <1>1, Invariance, PTL

\* Every counter of the window, and RECV_LOOKAHEAD beyond it, has a key.
THEOREM WindowCovered == Spec => []WindowHasKeys
<1>1. IInv => WindowHasKeys
  BY RatchetAssumption DEF IInv, TypeOK, Counter, CacheInv, WindowHasKeys
<1>2. QED
  BY <1>1, Invariance, PTL

\* Nothing in the cache reaches a counter that left the window.
THEOREM ForwardSecret == Spec => []ForwardSecrecy
<1>1. IInv => ForwardSecrecy
  <2> SUFFICES ASSUME IInv PROVE ForwardSecrecy
    OBVIOUS
  <2>1. highest \in Int /\ RECV_WINDOW_SIZE \in Nat \ {0} /\ highestDerived \in Nat
    BY RatchetAssumption DEF IInv, TypeOK, Counter
  <2>2. lowestCounter \in Nat /\ lowestCounter > highest - RECV_WINDOW_SIZE
    BY <2>1 DEF IInv, TypeOK, CacheInv
  <2>3. chainAtLowest = lowestCounter
        /\ \A c \in DOMAIN keys : keys[c] \in Int /\ keys[c] >= lowestCounter
    <3>1. chainAtLowest = lowestCounter /\ keys = [c \in lowestCounter .. highestDerived |-> c]
      BY DEF IInv, CacheInv
    <3>2. QED
      BY <2>1, <2>2, <3>1
  <2>4. QED
    BY <2>1, <2>2, <2>3 DEF ForwardSecrecy
<1>2. QED
  BY <1>1, Invariance, PTL

\* Frames the peer never encrypted neither move the window nor mark a counter.
THEOREM SpoofHarmless == Spec => []SpoofCannotAdvance
<1>1. IInv => SpoofCannotAdvance
  BY DEF IInv, DeliveredInv, SpoofCannotAdvance
<1>2. QED
  BY <1>1, Invariance, PTL

\* A burst of fewer than 3 * RECV_LOOKAHEAD lost frames leaves every acceptable
\* counter within that distance a key.
THEOREM ShortGapSurvived == Spec => []SurvivesShortGap
<1>1. IInv => SurvivesShortGap
  BY RatchetAssumption
     DEF IInv, TypeOK, Counter, CacheInv, SurvivesShortGap, CanAccept, HasKey, WithinReach
<1>2. QED
  BY <1>1, Invariance, PTL

-----------------------------------------------------------------------------
(* Refinement of GuardedDelivery.                                          *)

\* The mapping, named as the abstract variables are.
Pending(k) == IF call[k].pc = "aead" /\ call[k].key = call[k].rawKey
              THEN call[k].ctr ELSE -1

LEMMA StepRefines == IInv /\ [Next]_vars => [Promise!Next]_Promise!vars
<1> SUFFICES ASSUME IInv, [Next]_vars
             PROVE  [Promise!Next]_Promise!vars
  OBVIOUS
<1>1. ASSUME Encrypt PROVE Promise!Next
  <2>1. sendCounter \in Counter /\ sendCounter \in Nat
    BY <1>1, RatchetAssumption DEF Encrypt, IInv, TypeOK, Counter
  <2>2. sendCounter \notin {f.ctr : f \in wire}
    BY <2>1 DEF IInv, SendInv, TypeOK, Frame, Counter
  <2>3. {f.ctr : f \in wire'} = {f.ctr : f \in wire} \cup {sendCounter}
    <3> DEFINE new == [ctr |-> sendCounter, key |-> sendChain]
    <3>1. wire' = wire \cup {new} /\ new.ctr = sendCounter
      BY <1>1 DEF Encrypt
    <3> HIDE DEF new
    <3>2. \A x : x \in {f.ctr : f \in wire'} <=> x \in {f.ctr : f \in wire} \/ x = new.ctr
      BY <3>1
    <3>3. QED
      BY <3>1, <3>2
  <2>4. UNCHANGED <<call, delivered>>
    BY <1>1 DEF Encrypt
  <2>6. PICK s \in Counter : s = sendCounter
    BY <2>1
  <2>7. Promise!Send(s)
    BY <2>2, <2>3, <2>4, <2>6 DEF Promise!Send
  <2>8. s \in Promise!Counter
    BY <2>6 DEF Promise!Counter, Counter
  <2>9. QED
    BY <2>7, <2>8 DEF Promise!Next
<1>2. ASSUME NEW k \in Call, DecryptStart(k) PROVE [Promise!Next]_Promise!vars
  <2>1. PICK f \in Received :
          /\ CanAccept(f.ctr)
          /\ call' = [call EXCEPT ![k] = [pc |-> "aead", ctr |-> f.ctr, key |-> f.key,
                                          rawKey |-> keys'[f.ctr]]]
    BY <1>2 DEF DecryptStart
  <2>2. UNCHANGED <<wire, delivered>> /\ call[k].pc = "idle"
    BY <1>2 DEF DecryptStart, sendVars
  <2>3. IInv'
    BY <1>2, StartInv
  <2>4. call'[k] = [pc |-> "aead", ctr |-> f.ctr, key |-> f.key, rawKey |-> keys'[f.ctr]]
    BY <2>1 DEF IInv, TypeOK
  <2>5. \A j \in Call : j # k => call'[j] = call[j]
    BY <2>1 DEF IInv, TypeOK
  <2>6. f.ctr \in Counter
    BY DEF Received, IInv, TypeOK, Frame
  <2>7. CASE f.key = keys'[f.ctr]
    <3>1. f \in wire
      <4>1. keys'[f.ctr] # NoKey
        BY <2>3, <2>4, <2>6, RatchetAssumption DEF IInv, CallInv, NoKey, Counter
      <4>2. QED
        BY <2>7, <4>1 DEF Received
    <3>2. delivered[f.ctr] = 0
      BY <2>1, <2>6, ReplayRefused DEF NoLateReplay, IInv, TypeOK
    <3>3. [j \in Call |-> Pending(j)]' = [[j \in Call |-> Pending(j)] EXCEPT ![k] = f.ctr]
      <4>1. Pending(k)' = f.ctr
        BY <2>4, <2>7 DEF Pending
      <4>2. \A j \in Call : j # k => Pending(j)' = Pending(j)
        BY <2>5 DEF Pending
      <4>3. QED
        BY <4>1, <4>2
    <3>4. Pending(k) = -1
      BY <2>2 DEF Pending
    <3>5. Promise!Accept(k, f.ctr)
      BY <2>2, <3>1, <3>2, <3>3, <3>4 DEF Promise!Accept, Pending
    <3>6. QED
      BY <2>6, <3>5 DEF Promise!Next, Promise!Counter, Counter
  <2>8. CASE f.key # keys'[f.ctr]
    <3>1. [j \in Call |-> Pending(j)]' = [j \in Call |-> Pending(j)]
      BY <2>2, <2>4, <2>5, <2>8 DEF Pending
    <3>2. QED
      BY <2>2, <3>1 DEF Promise!vars, Pending
  <2>9. QED
    BY <2>7, <2>8
<1>3. ASSUME NEW k \in Call, DecryptDone(k) PROVE Promise!Next
  <2>1. UNCHANGED wire /\ Pending(k) = call[k].ctr
        /\ delivered' = [delivered EXCEPT ![call[k].ctr] = @ + 1]
        /\ call' = [call EXCEPT ![k] = Idle]
    BY <1>3 DEF DecryptDone, Pending, sendVars
  <2>2. call[k].ctr \in Counter
    BY DEF IInv, TypeOK
  <2>3. [j \in Call |-> Pending(j)]' = [[j \in Call |-> Pending(j)] EXCEPT ![k] = -1]
    BY <2>1 DEF Pending, IInv, TypeOK, Idle
  <2>4. Promise!Return(k)
    BY <2>1, <2>2, <2>3 DEF Promise!Return, Promise!Counter, Counter, Pending
  <2>5. QED
    BY <2>4 DEF Promise!Next
<1>4. ASSUME NEW k \in Call, DecryptFailed(k) PROVE UNCHANGED Promise!vars
  <2>1. UNCHANGED <<wire, delivered>> /\ Pending(k) = -1
        /\ call' = [call EXCEPT ![k] = Idle]
    BY <1>4 DEF DecryptFailed, Pending, sendVars
  <2>2. [j \in Call |-> Pending(j)]' = [j \in Call |-> Pending(j)]
    BY <2>1 DEF Pending, IInv, TypeOK, Idle
  <2>3. QED
    BY <2>1, <2>2 DEF Promise!vars, Pending
<1>5. CASE UNCHANGED vars
  BY <1>5 DEF vars, sendVars, Promise!vars
<1>6. QED
  BY <1>1, <1>2, <1>3, <1>4, <1>5 DEF Next

LEMMA InitRefines == Init => Promise!Init
<1>1. QED
  BY DEF Init, Idle, Promise!Init, Promise!Counter, Counter

\* Every behaviour of the ratchet is one of GuardedDelivery: only frames the
\* peer sent are returned, and only by a call that found them undelivered.
THEOREM Refinement == Spec => ImplementsPromise
<1>1. QED
  BY InitRefines, StepRefines, Invariance, PTL DEF Spec, ImplementsPromise, Promise!Spec

-----------------------------------------------------------------------------
(* With decrypts awaited one after another the promise is exactly once.    *)

OneCall == \A j, k \in Call : j = k

SerialInv ==
    /\ DeliveredOnce
    /\ \A k \in Call : Pending(k) \in Counter => delivered[Pending(k)] = 0

LEMMA SerialStep == OneCall /\ IInv /\ SerialInv /\ [Next]_vars => SerialInv'
<1> SUFFICES ASSUME OneCall, IInv, SerialInv, [Next]_vars PROVE SerialInv'
  OBVIOUS
<1>1. CASE Encrypt
  BY <1>1 DEF Encrypt, SerialInv, DeliveredOnce, Pending
<1>2. ASSUME NEW k \in Call, DecryptStart(k) PROVE SerialInv'
  <2>1. PICK f \in Received :
          /\ CanAccept(f.ctr)
          /\ call' = [call EXCEPT ![k] = [pc |-> "aead", ctr |-> f.ctr, key |-> f.key,
                                          rawKey |-> keys'[f.ctr]]]
    BY <1>2 DEF DecryptStart
  <2>2. UNCHANGED delivered
    BY <1>2 DEF DecryptStart
  <2>3. call'[k].ctr = f.ctr /\ f.ctr \in Counter
    BY <2>1 DEF Received, IInv, TypeOK, Frame
  <2>4. delivered[f.ctr] = 0
    BY <2>1, <2>3, ReplayRefused DEF NoLateReplay, IInv, TypeOK
  <2>5. -1 \notin Counter
    BY RatchetAssumption DEF Counter
  <2>6. Pending(k)' \in Counter => Pending(k)' = f.ctr
    BY <2>3, <2>5 DEF Pending
  <2>7. \A j \in Call : j = k
    BY DEF OneCall
  <2>8. DeliveredOnce'
    BY <2>2 DEF SerialInv, DeliveredOnce
  <2>9. QED
    BY <2>2, <2>4, <2>6, <2>7, <2>8 DEF SerialInv
<1>3. ASSUME NEW k \in Call, DecryptDone(k) PROVE SerialInv'
  <2>1. /\ Pending(k) = call[k].ctr
        /\ delivered' = [delivered EXCEPT ![call[k].ctr] = @ + 1]
        /\ call' = [call EXCEPT ![k] = Idle]
    BY <1>3 DEF DecryptDone, Pending
  <2>2. call[k].ctr \in Counter /\ delivered \in [Counter -> Nat]
    BY DEF IInv, TypeOK
  <2>3. delivered[call[k].ctr] = 0
    BY <2>1, <2>2 DEF SerialInv
  <2>4. DeliveredOnce'
    <3>1. \A c \in Counter : delivered'[c] <= 1
      BY <2>1, <2>2, <2>3 DEF SerialInv, DeliveredOnce
    <3>2. QED
      BY <3>1 DEF DeliveredOnce, Counter
  <2>5. -1 \notin Counter
    BY RatchetAssumption DEF Counter
  <2>6. \A j \in Call : Pending(j)' = -1
    BY <2>1 DEF Pending, OneCall, IInv, TypeOK, Idle
  <2>7. QED
    BY <2>4, <2>5, <2>6 DEF SerialInv, Counter
<1>4. ASSUME NEW k \in Call, DecryptFailed(k) PROVE SerialInv'
  <2>1. call' = [call EXCEPT ![k] = Idle] /\ UNCHANGED delivered
    BY <1>4 DEF DecryptFailed
  <2>2. -1 \notin Counter
    BY RatchetAssumption DEF Counter
  <2>3. \A j \in Call : Pending(j)' = -1
    BY <2>1 DEF Pending, OneCall, IInv, TypeOK, Idle
  <2>4. QED
    BY <2>1, <2>2, <2>3 DEF SerialInv, DeliveredOnce, Counter
<1>5. CASE UNCHANGED vars
  BY <1>5 DEF vars, SerialInv, DeliveredOnce, Pending
<1>6. QED
  BY <1>1, <1>2, <1>3, <1>4, <1>5 DEF Next

\* A receiver that never has two decrypts suspended at once returns every
\* frame at most once, whatever the link repeats.
THEOREM DeliveredOnceIfSerial == OneCall /\ Spec => []DeliveredOnce
<1>1. Init => SerialInv
  <2>1. -1 \notin Counter
    BY RatchetAssumption DEF Counter
  <2>2. QED
    BY <2>1 DEF Init, SerialInv, DeliveredOnce, Pending, Idle
<1>2. SerialInv => DeliveredOnce
  BY DEF SerialInv
<1>3. OneCall => []OneCall
  <2>1. OneCall /\ [Next]_vars => OneCall'
    BY DEF OneCall
  <2>2. QED
    BY DEF OneCall, PTL
<1>4. QED
  BY <1>1, <1>2, <1>3, SerialStep, Invariance, PTL DEF Spec
=============================================================================
