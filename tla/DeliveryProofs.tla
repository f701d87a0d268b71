--------------------------- MODULE DeliveryProofs ---------------------------
(***************************************************************************)
(* Safety of the delivery path for any peers, messages, chunk counts and   *)
(* hash functions, any capacities, and any number of sends and reloads.    *)
(***************************************************************************)
EXTENDS Delivery, FiniteSetTheorems, SequenceTheorems, WellFoundedInduction, TLAPS

\* What a link has in progress, and what the page and the stores hold.
LinkOK ==
    /\ sent \in [Peer -> Seq(Msg)]
    /\ out \in [Peer -> SUBSET [n : Frame, seq : Nat]]
    /\ \A p \in Peer : \A o \in out[p] : o.n \in DOMAIN sent[p] /\ o.seq < Total(p, o.n)
    /\ DOMAIN asm = Peer
    /\ \A p \in Peer : asm[p] = Empty \/ Partial(p, asm[p])
    /\ lossy \in [Peer -> BOOLEAN] /\ broken \in [Peer -> BOOLEAN]
    /\ \A f \in opening : f[1] \in Peer /\ f[2] \in DOMAIN sent[f[1]]

PageOK ==
    /\ up \in BOOLEAN
    /\ params \in DOMAIN Hash /\ disk.params \in DOMAIN Hash
    /\ lru \in Seq(Msg) /\ Len(lru) <= LruCap
    /\ txq \in Seq(Job)
    /\ inbox \in [Msg -> [at : Nat, consumed : BOOLEAN]]
    /\ count \in [Msg -> Nat] /\ now \in [Msg -> Nat]
    /\ clock \in Nat /\ lives \in Nat /\ quota \in Nat

\* A page hands a message on once, and then its bits are set.
OnceInv ==
    \A m \in Msg : \/ now[m] = 0
                   \/ now[m] = 1 /\ up /\ Probes(m) \subseteq bits

\* The filter in memory has all that was stored under its m and k.
LoadedInv == up /\ disk.params = params => disk.bits \subseteq bits

-----------------------------------------------------------------------------
(* Steps *)

\* The five ways in which a step touches the filters and the count.
Handed(f) ==
    /\ f \in opening
    /\ f[1] \in Peer /\ f[2] \in DOMAIN sent[f[1]]
    /\ up
    /\ Accept(sent[f[1]][f[2]])
    /\ UNCHANGED <<sent, up, params, disk, inbox, lives, quota>>

\* What the rest leaves as it is.
Filters == <<bits, up, params, count, now, disk>>

LEMMA Steps ==
    ASSUME [Next]_vars
    PROVE  \/ \E f \in opening : Handed(f)
           \/ Boot \/ Reload \/ Flush
           \/ UNCHANGED Filters
<1>1. ASSUME NEW p \in Peer, Link(p)
      PROVE  (\E f \in opening : Handed(f)) \/ UNCHANGED Filters
  <2>1. ASSUME NEW n \in DOMAIN sent[p], Opened(p, n)
        PROVE  (\E f \in opening : Handed(f)) \/ UNCHANGED Filters
    <3>1. <<p, n>> \in opening /\ UNCHANGED <<sent, up, params, disk, lives, inbox, quota>>
      BY <2>1 DEF Opened, links
    <3>2. CASE up /\ Accept(sent[p][n])
      <4>1. Handed(<<p, n>>)
        BY <3>1, <3>2 DEF Handed
      <4> QED
        BY <3>1, <4>1
    <3>3. CASE UNCHANGED <<bits, count, now>>
      BY <3>1, <3>3 DEF Filters
    <3> QED
      BY <2>1, <3>2, <3>3 DEF Opened
  <2>2. CASE \E m \in Msg : Send(p, m)
    BY <2>2 DEF Send, page, Filters
  <2>3. CASE \E o \in out[p] : Chunk(p, o) \/ ChunkLost(p, o)
    BY <2>3 DEF Chunk, ChunkLost, page, Filters
  <2> QED
    BY <1>1, <2>1, <2>2, <2>3 DEF Link
<1>2. CASE \/ \E m \in Msg : Consume(m)
           \/ Transaction \/ QuotaExceeded
           \/ \E k \in 0 .. InboxCap : EvictExcess(k)
           \/ \E at \in 1 .. clock : EvictOlderThan(at)
           \/ UNCHANGED vars
  BY <1>2 DEF Consume, Transaction, QuotaExceeded, EvictExcess, EvictOlderThan, page, vars, Filters
<1> QED
  BY <1>1, <1>2 DEF Next

-----------------------------------------------------------------------------
(* The filters *)

LEMMA InitFilters == Init => OnceInv /\ LoadedInv /\ MarkedWasHanded
  BY DEF Init, OnceInv, LoadedInv, MarkedWasHanded

LEMMA LoadedStep ==
    ASSUME LoadedInv, [Next]_vars
    PROVE  LoadedInv'
<1>1. CASE UNCHANGED Filters
  BY <1>1 DEF LoadedInv, Filters
<1>2. CASE Boot \/ Reload
  BY <1>2 DEF LoadedInv, Boot, Reload
<1>3. CASE Flush
  <2>1. disk'.bits = bits /\ bits' = bits
    BY <1>3 DEF Flush, page
  <2> QED
    BY <2>1 DEF LoadedInv
<1>4. ASSUME NEW f \in opening, Handed(f)
      PROVE  LoadedInv'
  BY <1>4 DEF LoadedInv, Handed, Accept, MarkSeen
<1> QED
  BY <1>1, <1>2, <1>3, <1>4, Steps

LEMMA OnceStep ==
    ASSUME PageOK, OnceInv, [Next]_vars
    PROVE  OnceInv'
<1>1. CASE UNCHANGED Filters
  BY <1>1 DEF OnceInv, Probes, Filters
<1>2. CASE Boot
  BY <1>2 DEF OnceInv, Boot, Probes
<1>3. CASE Flush
  BY <1>3 DEF OnceInv, Flush, page, Probes
<1>4. CASE Reload
  BY <1>4 DEF OnceInv, Reload
<1>5. ASSUME NEW f \in opening, Handed(f)
      PROVE  OnceInv'
  <2> DEFINE x == sent[f[1]][f[2]]
  <2>1. /\ bits' = bits \cup Probes(x) /\ ~(Probes(x) \subseteq bits)
        /\ now' = [now EXCEPT ![x] = @ + 1]
        /\ up /\ UNCHANGED <<up, params>>
    BY <1>5 DEF Handed, Accept, MarkSeen, Dropped, HasSeen
  <2>2. now \in [Msg -> Nat]
    BY DEF PageOK
  <2> HIDE DEF x
  <2>3. ASSUME NEW m \in Msg
        PROVE  \/ now'[m] = 0
               \/ now'[m] = 1 /\ up' /\ Probes(m) \subseteq bits'
    <3>1. CASE m = x
      <4>1. now[m] = 0
        BY <2>1, <3>1 DEF OnceInv
      <4>2. now'[m] = now[m] + 1 /\ Probes(m) \subseteq bits'
        BY <2>1, <2>2, <3>1
      <4> QED
        BY <2>1, <4>1, <4>2
    <3>2. CASE m # x
      <4>1. now'[m] = now[m] /\ bits \subseteq bits'
        BY <2>1, <2>2, <3>2
      <4> QED
        BY <2>1, <4>1 DEF OnceInv
    <3> QED
      BY <3>1, <3>2
  <2> QED
    BY <2>1, <2>3 DEF OnceInv, Probes
<1> QED
  BY <1>1, <1>2, <1>3, <1>4, <1>5, Steps

\* Each bit that is set is one of a message that was handed on.
LEMMA MarkedStep ==
    ASSUME PageOK, LinkOK, MarkedWasHanded, [Next]_vars
    PROVE  MarkedWasHanded'
<1>1. CASE UNCHANGED Filters
  BY <1>1 DEF MarkedWasHanded, BitsHanded, Filters
<1>2. CASE Boot \/ Reload \/ Flush
  <2>1. CASE Boot
    BY <2>1 DEF MarkedWasHanded, BitsHanded, Boot
  <2>2. CASE Reload
    BY <2>2 DEF MarkedWasHanded, BitsHanded, Reload
  <2>3. CASE Flush
    <3>1. /\ disk'.params = params /\ disk'.bits = bits
          /\ UNCHANGED <<params, bits, count>>
      BY <2>3 DEF Flush, page
    <3> QED
      BY <3>1 DEF MarkedWasHanded, BitsHanded
  <2> QED
    BY <1>2, <2>1, <2>2, <2>3
<1>3. ASSUME NEW f \in opening, Handed(f)
      PROVE  MarkedWasHanded'
  <2> DEFINE y == sent[f[1]][f[2]]
  <2>1. y \in Msg
    BY <1>3 DEF LinkOK, Handed
  <2>2. /\ bits' = bits \cup Hash[params][y] /\ UNCHANGED <<disk, params>>
        /\ count' = [count EXCEPT ![y] = @ + 1]
    BY <1>3 DEF Handed, Accept, MarkSeen, Probes
  <2>3. count \in [Msg -> Nat]
    BY DEF PageOK
  <2> HIDE DEF y
  <2>4. count'[y] > 0 /\ \A m \in Msg : count[m] > 0 => count'[m] > 0
    BY <2>1, <2>2, <2>3
  <2>5. \A c : BitsHanded(c) \subseteq BitsHanded(c)'
    BY <2>4 DEF BitsHanded
  <2>6. Hash[params][y] \subseteq BitsHanded(params)'
    BY <2>1, <2>2, <2>4 DEF BitsHanded
  <2>7. bits' \subseteq BitsHanded(params)'
    BY <2>2, <2>5, <2>6 DEF MarkedWasHanded
  <2>8. disk.bits \subseteq BitsHanded(disk.params)'
    BY <2>2, <2>5 DEF MarkedWasHanded
  <2> QED
    BY <2>2, <2>7, <2>8 DEF MarkedWasHanded, BitsHanded
<1> QED
  BY <1>1, <1>2, <1>3, Steps

-----------------------------------------------------------------------------
(* The inbox *)

BoxInv == IsFiniteSet(Stored(inbox)) /\ InboxBounded

Box == [Msg -> [at : Nat, consumed : BOOLEAN]]

\* A set of entries that is not empty has an oldest one.
LEMMA OldestExists ==
    ASSUME NEW box \in Box, NEW k \in Nat \ {0}, IsFiniteSet(Stored(box)), Stored(box) # {}
    PROVE  Oldest(box, k) # {}
<1> DEFINE T == {box[m].at : m \in Stored(box)}
<1>1. T \subseteq Nat /\ T # {}
  BY DEF Box, Stored
<1>2. PICK t \in T : \A u \in T : ~(<<u, t>> \in OpToRel(<, Nat))
  BY <1>1, WFMin, NatLessThanWellFounded
<1>3. \A u \in T : ~(u < t)
  BY <1>1, <1>2 DEF OpToRel
<1>4. PICK m \in Stored(box) : box[m].at = t
  OBVIOUS
<1>5. {x \in Stored(box) : box[x].at < box[m].at} = {}
  BY <1>3, <1>4
<1>6. Cardinality({x \in Stored(box) : box[x].at < box[m].at}) = 0
  BY <1>5, FS_EmptySet, Zenon
<1> QED
  BY <1>4, <1>6 DEF Oldest

\* Entries are taken out, and nothing else changes.
LEMMA WithoutStored ==
    ASSUME NEW box \in Box, NEW gone, IsFiniteSet(Stored(box))
    PROVE  /\ Without(box, gone) \in Box
           /\ Stored(Without(box, gone)) = Stored(box) \ gone
           /\ IsFiniteSet(Stored(Without(box, gone)))
           /\ Cardinality(Stored(Without(box, gone))) <= Cardinality(Stored(box))
<1>1. Without(box, gone) \in Box
  BY DEF Without, Box, Missing
<1>2. Stored(Without(box, gone)) = Stored(box) \ gone
  BY DEF Without, Box, Stored
<1> QED
  BY <1>1, <1>2, FS_Subset

\* After the room is made one more entry fits.
LEMMA RoomFits ==
    ASSUME NEW box \in Box, IsFiniteSet(Stored(box)), Cardinality(Stored(box)) <= InboxCap
    PROVE  /\ Room(box) \in Box
           /\ IsFiniteSet(Stored(Room(box)))
           /\ Cardinality(Stored(Room(box))) + 1 <= InboxCap
<1>1. Cardinality(Stored(box)) \in Nat /\ InboxCap \in Nat \ {0}
  BY FS_CardinalityType, DeliveryAssumption
<1>2. CASE Cardinality(Stored(box)) < InboxCap
  <2>1. Room(box) = box
    BY <1>1, <1>2 DEF Room
  <2> QED
    BY <1>1, <1>2, <2>1
<1>3. CASE Cardinality(Stored(box)) = InboxCap
  <2> DEFINE gone == Oldest(box, (Cardinality(Stored(box)) - InboxCap) + 1)
  <2>1. Room(box) = Without(box, gone)
    BY <1>1, <1>3 DEF Room
  <2>2. gone = Oldest(box, 1)
    BY <1>1, <1>3
  <2>3. Stored(box) # {}
    BY <1>1, <1>3, FS_EmptySet
  <2>4. gone # {}
    BY <2>2, <2>3, OldestExists
  <2>5. gone \subseteq Stored(box)
    BY DEF Oldest
  <2> HIDE DEF gone
  <2>6. PICK g \in Stored(box) : g \in gone
    BY <2>4, <2>5
  <2>7. Stored(box) \ gone \subseteq Stored(box) \ {g}
    BY <2>6
  <2>8. IsFiniteSet(Stored(box) \ {g}) /\ Cardinality(Stored(box) \ {g}) = InboxCap - 1
    BY <1>3, <2>6, FS_RemoveElement
  <2>9. IsFiniteSet(Stored(box) \ gone) /\ Cardinality(Stored(box) \ gone) <= InboxCap - 1
    BY <2>7, <2>8, FS_Subset
  <2>10. Cardinality(Stored(box) \ gone) \in Nat
    BY <2>9, FS_CardinalityType
  <2>11. Stored(Room(box)) = Stored(box) \ gone /\ Room(box) \in Box
    BY <2>1, WithoutStored
  <2> QED
    BY <1>1, <2>9, <2>10, <2>11
<1> QED
  BY <1>1, <1>2, <1>3

\* What a transaction leaves.
LEMMA CommitKeeps ==
    ASSUME inbox \in Box, BoxInv, NEW job \in Job
    PROVE  /\ Commit(job) \in Box
           /\ IsFiniteSet(Stored(Commit(job)))
           /\ Cardinality(Stored(Commit(job))) <= InboxCap
<1>1. Cardinality(Stored(inbox)) \in Nat /\ InboxCap \in Nat
  BY FS_CardinalityType, DeliveryAssumption DEF BoxInv
<1>2. CASE job.op = "put"
  <2> DEFINE new == [Room(inbox) EXCEPT ![job.msg] = [at |-> job.at, consumed |-> FALSE]]
  <2>1. Commit(job) = new
    BY <1>2 DEF Commit
  <2>2. /\ Room(inbox) \in Box /\ IsFiniteSet(Stored(Room(inbox)))
        /\ Cardinality(Stored(Room(inbox))) + 1 <= InboxCap
    BY RoomFits DEF BoxInv, InboxBounded
  <2>3. job.msg \in Msg /\ job.at \in Nat
    BY DEF Job
  <2>4. new \in Box
    BY <2>2, <2>3 DEF Box
  <2>5. Stored(new) \subseteq Stored(Room(inbox)) \cup {job.msg}
    BY <2>2, <2>3 DEF Box, Stored
  <2>6. /\ IsFiniteSet(Stored(Room(inbox)) \cup {job.msg})
        /\ Cardinality(Stored(Room(inbox)) \cup {job.msg}) <= InboxCap
    <3>1. Cardinality(Stored(Room(inbox))) \in Nat
      BY <2>2, FS_CardinalityType
    <3> DEFINE S == Stored(Room(inbox))
    <3>2. IsFiniteSet(S) /\ Cardinality(S) + 1 <= InboxCap /\ Cardinality(S) \in Nat
      BY <2>2, <3>1
    <3> HIDE DEF S
    <3>3. /\ IsFiniteSet(S \cup {job.msg})
          /\ Cardinality(S \cup {job.msg}) = IF job.msg \in S THEN Cardinality(S) ELSE Cardinality(S) + 1
      BY ONLY <3>2, FS_AddElement
    <3>4. Cardinality(S \cup {job.msg}) <= InboxCap
      BY ONLY <1>1, <3>2, <3>3
    <3> QED
      BY <3>3, <3>4 DEF S
  <2>7. /\ IsFiniteSet(Stored(new))
        /\ Cardinality(Stored(new)) <= Cardinality(Stored(Room(inbox)) \cup {job.msg})
    BY <2>5, <2>6, FS_Subset
  <2>8. Cardinality(Stored(new)) \in Nat /\ Cardinality(Stored(Room(inbox)) \cup {job.msg}) \in Nat
    BY <2>6, <2>7, FS_CardinalityType
  <2> HIDE DEF new
  <2> QED
    BY <1>1, <2>1, <2>4, <2>6, <2>7, <2>8
<1>3. CASE job.op = "evict"
  <2>1. Commit(job) = Without(inbox, Oldest(inbox, QuotaEvict))
    BY <1>3 DEF Commit
  <2>2. IsFiniteSet(Stored(Commit(job)))
    BY <2>1, WithoutStored DEF BoxInv
  <2>3. Cardinality(Stored(Commit(job))) \in Nat
    BY <2>2, FS_CardinalityType
  <2> QED
    BY <1>1, <2>1, <2>2, <2>3, WithoutStored DEF BoxInv, InboxBounded
<1>4. CASE job.op = "consume"
  <2>1. job.msg \in Msg
    BY DEF Job
  <2>2. Commit(job) \in Box /\ Stored(Commit(job)) \subseteq Stored(inbox)
    BY <1>4, <2>1 DEF Commit, Box, Stored, Missing
  <2>3. /\ IsFiniteSet(Stored(Commit(job)))
        /\ Cardinality(Stored(Commit(job))) <= Cardinality(Stored(inbox))
    BY <2>2, FS_Subset DEF BoxInv
  <2>4. Cardinality(Stored(Commit(job))) \in Nat
    BY <2>3, FS_CardinalityType
  <2> QED
    BY <1>1, <2>2, <2>3, <2>4 DEF BoxInv, InboxBounded
<1> QED
  BY <1>2, <1>3, <1>4 DEF Job

LEMMA InitBox == Init => BoxInv
<1> SUFFICES ASSUME Init PROVE BoxInv
  OBVIOUS
<1>1. Stored(inbox) = {}
  BY DEF Init, Stored
<1> QED
  BY <1>1, FS_EmptySet, DeliveryAssumption DEF BoxInv, InboxBounded

\* A step that takes entries away keeps the bound.
LEMMA TakenAway ==
    ASSUME PageOK, BoxInv, NEW gone, inbox' = Without(inbox, gone)
    PROVE  BoxInv' /\ inbox' \in Box
<1>1. inbox \in Box /\ IsFiniteSet(Stored(inbox))
  BY DEF PageOK, BoxInv, Box
<1>2. /\ inbox' \in Box
      /\ IsFiniteSet(Stored(inbox'))
      /\ Cardinality(Stored(inbox')) <= Cardinality(Stored(inbox))
  BY <1>1, WithoutStored
<1>3. Cardinality(Stored(inbox)) \in Nat /\ Cardinality(Stored(inbox')) \in Nat /\ InboxCap \in Nat
  BY <1>1, <1>2, FS_CardinalityType, DeliveryAssumption
<1>4. Cardinality(Stored(inbox')) <= InboxCap
  BY <1>2, <1>3 DEF BoxInv, InboxBounded
<1> QED
  BY <1>2, <1>4 DEF BoxInv, InboxBounded

LEMMA Committed ==
    ASSUME PageOK, BoxInv, Transaction
    PROVE  BoxInv' /\ inbox' \in Box
<1>1. inbox \in Box /\ Head(txq) \in Job /\ inbox' = Commit(Head(txq))
  BY DEF PageOK, Box, Transaction
<1>2. /\ inbox' \in Box
      /\ IsFiniteSet(Stored(inbox'))
      /\ Cardinality(Stored(inbox')) <= InboxCap
  BY <1>1, CommitKeeps
<1> QED
  BY <1>2 DEF BoxInv, InboxBounded

LEMMA BoxStep ==
    ASSUME PageOK, BoxInv, [Next]_vars
    PROVE  BoxInv' /\ inbox' \in Box
<1>1. CASE UNCHANGED inbox
  BY <1>1 DEF BoxInv, InboxBounded, Stored, PageOK, Box
<1>2. CASE Transaction
  BY <1>2, Committed
<1>3. ASSUME NEW gone, inbox' = Without(inbox, gone)
      PROVE  BoxInv' /\ inbox' \in Box
  BY <1>3, TakenAway
<1>4. CASE \E k \in 0 .. InboxCap : EvictExcess(k)
  BY <1>3, <1>4 DEF EvictExcess
<1>5. CASE \E at \in 1 .. clock : EvictOlderThan(at)
  BY <1>3, <1>5 DEF EvictOlderThan
<1>6. ASSUME NEW p \in Peer, Link(p)
      PROVE  UNCHANGED inbox
  BY <1>6 DEF Link, Send, Chunk, ChunkLost, Opened
<1>7. CASE \/ \E m \in Msg : Consume(m)
           \/ QuotaExceeded \/ Boot \/ Flush \/ Reload \/ UNCHANGED vars
  BY <1>1, <1>7 DEF Consume, QuotaExceeded, Boot, Flush, Reload, vars
<1> QED
  BY <1>1, <1>2, <1>4, <1>5, <1>6, <1>7 DEF Next

-----------------------------------------------------------------------------
(* Types *)

LEMMA EmptySequences ==
    <<>> \in Seq(Msg) /\ Len(<<>>) <= LruCap /\ <<>> \in Seq(Job)
  BY DeliveryAssumption

LEMMA InitTypes == Init => LinkOK /\ PageOK
<1> SUFFICES ASSUME Init PROVE LinkOK /\ PageOK
  OBVIOUS
<1>1. LinkOK
  BY EmptySequences DEF Init, LinkOK
<1>2. [at |-> 0, consumed |-> FALSE] \in [at : Nat, consumed : BOOLEAN]
  OBVIOUS
<1>3. /\ inbox \in [Msg -> [at : Nat, consumed : BOOLEAN]]
      /\ count \in [Msg -> Nat] /\ now \in [Msg -> Nat]
  BY <1>2 DEF Init, Missing
<1>4. PageOK
  BY <1>3, EmptySequences, DeliveryAssumption DEF Init, PageOK
<1> QED
  BY <1>1, <1>4

LEMMA TypesAreTypeOK == TypeOK <=> LinkOK /\ PageOK
  BY DEF TypeOK, LinkOK, PageOK

LEMMA LruStep ==
    ASSUME lru \in Seq(Msg), Len(lru) <= LruCap, NEW m \in Msg
    PROVE  LruMarked(m) \in Seq(Msg) /\ Len(LruMarked(m)) <= LruCap
<1>1. LruCap \in Nat \ {0} /\ Len(lru) \in Nat
  BY DeliveryAssumption
<1>2. CASE Len(lru) >= LruCap
  <2>1. lru # <<>> /\ Tail(lru) \in Seq(Msg) /\ Len(Tail(lru)) = Len(lru) - 1
    BY <1>1, <1>2
  <2>2. LruMarked(m) = Append(Tail(lru), m)
    BY <1>2 DEF LruMarked
  <2>3. LruMarked(m) \in Seq(Msg) /\ Len(LruMarked(m)) = Len(Tail(lru)) + 1
    BY <2>1, <2>2
  <2> QED
    BY <1>1, <2>1, <2>3
<1>3. CASE ~(Len(lru) >= LruCap)
  <2>1. LruMarked(m) = Append(lru, m)
    BY <1>3 DEF LruMarked
  <2> QED
    BY <1>1, <1>3, <2>1
<1> QED
  BY <1>2, <1>3

LEMMA PageStep ==
    ASSUME LinkOK, PageOK, BoxInv, [Next]_vars
    PROVE  PageOK'
<1>0. inbox' \in [Msg -> [at : Nat, consumed : BOOLEAN]]
  BY BoxStep DEF Box
<1>1. ASSUME NEW p \in Peer, Link(p)
      PROVE  PageOK'
  <2>1. ASSUME NEW n \in DOMAIN sent[p], Opened(p, n)
        PROVE  PageOK'
    <3> DEFINE m == sent[p][n]
    <3>1. m \in Msg
      BY DEF LinkOK
    <3>2. UNCHANGED <<up, params, disk, inbox, lives, quota>>
      BY <2>1 DEF Opened
    <3> HIDE DEF m
    <3>3. CASE up /\ Accept(m)
      <4>1. lru' \in Seq(Msg) /\ Len(lru') <= LruCap
        BY <3>1, <3>3, LruStep DEF Accept, PageOK
      <4>2. clock' \in Nat /\ count' \in [Msg -> Nat] /\ now' \in [Msg -> Nat]
        BY <3>1, <3>3 DEF Accept, PageOK
      <4>3. Put(m, clock') \in Job
        BY <3>1, <4>2 DEF Put, Job
      <4>4. txq' \in Seq(Job)
        BY <3>3, <4>3 DEF Accept, PageOK
      <4> QED
        BY <3>2, <4>1, <4>2, <4>4 DEF PageOK
    <3>4. CASE UNCHANGED <<bits, lru, txq, clock, count, now>>
      BY <3>2, <3>4 DEF PageOK
    <3> QED
      BY <2>1, <3>3, <3>4 DEF Opened, m
  <2>2. CASE \E m \in Msg : Send(p, m)
    BY <2>2 DEF Send, page, PageOK
  <2>3. CASE \E o \in out[p] : Chunk(p, o) \/ ChunkLost(p, o)
    BY <2>3 DEF Chunk, ChunkLost, page, PageOK
  <2> QED
    BY <1>1, <2>1, <2>2, <2>3 DEF Link
<1>2. ASSUME NEW m \in Msg, Consume(m)
      PROVE  PageOK'
  <2>1. [op |-> "consume", msg |-> m, at |-> 0, retry |-> FALSE] \in Job
    BY DEF Job
  <2> QED
    BY <1>2, <2>1 DEF Consume, PageOK
<1>3. CASE Transaction
  <2>1. Head(txq) \in Job /\ Tail(txq) \in Seq(Job)
    BY <1>3 DEF Transaction, PageOK
  <2>2. After(Head(txq)) \in Seq(Job)
    <3>1. [Head(txq) EXCEPT !.op = "put", !.retry = TRUE] \in Job
      BY <2>1 DEF Job
    <3> QED
      BY <3>1, EmptySequences DEF After
  <2>3. txq' \in Seq(Job)
    BY <1>3, <2>1, <2>2 DEF Transaction
  <2> QED
    BY <1>0, <1>3, <2>3 DEF Transaction, PageOK
<1>4. CASE QuotaExceeded
  <2>1. Head(txq) \in Job /\ Tail(txq) \in Seq(Job)
    BY <1>4 DEF QuotaExceeded, PageOK
  <2>2. [Head(txq) EXCEPT !.op = "evict"] \in Job
    BY <2>1 DEF Job
  <2>3. txq' \in Seq(Job)
    BY <1>4, <2>1, <2>2 DEF QuotaExceeded
  <2> QED
    BY <1>4, <2>3 DEF QuotaExceeded, PageOK
<1>5. CASE \E k \in 0 .. InboxCap : EvictExcess(k)
  BY <1>0, <1>5 DEF EvictExcess, page, PageOK
<1>6. CASE \E at \in 1 .. clock : EvictOlderThan(at)
  BY <1>0, <1>6 DEF EvictOlderThan, page, PageOK
<1>7. CASE Boot \/ UNCHANGED vars
  BY <1>7 DEF Boot, page, vars, PageOK
<1>8. CASE Reload
  <2>1. /\ up' = FALSE /\ params' \in DOMAIN Hash
        /\ lru' = <<>> /\ txq' = <<>> /\ now' \in [Msg -> Nat]
        /\ UNCHANGED <<disk, inbox, clock, count, quota>>
    BY <1>8 DEF Reload
  <2>2. lives' \in Nat
    BY <1>8 DEF Reload, PageOK
  <2>3. lru' \in Seq(Msg) /\ Len(lru') <= LruCap /\ txq' \in Seq(Job)
    BY <2>1, EmptySequences, Zenon
  <2> QED
    BY <2>1, <2>2, <2>3 DEF PageOK
<1>9. CASE Flush
  <2>1. disk'.params = params /\ UNCHANGED <<page, inbox, clock, count, now, lives, quota>>
    BY <1>9 DEF Flush
  <2> QED
    BY <2>1 DEF page, PageOK
<1> QED
  BY <1>1, <1>2, <1>3, <1>4, <1>5, <1>6, <1>7, <1>8, <1>9 DEF Next

\* What a chunk that fits leaves: a complete frame or a partial one.
LEMMA PushedParts ==
    ASSUME LinkOK, NEW p \in Peer, NEW o \in out[p], Fits(asm[p], Total(p, o.n)),
           NEW r, r = Pushed(asm[p], o.n, o.seq, Total(p, o.n))
    PROVE  /\ ~Full(r) => Partial(p, r)
           /\ Full(r) => 0 \in DOMAIN r.slots /\ r.slots[0] \in DOMAIN sent[p]
<1> DEFINE total == Total(p, o.n)
           old   == DOMAIN asm[p].slots
           held  == DOMAIN r.slots
<1>1. o.n \in DOMAIN sent[p] /\ o.seq \in Nat /\ o.seq < total
  BY DEF LinkOK
<1>2. total \in 1 .. MaxParts
  BY <1>1, DeliveryAssumption DEF LinkOK, Total
<1>3. /\ r.total = total /\ held = old \cup {o.seq}
      /\ \A s \in held : r.slots[s] = IF s \in old THEN asm[p].slots[s] ELSE o.n
  BY DEF Pushed
<1>4. total \in Nat /\ total >= 1
  BY <1>2 DEF MaxParts
<1> HIDE DEF total
<1>5. /\ IsFiniteSet(old) /\ Cardinality(old) \in 0 .. (total - 1)
      /\ old \subseteq 0 .. (total - 1)
      /\ \A s \in old : asm[p].slots[s] \in DOMAIN sent[p]
  <2>1. CASE asm[p] = Empty
    <3>1. old = {}
      BY <2>1 DEF Empty
    <3> QED
      BY <1>4, <3>1, FS_EmptySet
  <2>2. CASE asm[p] # Empty
    <3>1. Partial(p, asm[p])
      BY <2>2 DEF LinkOK
    <3>2. asm[p].total = total
      BY <3>1 DEF Partial, Fits, total
    <3>3. /\ old \subseteq 0 .. (total - 1)
          /\ Cardinality(old) \in 1 .. (total - 1)
          /\ \A s \in old : asm[p].slots[s] \in DOMAIN sent[p]
      BY <3>1, <3>2 DEF Partial
    <3>4. IsFiniteSet(0 .. (total - 1))
      BY <1>4, FS_Interval
    <3>5. IsFiniteSet(old)
      BY <3>3, <3>4, FS_Subset
    <3> QED
      BY <1>4, <3>3, <3>5
  <2> QED
    BY <2>1, <2>2
<1> HIDE DEF old, held
<1>6. IsFiniteSet(held) /\ Cardinality(held) \in 1 .. total
  <2>1. /\ IsFiniteSet(held)
        /\ Cardinality(held) = IF o.seq \in old THEN Cardinality(old) ELSE Cardinality(old) + 1
    BY <1>3, <1>5, FS_AddElement
  <2>2. held # {}
    BY <1>3
  <2>3. Cardinality(held) # 0
    BY <2>1, <2>2, FS_EmptySet
  <2> QED
    BY <1>4, <1>5, <2>1, <2>3
<1>7. held \subseteq 0 .. (total - 1)
  <2>1. o.seq \in 0 .. (total - 1)
    BY <1>1, <1>4
  <2>2. held = old \cup {o.seq}
    BY <1>3
  <2> QED
    BY <1>5, <2>1, <2>2
<1>8. \A s \in held : r.slots[s] \in DOMAIN sent[p]
  BY <1>1, <1>3, <1>5
<1>9. ASSUME ~Full(r) PROVE Partial(p, r)
  <2>1. Cardinality(held) \in 1 .. (total - 1)
    BY <1>3, <1>4, <1>6, <1>9 DEF Full, held
  <2> QED
    BY <1>2, <1>3, <1>7, <1>8, <2>1 DEF Partial, held, total
<1>10. ASSUME Full(r) PROVE 0 \in held
  <2>1. Cardinality(held) = total
    BY <1>3, <1>10 DEF Full, held
  <2>2. IsFiniteSet(0 .. (total - 1)) /\ Cardinality(0 .. (total - 1)) = total
    BY <1>4, FS_Interval
  <2>3. held = 0 .. (total - 1)
    BY <1>7, <2>1, <2>2, FS_Subset
  <2> QED
    BY <1>4, <2>3
<1> QED
  BY <1>8, <1>9, <1>10 DEF held

LEMMA SendTypes ==
    ASSUME LinkOK, NEW p \in Peer, NEW m \in Msg, Send(p, m)
    PROVE  LinkOK'
<1>1. sent' = [sent EXCEPT ![p] = Append(sent[p], m)] /\ sent' \in [Peer -> Seq(Msg)]
  BY DEF Send, LinkOK
<1>2. \A q \in Peer : DOMAIN sent[q] \subseteq DOMAIN sent'[q]
  BY <1>1 DEF LinkOK
<1>3. \A q \in Peer : \A n \in DOMAIN sent[q] : sent'[q][n] = sent[q][n]
  BY <1>1 DEF LinkOK
<1> DEFINE new == [n |-> Len(sent'[p]), seq |-> 0]
<1>4. out' = [out EXCEPT ![p] = out[p] \cup {new}] /\ UNCHANGED <<asm, broken, opening>>
  BY DEF Send
<1>5. new.n \in DOMAIN sent'[p] /\ new.seq = 0 /\ new \in [n : Frame, seq : Nat]
  <2>1. Len(sent'[p]) = Len(sent[p]) + 1 /\ Len(sent[p]) \in Nat
    BY <1>1 DEF LinkOK
  <2>2. Len(sent'[p]) \in Frame /\ Len(sent'[p]) \in DOMAIN sent'[p]
    BY <1>1, <2>1 DEF Frame
  <2> QED
    BY <2>2
<1>6. 0 < Parts[sent'[p][new.n]]
  <2>1. sent'[p][new.n] \in Msg
    BY <1>1, <1>5
  <2>2. Parts[sent'[p][new.n]] \in 1 .. MaxParts
    BY <2>1, DeliveryAssumption
  <2> QED
    BY <2>2 DEF MaxParts
<1> HIDE DEF new
<1>7. out' \in [Peer -> SUBSET [n : Frame, seq : Nat]]
  BY <1>4, <1>5 DEF LinkOK
<1>8. \A q \in Peer : \A o \in out'[q] : o.n \in DOMAIN sent'[q] /\ o.seq < Parts[sent'[q][o.n]]
  <2>1. ASSUME NEW q \in Peer, NEW o \in out[q]
        PROVE  o.n \in DOMAIN sent'[q] /\ o.seq < Parts[sent'[q][o.n]]
    BY <1>2, <1>3 DEF LinkOK, Total
  <2>2. \A q \in Peer : \A o \in out'[q] : o \in out[q] \/ (q = p /\ o = new)
    BY <1>4 DEF LinkOK
  <2> QED
    BY <1>5, <1>6, <2>1, <2>2
<1>9. \A q \in Peer : asm'[q] = Empty \/ Partial(q, asm[q])'
  BY <1>2, <1>4 DEF LinkOK, Partial
<1>10. lossy' \in [Peer -> BOOLEAN] /\ broken' \in [Peer -> BOOLEAN] /\ DOMAIN asm' = Peer
  BY <1>4 DEF Send, LinkOK
<1>11. \A f \in opening' : f[1] \in Peer /\ f[2] \in DOMAIN sent'[f[1]]
  BY <1>2, <1>4 DEF LinkOK
<1> QED
  BY <1>1, <1>4, <1>7, <1>8, <1>9, <1>10, <1>11 DEF LinkOK, Total, Empty

LEMMA WroteTypes ==
    ASSUME LinkOK, NEW p \in Peer, NEW o \in out[p], Wrote(p, o), UNCHANGED sent
    PROVE  /\ out' \in [Peer -> SUBSET [n : Frame, seq : Nat]]
           /\ \A q \in Peer : \A x \in out'[q] : x.n \in DOMAIN sent'[q] /\ x.seq < Parts[sent'[q][x.n]]
<1> DEFINE new == [o EXCEPT !.seq = @ + 1]
<1>1. o \in [n : Frame, seq : Nat] /\ o.n \in DOMAIN sent[p]
  BY DEF LinkOK
<1>2. new \in [n : Frame, seq : Nat] /\ new.n = o.n /\ new.seq = o.seq + 1
  BY <1>1
<1>3. /\ DOMAIN out' = Peer
      /\ \A q \in Peer : \A x \in out'[q] :
            x \in out[q] \/ (q = p /\ x = new /\ o.seq + 1 < Total(p, o.n))
  BY DEF Wrote, LinkOK
<1> HIDE DEF new
<1>4. \A q \in Peer : \A x \in out'[q] : x \in [n : Frame, seq : Nat]
  BY <1>2, <1>3 DEF LinkOK
<1>5. out' \in [Peer -> SUBSET [n : Frame, seq : Nat]]
  <2>1. out' = [q \in Peer |-> out'[q]]
    BY <1>3 DEF Wrote, LinkOK
  <2> QED
    BY <1>4, <2>1
<1>6. \A q \in Peer : \A x \in out'[q] : x.n \in DOMAIN sent'[q] /\ x.seq < Parts[sent'[q][x.n]]
  BY <1>1, <1>2, <1>3 DEF LinkOK, Total
<1> QED
  BY <1>5, <1>6

LEMMA ChunkTypes ==
    ASSUME LinkOK, NEW p \in Peer, NEW o \in out[p], Chunk(p, o)
    PROVE  LinkOK'
<1> DEFINE r == Pushed(asm[p], o.n, o.seq, Total(p, o.n))
<1>1. UNCHANGED <<sent, lossy>> /\ Wrote(p, o)
  BY DEF Chunk
<1>2. \A q \in Peer : asm'[q] = asm[q] \/ asm'[q] = Empty \/ (q = p /\ Partial(p, asm'[q]))
  <2>1. CASE ~Fits(asm[p], Total(p, o.n)) \/ Full(r)
    BY <2>1 DEF Chunk, LinkOK
  <2>2. CASE Fits(asm[p], Total(p, o.n)) /\ ~Full(r)
    <3>1. asm' = [asm EXCEPT ![p] = r]
      BY <2>2 DEF Chunk
    <3>2. Partial(p, r)
      BY <2>2, PushedParts
    <3> QED
      BY <3>1, <3>2 DEF LinkOK
  <2> QED
    BY <2>1, <2>2
<1>3. DOMAIN asm' = Peer
  BY DEF Chunk, LinkOK
<1>4. \A q \in Peer : asm'[q] = Empty \/ Partial(q, asm[q])'
  BY <1>1, <1>2 DEF LinkOK, Partial
<1>5. broken' \in [Peer -> BOOLEAN]
  BY DEF Chunk, LinkOK
<1>6. \A f \in opening' : f[1] \in Peer /\ f[2] \in DOMAIN sent'[f[1]]
  <2>1. CASE opening' \subseteq opening
    BY <1>1, <2>1 DEF LinkOK
  <2>2. CASE /\ Fits(asm[p], Total(p, o.n)) /\ Full(r)
             /\ opening' = opening \cup {<<p, r.slots[0]>>}
    <3>1. r.slots[0] \in DOMAIN sent[p]
      BY <2>2, PushedParts
    <3> HIDE DEF r
    <3> QED
      BY <1>1, <2>2, <3>1 DEF LinkOK
  <2> QED
    BY <2>1, <2>2 DEF Chunk
<1>7. /\ out' \in [Peer -> SUBSET [n : Frame, seq : Nat]]
      /\ \A q \in Peer : \A x \in out'[q] : x.n \in DOMAIN sent'[q] /\ x.seq < Parts[sent'[q][x.n]]
  BY <1>1, WroteTypes
<1> QED
  BY <1>1, <1>3, <1>4, <1>5, <1>6, <1>7 DEF LinkOK, Total, Empty

LEMMA LostTypes ==
    ASSUME LinkOK, NEW p \in Peer, NEW o \in out[p], ChunkLost(p, o)
    PROVE  LinkOK'
<1>1. UNCHANGED <<sent, asm, broken, opening>> /\ Wrote(p, o)
  BY DEF ChunkLost
<1>2. lossy' \in [Peer -> BOOLEAN]
  BY DEF ChunkLost, LinkOK
<1>3. /\ out' \in [Peer -> SUBSET [n : Frame, seq : Nat]]
      /\ \A q \in Peer : \A x \in out'[q] : x.n \in DOMAIN sent'[q] /\ x.seq < Parts[sent'[q][x.n]]
  BY <1>1, WroteTypes
<1> QED
  BY <1>1, <1>2, <1>3 DEF LinkOK, Total, Partial, Empty

LEMMA LinkStep ==
    ASSUME LinkOK, [Next]_vars
    PROVE  LinkOK'
<1>1. CASE UNCHANGED <<links, opening>>
  BY <1>1 DEF links, LinkOK, Total, Partial, Empty
<1>2. ASSUME NEW p \in Peer, NEW n \in DOMAIN sent[p], Opened(p, n)
      PROVE  LinkOK'
  <2>1. UNCHANGED links /\ opening' \subseteq opening
    BY <1>2 DEF Opened
  <2> QED
    BY <2>1 DEF links, LinkOK, Total, Partial, Empty
<1>3. CASE Reload
  <2>1. /\ UNCHANGED sent
        /\ opening' = {}
        /\ out' = [p \in Peer |-> {}]
        /\ asm' = [p \in Peer |-> Empty]
        /\ lossy' = [p \in Peer |-> FALSE]
        /\ broken' = [p \in Peer |-> FALSE]
    BY <1>3 DEF Reload
  <2> QED
    BY <2>1 DEF LinkOK, Empty
<1>4. CASE \/ \E m \in Msg : Consume(m)
           \/ Transaction \/ QuotaExceeded
           \/ \E k \in 0 .. InboxCap : EvictExcess(k)
           \/ \E at \in 1 .. clock : EvictOlderThan(at)
           \/ Boot \/ Flush \/ UNCHANGED vars
  BY <1>1, <1>4 DEF Consume, Transaction, QuotaExceeded, EvictExcess, EvictOlderThan, Boot, Flush, vars
<1>5. ASSUME NEW p \in Peer, Link(p)
      PROVE  LinkOK'
  BY <1>2, <1>5, SendTypes, ChunkTypes, LostTypes DEF Link
<1> QED
  BY <1>3, <1>4, <1>5 DEF Next

-----------------------------------------------------------------------------
(* Clean links *)

\* What the reassembler holds when the call that writes o is alone.
Begun(p, o) ==
    IF o.seq > 0 THEN [total |-> Total(p, o.n), slots |-> [s \in 0 .. (o.seq - 1) |-> o.n]] ELSE Empty

CleanOf(p) ==
    /\ ~broken[p]
    /\ \/ out[p] = {} /\ asm[p] = Empty
       \/ \E o \in out[p] : out[p] = {o} /\ asm[p] = Begun(p, o)

CleanInv == \A p \in Peer : ~lossy[p] => CleanOf(p)

LEMMA CleanInvIsClean == CleanInv => CleanLink
<1> SUFFICES ASSUME CleanInv, NEW p \in Peer, ~lossy[p]
             PROVE  /\ ~broken[p]
                    /\ asm[p] = IF \E o \in out[p] : o.seq > 0
                                THEN LET o == CHOOSE x \in out[p] : TRUE
                                     IN [total |-> Total(p, o.n), slots |-> [s \in 0 .. (o.seq - 1) |-> o.n]]
                                ELSE Empty
  BY DEF CleanLink
<1>1. CASE out[p] = {} /\ asm[p] = Empty
  BY <1>1 DEF CleanInv, CleanOf
<1>2. ASSUME NEW o \in out[p], out[p] = {o}, asm[p] = Begun(p, o)
      PROVE  asm[p] = IF \E x \in out[p] : x.seq > 0
                      THEN LET y == CHOOSE x \in out[p] : TRUE
                           IN [total |-> Total(p, y.n), slots |-> [s \in 0 .. (y.seq - 1) |-> y.n]]
                      ELSE Empty
  <2>1. (CHOOSE x \in out[p] : TRUE) = o
    BY <1>2
  <2>2. (\E x \in out[p] : x.seq > 0) <=> o.seq > 0
    BY <1>2
  <2> QED
    BY <1>2, <2>1, <2>2 DEF Begun
<1> QED
  BY <1>1, <1>2 DEF CleanInv, CleanOf

\* The next chunk of the frame in progress fits and is one more of its chunks.
LEMMA NextChunk ==
    ASSUME LinkOK, NEW p \in Peer, NEW o \in out[p], asm[p] = Begun(p, o),
           NEW r, r = Pushed(asm[p], o.n, o.seq, Total(p, o.n))
    PROVE  /\ Fits(asm[p], Total(p, o.n))
           /\ r = [total |-> Total(p, o.n), slots |-> [s \in 0 .. o.seq |-> o.n]]
           /\ Whole(r)
           /\ Full(r) <=> o.seq + 1 = Total(p, o.n)
<1>1. o.seq \in Nat
  BY DEF LinkOK
<1>2. Fits(asm[p], Total(p, o.n)) /\ r.total = Total(p, o.n)
  BY DEF Begun, Fits, Empty, Pushed
<1>3. r.slots = [s \in 0 .. o.seq |-> o.n]
  <2>1. CASE o.seq > 0
    <3>1. asm[p].slots = [s \in 0 .. (o.seq - 1) |-> o.n]
      BY <2>1 DEF Begun
    <3>2. DOMAIN asm[p].slots \cup {o.seq} = 0 .. o.seq
      BY <1>1, <2>1, <3>1
    <3>3. \A s \in 0 .. o.seq : (IF s \in DOMAIN asm[p].slots THEN asm[p].slots[s] ELSE o.n) = o.n
      BY <3>1
    <3> QED
      BY <3>2, <3>3 DEF Pushed
  <2>2. CASE o.seq = 0
    <3>1. DOMAIN asm[p].slots = {}
      BY <2>2 DEF Begun, Empty
    <3>2. 0 .. o.seq = {o.seq}
      BY <2>2
    <3> QED
      BY <3>1, <3>2 DEF Pushed
  <2> QED
    BY <1>1, <2>1, <2>2
<1>4. r = [total |-> Total(p, o.n), slots |-> [s \in 0 .. o.seq |-> o.n]]
  BY <1>2, <1>3 DEF Pushed
<1>5. Whole(r)
  BY <1>3 DEF Whole
<1>6. Cardinality(DOMAIN r.slots) = o.seq + 1
  <2>1. DOMAIN r.slots = 0 .. o.seq
    BY <1>3
  <2> QED
    BY <1>1, <2>1, FS_Interval
<1> QED
  BY <1>2, <1>4, <1>5, <1>6 DEF Full

LEMMA CleanChunk ==
    ASSUME LinkOK, CleanInv, NEW p \in Peer, NEW o \in out[p], Chunk(p, o), ~lossy'[p]
    PROVE  CleanOf(p)'
<1> DEFINE r == Pushed(asm[p], o.n, o.seq, Total(p, o.n))
<1>1. UNCHANGED <<sent, lossy>> /\ Wrote(p, o)
  BY DEF Chunk
<1>2. ~broken[p] /\ out[p] = {o} /\ asm[p] = Begun(p, o)
  BY <1>1 DEF CleanInv, CleanOf
<1>3. /\ Fits(asm[p], Total(p, o.n))
      /\ r = [total |-> Total(p, o.n), slots |-> [s \in 0 .. o.seq |-> o.n]]
      /\ Whole(r)
      /\ Full(r) <=> o.seq + 1 = Total(p, o.n)
  BY <1>2, NextChunk
<1>4. o \in [n : Frame, seq : Nat] /\ o.seq < Total(p, o.n) /\ Total(p, o.n) \in Nat
  <2>1. o \in [n : Frame, seq : Nat] /\ o.n \in DOMAIN sent[p] /\ o.seq < Total(p, o.n)
    BY DEF LinkOK
  <2>2. sent[p][o.n] \in Msg
    BY <2>1 DEF LinkOK
  <2>3. Parts[sent[p][o.n]] \in 1 .. MaxParts
    BY <2>2, DeliveryAssumption
  <2> QED
    BY <2>1, <2>3 DEF Total, MaxParts
<1>5. /\ out' = [out EXCEPT ![p] = (out[p] \ {o}) \cup
                    (IF o.seq + 1 < Total(p, o.n) THEN {[o EXCEPT !.seq = @ + 1]} ELSE {})]
      /\ out' \in [Peer -> SUBSET [n : Frame, seq : Nat]]
  BY <1>1, WroteTypes DEF Wrote
<1>6. CASE o.seq + 1 = Total(p, o.n)
  <2>1. asm'[p] = Empty /\ ~broken'[p]
    BY <1>2, <1>3, <1>6 DEF Chunk, LinkOK
  <2>2. out'[p] = {}
    BY <1>2, <1>5, <1>6, <1>4 DEF LinkOK
  <2> QED
    BY <2>1, <2>2 DEF CleanOf, Empty
<1>7. CASE o.seq + 1 # Total(p, o.n)
  <2> DEFINE new == [o EXCEPT !.seq = @ + 1]
  <2>1. asm' = [asm EXCEPT ![p] = r] /\ ~broken'[p]
    BY <1>2, <1>3, <1>7 DEF Chunk
  <2>2. asm'[p] = [total |-> Total(p, o.n), slots |-> [s \in 0 .. o.seq |-> o.n]]
    BY <1>3, <2>1 DEF LinkOK
  <2>3. new.n = o.n /\ new.seq = o.seq + 1 /\ new.seq > 0 /\ new.seq - 1 = o.seq
    BY <1>4
  <2>4. o.seq + 1 < Total(p, o.n)
    BY <1>4, <1>7
  <2>5. out'[p] = {new}
    BY <1>2, <1>5, <2>4 DEF LinkOK
  <2> HIDE DEF new
  <2>6. asm'[p] = IF new.seq > 0
                  THEN [total |-> Parts[sent'[p][new.n]], slots |-> [s \in 0 .. (new.seq - 1) |-> new.n]]
                  ELSE Empty
    BY <1>1, <2>2, <2>3 DEF Total
  <2>7. \E x \in out'[p] : out'[p] = {x} /\ asm'[p] = Begun(p, x)'
    BY <2>5, <2>6 DEF Begun, Total, Empty
  <2> QED
    BY <2>1, <2>7 DEF CleanOf
<1> QED
  BY <1>6, <1>7

LEMMA CleanStep ==
    ASSUME LinkOK, CleanInv, [Next]_vars
    PROVE  CleanInv'
<1>1. ASSUME NEW q \in Peer, ~lossy[q], ~lossy'[q], asm'[q] = asm[q], broken'[q] = broken[q], out'[q] = out[q],
             \A n \in DOMAIN sent[q] : sent'[q][n] = sent[q][n]
      PROVE  CleanOf(q)'
  BY <1>1 DEF CleanInv, CleanOf, Begun, Total, Empty, LinkOK
<1>2. CASE UNCHANGED links
  BY <1>1, <1>2 DEF links, CleanInv
<1>3. ASSUME NEW p \in Peer, NEW m \in Msg, Send(p, m)
      PROVE  CleanInv'
  <2>1. /\ sent' = [sent EXCEPT ![p] = Append(sent[p], m)]
        /\ out' = [out EXCEPT ![p] = out[p] \cup {[n |-> Len(sent'[p]), seq |-> 0]}]
        /\ lossy' = [lossy EXCEPT ![p] = lossy[p] \/ out[p] # {}]
        /\ UNCHANGED <<asm, broken>>
    BY <1>3 DEF Send
  <2>2. ASSUME NEW q \in Peer, ~lossy'[q], q # p
        PROVE  CleanOf(q)'
    BY <1>1, <2>1, <2>2 DEF LinkOK
  <2>3. ASSUME ~lossy'[p]
        PROVE  CleanOf(p)'
    <3>1. ~lossy[p] /\ out[p] = {}
      BY <2>1, <2>3 DEF LinkOK
    <3>2. asm'[p] = Empty /\ ~broken'[p]
      BY <2>1, <3>1 DEF CleanInv, CleanOf
    <3>3. out'[p] = {[n |-> Len(sent'[p]), seq |-> 0]}
      BY <2>1, <3>1 DEF LinkOK
    <3> DEFINE new == [n |-> Len(sent'[p]), seq |-> 0]
    <3>4. new.seq = 0 /\ out'[p] = {new}
      BY <3>3
    <3> HIDE DEF new
    <3>5. \E x \in out'[p] : out'[p] = {x} /\ asm'[p] = Begun(p, x)'
      BY <3>2, <3>4 DEF Begun, Empty
    <3> QED
      BY <3>2, <3>5 DEF CleanOf
  <2> QED
    BY <2>2, <2>3 DEF CleanInv
<1>4. ASSUME NEW p \in Peer, NEW o \in out[p], Chunk(p, o)
      PROVE  CleanInv'
  <2>1. ASSUME NEW q \in Peer, ~lossy'[q], q # p
        PROVE  CleanOf(q)'
    <3>1. /\ UNCHANGED <<sent, lossy>> /\ out'[q] = out[q]
          /\ asm'[q] = asm[q] /\ broken'[q] = broken[q]
      BY <1>4, <2>1 DEF Chunk, Wrote, LinkOK
    <3> QED
      BY <1>1, <2>1, <3>1
  <2> QED
    BY <1>4, <2>1, CleanChunk DEF CleanInv
<1>5. ASSUME NEW p \in Peer, NEW o \in out[p], ChunkLost(p, o)
      PROVE  CleanInv'
  <2>1. /\ UNCHANGED <<sent, asm, broken>> /\ lossy' = [lossy EXCEPT ![p] = TRUE]
        /\ \A q \in Peer \ {p} : out'[q] = out[q]
    BY <1>5 DEF ChunkLost, Wrote, LinkOK
  <2> QED
    BY <1>1, <2>1 DEF CleanInv, LinkOK
<1>6. CASE Reload
  BY <1>6 DEF Reload, CleanInv, CleanOf, Empty
<1>7. CASE \/ \E p \in Peer : \E n \in DOMAIN sent[p] : Opened(p, n)
           \/ \E m \in Msg : Consume(m)
           \/ Transaction \/ QuotaExceeded
           \/ \E k \in 0 .. InboxCap : EvictExcess(k)
           \/ \E at \in 1 .. clock : EvictOlderThan(at)
           \/ Boot \/ Flush \/ UNCHANGED vars
  BY <1>2, <1>7 DEF Opened, Consume, Transaction, QuotaExceeded, EvictExcess, EvictOlderThan, Boot, Flush, vars
<1> QED
  BY <1>3, <1>4, <1>5, <1>6, <1>7 DEF Next, Link

-----------------------------------------------------------------------------
(* Puts on their way *)

\* The positions of the transactions that will store message m.
Puts(m) == {i \in DOMAIN txq : txq[i].op # "consume" /\ txq[i].msg = m}

Single(m) == \A i, j \in Puts(m) : i = j

\* A message handed on once has one put, which is under way or was committed.
PutInv ==
    \A m \in Msg :
        /\ count[m] = 0 => Puts(m) = {} /\ inbox[m] = Missing
        /\ count[m] = 1 => Single(m) /\ (inbox[m] # Missing => Puts(m) = {})

LEMMA InitPuts == Init => PutInv
  BY DEF Init, PutInv, Puts, Single

\* What a transaction does to the entry of any message.
LEMMA CommitEntry ==
    ASSUME inbox \in Box, NEW job \in Job, NEW m \in Msg
    PROVE  \/ job.op = "put" /\ job.msg = m
           \/ Commit(job)[m] = Missing
           \/ Commit(job)[m] = inbox[m]
           \/ /\ job.op = "consume" /\ inbox[m] # Missing
              /\ Commit(job)[m] = [inbox[m] EXCEPT !.consumed = TRUE]
<1>1. CASE job.op = "put" /\ job.msg # m
  <2>1. Commit(job)[m] = Room(inbox)[m]
    <3>1. Commit(job) = [Room(inbox) EXCEPT ![job.msg] = [at |-> job.at, consumed |-> FALSE]]
      BY <1>1 DEF Commit
    <3>2. m \in DOMAIN Room(inbox)
      BY DEF Room, Without, Box
    <3> QED
      BY <1>1, <3>1, <3>2
  <2>2. Room(inbox)[m] = Missing \/ Room(inbox)[m] = inbox[m]
    BY DEF Room, Without
  <2> QED
    BY <2>1, <2>2
<1>2. CASE job.op = "evict"
  BY <1>2 DEF Commit, Without
<1>3. CASE job.op = "consume"
  BY <1>3 DEF Commit, Box
<1> QED
  BY <1>1, <1>2, <1>3 DEF Job

\* The first transaction leaves the queue, and at most one of the same message
\* comes after the others.
Requeue ==
    \/ txq' = Tail(txq)
    \/ \E job \in Job : /\ txq' = Append(Tail(txq), job)
                        /\ job.msg = Head(txq).msg /\ Head(txq).op # "consume"

LEMMA Requeued ==
    ASSUME PageOK, txq # <<>>, NEW m \in Msg, Requeue
    PROVE  /\ Puts(m) = {} => Puts(m)' = {}
           /\ Single(m) => Single(m)'
           /\ Single(m) /\ txq' = Tail(txq) /\ 1 \in Puts(m) => Puts(m)' = {}
<1>1. txq \in Seq(Job) /\ Len(txq) \in Nat \ {0} /\ Head(txq) = txq[1] /\ 1 \in DOMAIN txq
  BY DEF PageOK
<1>2. /\ Tail(txq) \in Seq(Job) /\ Len(Tail(txq)) = Len(txq) - 1
      /\ \A i \in 1 .. (Len(txq) - 1) : Tail(txq)[i] = txq[i + 1]
  BY <1>1
<1>3. CASE txq' = Tail(txq)
  <2>1. \A i \in Puts(m)' : i \in Nat /\ i + 1 \in Puts(m) /\ i + 1 # 1
    BY <1>1, <1>2, <1>3 DEF Puts
  <2>2. Single(m) => Single(m)'
    <3> SUFFICES ASSUME Single(m), NEW i \in Puts(m)', NEW j \in Puts(m)'
                 PROVE  i = j
      BY DEF Single
    <3>1. i \in Nat /\ j \in Nat /\ i + 1 = j + 1
      BY <2>1 DEF Single
    <3> QED
      BY <3>1
  <2> QED
    BY <2>1, <2>2 DEF Single
<1>4. ASSUME NEW k \in Job, txq' = Append(Tail(txq), k),
             k.msg = Head(txq).msg, Head(txq).op # "consume"
      PROVE  (Puts(m) = {} => Puts(m)' = {}) /\ (Single(m) => Single(m)') /\ txq' # Tail(txq)
  <2>1. /\ Len(txq') = Len(txq)
        /\ \A i \in 1 .. (Len(txq) - 1) : txq'[i] = txq[i + 1]
        /\ txq'[Len(txq)] = k
        /\ DOMAIN txq' = 1 .. Len(txq)
    <3> DEFINE t == Tail(txq)
    <3>1. /\ t \in Seq(Job)
          /\ Len(t) + 1 = Len(txq)
          /\ txq' = Append(t, k)
      <4>1. t \in Seq(Job)
        BY <1>2
      <4>2. Len(t) + 1 = Len(txq)
        BY <1>1, <1>2
      <4>3. txq' = Append(t, k)
        BY <1>4
      <4> QED
        BY <4>1, <4>2, <4>3
    <3>2. \A i \in 1 .. (Len(txq) - 1) : t[i] = txq[i + 1]
      BY <1>2
    <3> HIDE DEF t
    <3>3. /\ Len(txq') = Len(t) + 1
          /\ \A i \in 1 .. Len(t) : txq'[i] = t[i]
          /\ txq'[Len(t) + 1] = k
          /\ txq' \in Seq(Job)
      BY <3>1, AppendProperties
    <3>4. Len(t) \in Nat /\ DOMAIN txq' = 1 .. Len(txq')
      BY <3>1, <3>3, LenProperties
    <3> QED
      BY <3>1, <3>2, <3>3, <3>4
  <2>2. \A i \in Puts(m)' :
           \/ i \in Nat /\ i # Len(txq) /\ i + 1 \in Puts(m) /\ i + 1 # 1
           \/ i = Len(txq) /\ 1 \in Puts(m)
    <3> SUFFICES ASSUME NEW i \in Puts(m)'
                 PROVE  \/ i \in Nat /\ i # Len(txq) /\ i + 1 \in Puts(m) /\ i + 1 # 1
                        \/ i = Len(txq) /\ 1 \in Puts(m)
      OBVIOUS
    <3>1. i \in 1 .. Len(txq) /\ txq'[i].op # "consume" /\ txq'[i].msg = m
      BY <2>1 DEF Puts
    <3>2. DOMAIN txq = 1 .. Len(txq) /\ Len(txq) \in Nat
      BY <1>1
    <3>3. CASE i = Len(txq)
      <4>1. txq'[i] = k /\ k.msg = Head(txq).msg /\ Head(txq).op # "consume"
        BY <1>4, <2>1, <3>3, Zenon
      <4>2. Head(txq).msg = m
        BY <3>1, <4>1, Zenon
      <4> QED
        BY <1>1, <3>3, <4>1, <4>2 DEF Puts
    <3>4. CASE i # Len(txq)
      <4>1. i \in 1 .. (Len(txq) - 1) /\ i + 1 \in 1 .. Len(txq) /\ i \in Nat /\ i + 1 # 1
        BY <3>1, <3>2, <3>4
      <4>2. txq'[i] = txq[i + 1]
        BY <2>1, <4>1
      <4>3. i + 1 \in DOMAIN txq
        BY <3>2, <4>1
      <4>4. txq[i + 1].op # "consume" /\ txq[i + 1].msg = m
        BY <3>1, <4>2
      <4> DEFINE j == i + 1
      <4>5. j \in DOMAIN txq /\ txq[j].op # "consume" /\ txq[j].msg = m
        BY <4>3, <4>4
      <4> HIDE DEF j
      <4>6. j \in Puts(m)
        BY <4>5 DEF Puts
      <4> QED
        BY <3>4, <4>1, <4>6 DEF j
    <3> QED
      BY <3>3, <3>4
  <2>3. Single(m) => Single(m)'
    <3> SUFFICES ASSUME Single(m), NEW i \in Puts(m)', NEW j \in Puts(m)'
                 PROVE  i = j
      BY DEF Single
    <3>1. CASE 1 \in Puts(m)
      BY <2>2, <3>1 DEF Single
    <3>2. CASE 1 \notin Puts(m)
      <4>1. i \in Nat /\ j \in Nat /\ i + 1 = j + 1
        BY <2>2, <3>2 DEF Single
      <4> QED
        BY <4>1
    <3> QED
      BY <3>1, <3>2
  <2>4. Puts(m) = {} => Puts(m)' = {}
    BY <2>2
  <2>5. txq' # Tail(txq)
    <3>1. Len(txq') = Len(txq)
      BY <2>1
    <3>2. Len(Tail(txq)) = Len(txq) - 1
      BY <1>2
    <3>3. Len(txq) \in Nat
      BY <1>1
    <3>4. Len(txq') # Len(Tail(txq))
      BY <3>1, <3>2, <3>3
    <3> QED
      BY <3>4, Zenon
  <2> QED
    BY <2>3, <2>4, <2>5
<1> QED
  BY <1>3, <1>4 DEF Requeue

LEMMA PutTransaction ==
    ASSUME PageOK, PutInv, Transaction
    PROVE  PutInv'
<1> DEFINE h == Head(txq)
<1>1. h \in Job /\ txq # <<>> /\ inbox' = Commit(h) /\ txq' = Tail(txq) \o After(h) /\ count' = count
  BY DEF PageOK, Transaction
<1>2. \/ h.op # "evict" /\ txq' = Tail(txq)
      \/ \E job \in Job : /\ txq' = Append(Tail(txq), job)
                          /\ job.msg = h.msg /\ h.op = "evict"
  <2> DEFINE put == [h EXCEPT !.op = "put", !.retry = TRUE]
  <2>1. put \in Job /\ put.msg = h.msg
    BY <1>1 DEF Job
  <2>2. Tail(txq) \in Seq(Job)
    BY <1>1 DEF PageOK
  <2>3. CASE h.op = "evict"
    <3>1. txq' = Tail(txq) \o <<put>>
      BY <1>1, <2>3 DEF After
    <3> HIDE DEF put
    <3>2. txq' = Append(Tail(txq), put)
      BY <2>1, <2>2, <3>1, AppendIsConcat
    <3> QED
      BY <2>1, <2>3, <3>2
  <2>4. CASE h.op # "evict"
    BY <1>1, <2>2, <2>4, ConcatEmptySeq DEF After
  <2> QED
    BY <2>3, <2>4
<1>3. 1 \in DOMAIN txq /\ txq[1] = h
  BY <1>1 DEF PageOK
<1>4. inbox \in Box
  BY DEF PageOK, Box
<1> HIDE DEF h
<1>5. ASSUME NEW m \in Msg
      PROVE  /\ count'[m] = 0 => Puts(m)' = {} /\ inbox'[m] = Missing
             /\ count'[m] = 1 => Single(m)' /\ (inbox'[m] # Missing => Puts(m)' = {})
  <2>1. /\ Puts(m) = {} => Puts(m)' = {}
        /\ Single(m) => Single(m)'
        /\ Single(m) /\ txq' = Tail(txq) /\ 1 \in Puts(m) => Puts(m)' = {}
    BY <1>1, <1>2, Requeued DEF h, Requeue
  <2>2. h.op # "consume" /\ h.msg = m <=> 1 \in Puts(m)
    BY <1>3 DEF Puts
  <2>3. \/ h.op = "put" /\ h.msg = m
        \/ inbox'[m] = Missing
        \/ inbox'[m] = inbox[m]
        \/ h.op = "consume" /\ inbox[m] # Missing
    BY <1>1, <1>4, CommitEntry
  <2>4. ASSUME count'[m] = 0
        PROVE  Puts(m)' = {} /\ inbox'[m] = Missing
    <3>1. Puts(m) = {} /\ inbox[m] = Missing
      BY <1>1, <2>4 DEF PutInv
    <3> QED
      BY <2>1, <2>2, <2>3, <3>1
  <2>5. ASSUME count'[m] = 1
        PROVE  Single(m)' /\ (inbox'[m] # Missing => Puts(m)' = {})
    <3>1. Single(m) /\ (inbox[m] # Missing => Puts(m) = {})
      BY <1>1, <2>5 DEF PutInv
    <3>2. CASE h.op = "put" /\ h.msg = m
      BY <1>2, <2>1, <2>2, <3>1, <3>2
    <3>3. CASE ~(h.op = "put" /\ h.msg = m)
      BY <2>1, <2>3, <3>1, <3>3
    <3> QED
      BY <3>2, <3>3
  <2> QED
    BY <2>4, <2>5
<1> QED
  BY <1>5 DEF PutInv

LEMMA PutQuota ==
    ASSUME PageOK, PutInv, QuotaExceeded
    PROVE  PutInv'
<1> DEFINE h == Head(txq)
<1>1. h \in Job /\ txq # <<>> /\ Tail(txq) \in Seq(Job) /\ UNCHANGED <<inbox, count>>
  BY DEF PageOK, QuotaExceeded
<1>2. \/ txq' = Tail(txq)
      \/ \E job \in Job : /\ txq' = Append(Tail(txq), job)
                          /\ job.msg = h.msg /\ h.op # "consume"
  <2> DEFINE evict == [h EXCEPT !.op = "evict"]
  <2>1. evict \in Job /\ evict.msg = h.msg
    BY <1>1 DEF Job
  <2>2. CASE h.op = "put" /\ ~h.retry
    <3>1. txq' = Tail(txq) \o <<evict>>
      BY <2>2 DEF QuotaExceeded
    <3> HIDE DEF evict
    <3>2. txq' = Append(Tail(txq), evict)
      BY <1>1, <2>1, <3>1, AppendIsConcat
    <3> QED
      BY <2>1, <2>2, <3>2
  <2>3. CASE ~(h.op = "put" /\ ~h.retry)
    <3>1. txq' = Tail(txq) \o <<>>
      BY <2>3 DEF QuotaExceeded
    <3> QED
      BY <1>1, <3>1, ConcatEmptySeq
  <2> QED
    BY <2>2, <2>3
<1>3. \A m \in Msg : (Puts(m) = {} => Puts(m)' = {}) /\ (Single(m) => Single(m)')
  BY <1>1, <1>2, Requeued DEF Requeue
<1> QED
  BY <1>1, <1>3 DEF PutInv, Missing

\* A job is appended to the queue.
LEMMA Appended ==
    ASSUME PageOK, NEW job \in Job, NEW m \in Msg, txq' = Append(txq, job)
    PROVE  /\ job.op = "consume" \/ job.msg # m => Puts(m)' = Puts(m)
           /\ Puts(m) = {} => Single(m)'
<1>1. /\ txq \in Seq(Job)
      /\ Len(txq') = Len(txq) + 1
      /\ \A i \in 1 .. Len(txq) : txq'[i] = txq[i]
      /\ txq'[Len(txq) + 1] = job
      /\ txq' \in Seq(Job)
  BY AppendProperties DEF PageOK
<1>2. /\ Len(txq) \in Nat /\ DOMAIN txq = 1 .. Len(txq)
      /\ DOMAIN txq' = 1 .. (Len(txq) + 1)
  BY <1>1, LenProperties
<1>3. \A i \in Puts(m)' : i \in Puts(m) \/ (i = Len(txq) + 1 /\ job.op # "consume" /\ job.msg = m)
  <2> SUFFICES ASSUME NEW i, i \in DOMAIN txq', txq'[i].op # "consume", txq'[i].msg = m
               PROVE  i \in Puts(m) \/ (i = Len(txq) + 1 /\ job.op # "consume" /\ job.msg = m)
    BY DEF Puts
  <2>1. CASE i = Len(txq) + 1
    BY <1>1, <2>1
  <2>2. CASE i # Len(txq) + 1
    <3>1. i \in 1 .. Len(txq)
      BY <1>2, <2>2
    <3> QED
      BY <1>1, <1>2, <3>1 DEF Puts
  <2> QED
    BY <2>1, <2>2
<1>4. Puts(m) \subseteq Puts(m)'
  BY <1>1, <1>2 DEF Puts
<1> QED
  BY <1>3, <1>4 DEF Single

LEMMA PutAccept ==
    ASSUME PageOK, LinkOK, PutInv, NEW f \in opening, Handed(f)
    PROVE  PutInv'
<1> DEFINE x == sent[f[1]][f[2]]
<1>1. x \in Msg
  BY DEF LinkOK, Handed
<1>2. /\ clock' = clock + 1 /\ txq' = Append(txq, Put(x, clock'))
      /\ count' = [count EXCEPT ![x] = @ + 1] /\ UNCHANGED inbox
  BY DEF Handed, Accept
<1> HIDE DEF x
<1>3. Put(x, clock') \in Job /\ Put(x, clock').msg = x
  BY <1>1, <1>2 DEF Put, Job, PageOK
<1>4. ASSUME NEW m \in Msg
      PROVE  /\ count'[m] = 0 => Puts(m)' = {} /\ inbox'[m] = Missing
             /\ count'[m] = 1 => Single(m)' /\ (inbox'[m] # Missing => Puts(m)' = {})
  <2>1. CASE m = x
    <3>1. count[m] \in Nat /\ count'[m] = count[m] + 1
      BY <1>1, <1>2, <2>1 DEF PageOK
    <3>2. ASSUME count'[m] = 1
          PROVE  Single(m)' /\ inbox'[m] = Missing
      <4>1. count[m] = 0
        BY <3>1, <3>2
      <4>2. Puts(m) = {} /\ inbox[m] = Missing
        BY <4>1 DEF PutInv
      <4>3. Single(m)'
        BY <1>2, <1>3, <4>2, Appended
      <4> QED
        BY <1>2, <4>2, <4>3
    <3> QED
      BY <3>1, <3>2
  <2>2. CASE m # x
    <3>1. count'[m] = count[m]
      BY <1>2, <2>2 DEF PageOK
    <3>2. Puts(m)' = Puts(m)
      BY <1>2, <1>3, <2>2, Appended
    <3>3. Single(m) => Single(m)'
      BY <3>2 DEF Single
    <3> QED
      BY <1>2, <3>1, <3>2, <3>3 DEF PutInv
  <2> QED
    BY <2>1, <2>2
<1> QED
  BY <1>4 DEF PutInv, Missing

LEMMA PutStep ==
    ASSUME LinkOK, PageOK, PutInv, [Next]_vars
    PROVE  PutInv'
<1>1. ASSUME UNCHANGED count,
             \A m \in Msg : inbox'[m] = inbox[m] \/ inbox'[m] = Missing,
             \A m \in Msg : Puts(m)' = Puts(m)
      PROVE  PutInv'
  BY <1>1 DEF PutInv, Single, Missing
<1>2. CASE UNCHANGED <<count, inbox, txq>>
  BY <1>1, <1>2 DEF Puts
<1>3. ASSUME NEW p \in Peer, NEW n \in DOMAIN sent[p], Opened(p, n)
      PROVE  PutInv'
  <2>1. CASE up /\ Accept(sent[p][n])
    <3>1. <<p, n>> \in opening /\ Handed(<<p, n>>)
      BY <1>3, <2>1 DEF Opened, Handed, links
    <3> QED
      BY <3>1, PutAccept
  <2>2. CASE UNCHANGED <<bits, lru, txq, clock, count, now>>
    BY <1>2, <1>3, <2>2 DEF Opened
  <2> QED
    BY <1>3, <2>1, <2>2 DEF Opened
<1>4. ASSUME NEW c \in Msg, Consume(c)
      PROVE  PutInv'
  <2> DEFINE job == [op |-> "consume", msg |-> c, at |-> 0, retry |-> FALSE]
  <2>1. job \in Job /\ job.op = "consume"
    BY DEF Job
  <2>2. txq' = Append(txq, job) /\ UNCHANGED <<count, inbox>>
    BY <1>4 DEF Consume
  <2> HIDE DEF job
  <2>3. \A m \in Msg : Puts(m)' = Puts(m)
    BY <2>1, <2>2, Appended
  <2> QED
    BY <1>1, <2>2, <2>3
<1>5. CASE (\E k \in 0 .. InboxCap : EvictExcess(k)) \/ (\E at \in 1 .. clock : EvictOlderThan(at))
  <2>1. /\ UNCHANGED <<count, txq>>
        /\ \A m \in Msg : inbox'[m] = inbox[m] \/ inbox'[m] = Missing
    BY <1>5 DEF EvictExcess, EvictOlderThan, Without, page
  <2> QED
    BY <1>1, <2>1 DEF Puts
<1>6. CASE Reload
  <2>1. txq' = <<>> /\ UNCHANGED <<inbox, count>>
    BY <1>6 DEF Reload
  <2>2. \A m \in Msg : Puts(m)' = {}
    BY <2>1 DEF Puts
  <2> QED
    BY <2>1, <2>2 DEF PutInv, Single, Missing
<1>7. CASE Boot \/ Flush \/ UNCHANGED vars
  BY <1>2, <1>7 DEF Boot, Flush, page, vars
<1>8. ASSUME NEW p \in Peer, Link(p)
      PROVE  PutInv'
  BY <1>2, <1>3, <1>8 DEF Link, Send, Chunk, ChunkLost, page
<1> QED
  BY <1>4, <1>5, <1>6, <1>7, <1>8, PutTransaction, PutQuota DEF Next

-----------------------------------------------------------------------------
(* The theorems *)

IInv == LinkOK /\ PageOK /\ BoxInv /\ OnceInv /\ LoadedInv /\ MarkedWasHanded /\ CleanInv /\ PutInv

LEMMA Invariant == Spec => []IInv
<1>1. Init => IInv
  <2>1. Init => CleanInv
    BY DEF Init, CleanInv, CleanOf
  <2> QED
    BY <2>1, InitTypes, InitBox, InitFilters, InitPuts DEF IInv
<1>2. IInv /\ [Next]_vars => IInv'
  BY LinkStep, PageStep, BoxStep, OnceStep, LoadedStep, MarkedStep, CleanStep, PutStep DEF IInv
<1> QED
  BY <1>1, <1>2, PTL DEF Spec

\* The variables keep their types (frame.ts, dedupe.ts, mailbox/inbox.ts).
THEOREM TypeCorrect == Spec => []TypeOK
<1>1. IInv => TypeOK
  BY TypesAreTypeOK DEF IInv
<1> QED
  BY <1>1, Invariant, PTL

\* The inbox never holds more entries than its cap (putBounded, sweeps and
\* retries after quota failures).
THEOREM Capped == Spec => []InboxBounded
<1>1. IInv => InboxBounded
  BY DEF IInv, BoxInv
<1> QED
  BY <1>1, Invariant, PTL

\* A page hands a message to the handler at most once (onIncoming's gate).
THEOREM Once == Spec => []OncePerLife
<1>1. IInv => OncePerLife
  BY DEF IInv, OnceInv, OncePerLife
<1> QED
  BY <1>1, Invariant, PTL

\* The bits of the filter, in memory and stored, are those of messages the
\* handler has had, hashed under the filter's own m and k (markSeen, open).
THEOREM MarksOfHanded == Spec => []MarkedWasHanded
<1>1. IInv => MarkedWasHanded
  BY DEF IInv
<1> QED
  BY <1>1, Invariant, PTL

\* A link that lost no chunk and carried one frame at a time yields only frames
\* that open, and its reassembler is in step (FrameReassembler).
THEOREM CleanLinks == Spec => []CleanLink
<1>1. IInv => CleanLink
  BY CleanInvIsClean DEF IInv
<1> QED
  BY <1>1, Invariant, PTL

\* A message whose mark is stored under the page's m and k is not handed on
\* again, and the mark stays until a page comes with other ones (BloomDedup.open).
THEOREM StoredMarkHolds == Spec => DurableDedup
<1>1. IInv /\ [Next]_vars =>
         [\A m \in Msg : Marked(m) => count'[m] = count[m] /\ (params' = params => Marked(m)')]_vars
  <2> SUFFICES ASSUME IInv, [Next]_vars, NEW m \in Msg, Marked(m)
               PROVE  count'[m] = count[m] /\ (params' = params => Marked(m)')
    OBVIOUS
  <2>1. ASSUME NEW f \in opening, Handed(f)
        PROVE  count'[m] = count[m] /\ Marked(m)'
    <3> DEFINE x == sent[f[1]][f[2]]
    <3>1. /\ ~(Probes(x) \subseteq bits) /\ count' = [count EXCEPT ![x] = @ + 1] /\ up
          /\ UNCHANGED <<disk, params>>
      BY <2>1 DEF Handed, Accept, Dropped, HasSeen
    <3> HIDE DEF x
    <3>2. disk.bits \subseteq bits
      BY <3>1 DEF IInv, LoadedInv, Marked
    <3>3. m # x
      BY <3>1, <3>2 DEF Marked
    <3> QED
      BY <3>1, <3>3 DEF IInv, PageOK, Marked, Probes
  <2>2. CASE Flush
    <3>1. /\ disk' = [params |-> params, bits |-> bits]
          /\ UNCHANGED <<params, bits, count>> /\ up
      BY <2>2 DEF Flush, page
    <3>2. disk.bits \subseteq bits
      BY <3>1 DEF IInv, LoadedInv, Marked
    <3> QED
      BY <3>1, <3>2 DEF Marked, Probes
  <2>3. CASE Boot \/ Reload
    BY <2>3 DEF Boot, Reload, Marked, Probes
  <2>4. CASE UNCHANGED Filters
    BY <2>4 DEF Filters, Marked, Probes
  <2> QED
    BY <2>1, <2>2, <2>3, <2>4, Steps
<1> QED
  BY <1>1, Invariant, PTL DEF Spec, DurableDedup

\* The entry of a message that was handed on once stays consumed until it is
\* evicted, whatever puts were retried (markConsumed, putBounded).
THEOREM ConsumedForGood == Spec => ConsumedStays
<1>1. IInv /\ [Next]_vars =>
         [\A m \in Msg : count[m] = 1 /\ inbox[m].consumed => inbox'[m] = Missing \/ inbox'[m].consumed]_vars
  <2> SUFFICES ASSUME IInv, [Next]_vars, NEW m \in Msg, count[m] = 1, inbox[m].consumed
               PROVE  inbox'[m] = Missing \/ inbox'[m].consumed
    BY DEF IInv
  <2>1. inbox[m] # Missing /\ Puts(m) = {}
    BY DEF Missing, IInv, PutInv
  <2>2. CASE Transaction
    <3> DEFINE h == Head(txq)
    <3>1. h \in Job /\ 1 \in DOMAIN txq /\ txq[1] = h /\ inbox' = Commit(h) /\ inbox \in Box
      BY <2>2 DEF IInv, PageOK, Transaction, Box
    <3> HIDE DEF h
    <3>2. ~(h.op = "put" /\ h.msg = m)
      BY <2>1, <3>1 DEF Puts
    <3>3. [inbox[m] EXCEPT !.consumed = TRUE].consumed
      BY <3>1 DEF Box
    <3> QED
      BY <3>1, <3>2, <3>3, CommitEntry
  <2>3. CASE (\E k \in 0 .. InboxCap : EvictExcess(k)) \/ (\E at \in 1 .. clock : EvictOlderThan(at))
    BY <2>3 DEF EvictExcess, EvictOlderThan, Without
  <2>4. CASE UNCHANGED inbox
    BY <2>4
  <2>5. ASSUME NEW p \in Peer, Link(p)
        PROVE  UNCHANGED inbox
    BY <2>5 DEF Link, Send, Chunk, ChunkLost, Opened
  <2>6. CASE \/ \E c \in Msg : Consume(c)
             \/ QuotaExceeded \/ Boot \/ Flush \/ Reload \/ UNCHANGED vars
    BY <2>4, <2>6 DEF Consume, QuotaExceeded, Boot, Flush, Reload, vars
  <2> QED
    BY <2>2, <2>3, <2>4, <2>5, <2>6 DEF Next
<1> QED
  BY <1>1, Invariant, PTL DEF Spec, ConsumedStays

=============================================================================
