------------------------------- MODULE Delivery -------------------------------
(***************************************************************************)
(* The way of a message from a peer's sendFrame() to the application:      *)
(* chunks over a lossy link, the reassembler of the device (frame.ts), the *)
(* decrypt, the two duplicate filters (mailbox/dedup-bloom.ts, dedupe.ts), *)
(* the bounded inbox in IndexedDB (mailbox/inbox.ts) and the handler, as   *)
(* transport.ts and router.ts put them together; one page, which may be    *)
(* reloaded at any moment.                                                 *)
(*                                                                         *)
(* Sessions are up and accepted.  Frame n of a peer is the nth it encrypts *)
(* (0 is none), and it opens only if its chunks are all its own.           *)
(***************************************************************************)
EXTENDS Naturals, Sequences, FiniteSets

CONSTANTS
    Peer,           \* device addresses with an accepted session
    Msg,            \* message ids
    Parts,          \* chunks a message takes at the link's MTU
    Hash,           \* the bits a message id sets in the Bloom filter, under the
                    \* m and k of each build; the first page is of build 1
    LruCap,         \* DedupeCacheOptions.capacity
    InboxCap,       \* MESH_INBOX_MAX_ENTRIES
    QuotaEvict,     \* max(1, floor(maxEntries * QUOTA_EVICT_FRACTION))
    MaxSends,       \* frames sent in all
    MaxOut,         \* sendFrame() calls a peer has in progress
    MaxReloads,     \* reloads in all
    MaxQuota        \* transactions that fail on the quota in all

MaxParts == 16

ASSUME DeliveryAssumption ==
    /\ Parts \in [Msg -> 1 .. MaxParts]
    /\ 1 \in DOMAIN Hash /\ \A c \in DOMAIN Hash : DOMAIN Hash[c] = Msg
    /\ LruCap \in Nat \ {0}
    /\ InboxCap \in Nat \ {0}
    /\ QuotaEvict \in Nat \ {0}
    /\ MaxSends \in Nat /\ MaxOut \in Nat /\ MaxReloads \in Nat /\ MaxQuota \in Nat

VARIABLES
    sent,       \* the messages of the frames each peer has begun to send
    out,        \* frames being written: their number and next chunk
    asm,        \* FrameReassembler of each device
    lossy,      \* links on which a chunk was lost or two sends overlapped
    broken,     \* links on which a reassembled frame did not open
    opening,    \* frames being decrypted
    up,         \* the page has opened its stores and subscribed
    params,     \* the build this page is of, for its BloomDedup.m and k
    bits,       \* BloomDedup.bits
    lru,        \* DedupeCache.seen, the oldest first
    disk,       \* the stored row of the Bloom filter: its m and k and its bits
    txq,        \* the inbox's transactions, in the order they were created
    inbox,      \* the stored entries
    clock,      \* receivedAtMs of the last frame handed on
    count,      \* how often each message was handed to the handler
    now,        \* how often by the page that is up
    lives,      \* pages so far
    quota       \* quota failures so far

links == <<sent, out, asm, lossy, broken>>
page  == <<up, params, bits, lru, txq>>
vars  == <<links, opening, page, disk, inbox, clock, count, now, lives, quota>>

-----------------------------------------------------------------------------
\* Helpers of the code.

Empty   == [total |-> 0, slots |-> <<>>]
Missing == [at |-> 0, consumed |-> FALSE]

Total(p, n) == Parts[sent[p][n]]

\* FrameReassembler.pushWithType, in three parts: what a chunk that fits
\* leaves in the slots, when the frame is complete, and which chunks do not fit.
Pushed(r, n, seq, total) ==
    [total |-> total,
     slots |-> [s \in DOMAIN r.slots \cup {seq} |-> IF s \in DOMAIN r.slots THEN r.slots[s] ELSE n]]

FullLate(r)  == Cardinality(DOMAIN r.slots) > r.total
FullEarly(r) == Cardinality(DOMAIN r.slots) + 1 >= r.total
Full(r)      == Cardinality(DOMAIN r.slots) = r.total

Fits(r, total) == r.total \in {0, total}

\* AES-GCM: the ciphertext opens if it is that of one frame.
Whole(r) == \A s, u \in DOMAIN r.slots : r.slots[s] = r.slots[u]

\* BloomDedup: the probes of an id, the test and the mark.
Probes(m)  == Hash[params][m]
HasSeen(m) == Probes(m) \subseteq bits

MarkSeenNever(m) == bits
MarkSeen(m)      == bits \cup Probes(m)

\* DedupeCache.markSeen, for an id that is not there.
LruMarked(m) == Append(IF Len(lru) >= LruCap THEN Tail(lru) ELSE lru, m)
InLru(m)     == \E i \in DOMAIN lru : lru[i] = m

\* Inbox: the k entries with the lowest receivedAtMs.
Stored(box)  == {m \in Msg : box[m] # Missing}
Oldest(box, k) == {m \in Stored(box) : Cardinality({x \in Stored(box) : box[x].at < box[m].at}) < k}
Without(box, gone) == [m \in Msg |-> IF m \in gone THEN Missing ELSE box[m]]

-----------------------------------------------------------------------------
Init ==
    /\ sent = [p \in Peer |-> <<>>]
    /\ out = [p \in Peer |-> {}]
    /\ asm = [p \in Peer |-> Empty]
    /\ lossy = [p \in Peer |-> FALSE]
    /\ broken = [p \in Peer |-> FALSE]
    /\ opening = {}
    /\ up = FALSE
    /\ params = 1
    /\ bits = {}
    /\ lru = <<>>
    /\ disk = [params |-> 1, bits |-> {}]
    /\ txq = <<>>
    /\ inbox = [m \in Msg |-> Missing]
    /\ clock = 0
    /\ count = [m \in Msg |-> 0]
    /\ now = [m \in Msg |-> 0]
    /\ lives = 1
    /\ quota = 0

Sends == {f \in Peer \X (1 .. MaxSends) : f[2] <= Len(sent[f[1]])}

\* sendFrame: the message is encrypted, and its chunks written one by one;
\* nothing keeps a second call from writing in between.
Send(p, m) ==
    /\ Cardinality(Sends) < MaxSends
    /\ Cardinality(out[p]) < MaxOut
    /\ sent' = [sent EXCEPT ![p] = Append(@, m)]
    /\ out' = [out EXCEPT ![p] = @ \cup {[n |-> Len(sent'[p]), seq |-> 0]}]
    /\ lossy' = [lossy EXCEPT ![p] = @ \/ out[p] # {}]
    /\ UNCHANGED <<asm, broken, opening, page, disk, inbox, clock, count, now, lives, quota>>

\* The write of the next chunk of frame o.n, after which the call goes on.
Wrote(p, o) ==
    out' = [out EXCEPT ![p] = (@ \ {o}) \cup
               (IF o.seq + 1 < Total(p, o.n) THEN {[o EXCEPT !.seq = @ + 1]} ELSE {})]

ChunkLost(p, o) ==
    /\ o \in out[p]
    /\ Wrote(p, o)
    /\ lossy' = [lossy EXCEPT ![p] = TRUE]
    /\ UNCHANGED <<sent, asm, broken, opening, page, disk, inbox, clock, count, now, lives, quota>>

\* handleIncomingChunk: a chunk that does not fit costs the reassembler; a
\* complete frame goes to decrypt(), which the next chunk does not wait for.
Chunk(p, o) ==
    LET r == Pushed(asm[p], o.n, o.seq, Total(p, o.n))
    IN /\ o \in out[p]
       /\ Wrote(p, o)
       /\ IF ~Fits(asm[p], Total(p, o.n))
          THEN /\ asm' = [asm EXCEPT ![p] = Empty]
               /\ UNCHANGED <<broken, opening>>
          ELSE IF ~Full(r)
          THEN /\ asm' = [asm EXCEPT ![p] = r]
               /\ UNCHANGED <<broken, opening>>
          ELSE /\ asm' = [asm EXCEPT ![p] = Empty]
               /\ broken' = [broken EXCEPT ![p] = @ \/ ~Whole(r)]
               /\ opening' = IF Whole(r) THEN opening \cup {<<p, r.slots[0]>>} ELSE opening
       /\ UNCHANGED <<sent, lossy, page, disk, inbox, clock, count, now, lives, quota>>

-----------------------------------------------------------------------------
\* The decrypt returns, and onIncoming's gate runs to its end at once: the
\* frame is marked in both filters, its put is asked for, and it is handed on.

Dropped(m) == HasSeen(m) \/ InLru(m)

Put(m, at) == [op |-> "put", msg |-> m, at |-> at, retry |-> FALSE]

Accept(m) ==
    /\ ~Dropped(m)
    /\ bits' = MarkSeen(m)
    /\ lru' = LruMarked(m)
    /\ clock' = clock + 1
    /\ txq' = Append(txq, Put(m, clock'))
    /\ count' = [count EXCEPT ![m] = @ + 1]
    /\ now' = [now EXCEPT ![m] = @ + 1]

Opened(p, n) ==
    /\ <<p, n>> \in opening
    /\ opening' = opening \ {<<p, n>>}
    /\ \/ up /\ Accept(sent[p][n])
       \/ /\ up => Dropped(sent[p][n])
          /\ UNCHANGED <<bits, lru, txq, clock, count, now>>
    /\ UNCHANGED <<links, up, params, disk, inbox, lives, quota>>

-----------------------------------------------------------------------------
\* The inbox.  Transactions that write run one after the other, in the order
\* they were created.

\* markConsumed(), by the application that was handed the message once.
Consume(m) ==
    /\ up
    /\ count[m] > 0
    /\ \A i \in DOMAIN txq : txq[i].op # "consume"
    /\ txq' = Append(txq, [op |-> "consume", msg |-> m, at |-> 0, retry |-> FALSE])
    /\ UNCHANGED <<links, opening, up, params, bits, lru, disk, inbox, clock, count, now, lives, quota>>

RoomLate(box) == IF Cardinality(Stored(box)) > InboxCap
                 THEN Without(box, Oldest(box, Cardinality(Stored(box)) - InboxCap)) ELSE box

\* putBounded: count, evict the oldest at the cap, put, in one transaction.
Room(box) == IF Cardinality(Stored(box)) >= InboxCap
             THEN Without(box, Oldest(box, (Cardinality(Stored(box)) - InboxCap) + 1)) ELSE box

Commit(job) ==
    CASE job.op = "put"     -> [Room(inbox) EXCEPT ![job.msg] = [at |-> job.at, consumed |-> FALSE]]
      [] job.op = "evict"   -> Without(inbox, Oldest(inbox, QuotaEvict))
      [] job.op = "consume" -> IF inbox[job.msg] = Missing THEN inbox
                               ELSE [inbox EXCEPT ![job.msg].consumed = TRUE]

\* The aggressive eviction is followed by the put it makes room for.
After(job) == IF job.op = "evict" THEN <<[job EXCEPT !.op = "put", !.retry = TRUE]>> ELSE <<>>

Transaction ==
    /\ txq # <<>>
    /\ inbox' = Commit(Head(txq))
    /\ txq' = Tail(txq) \o After(Head(txq))
    /\ UNCHANGED <<links, opening, up, params, bits, lru, disk, clock, count, now, lives, quota>>

QuotaExceededTwice ==
    /\ txq # <<>>
    /\ Head(txq).op # "evict"
    /\ quota < MaxQuota
    /\ quota' = quota + 1
    /\ txq' = Tail(txq) \o (IF Head(txq).op = "put" /\ ~Head(txq).retry
                            THEN <<[Head(txq) EXCEPT !.op = "evict"], [Head(txq) EXCEPT !.op = "evict"]>>
                            ELSE <<>>)
    /\ UNCHANGED <<links, opening, up, params, bits, lru, disk, inbox, clock, count, now, lives>>

\* A transaction that the quota aborts changes nothing; a first put is tried
\* once more after an eviction.
QuotaExceeded ==
    /\ txq # <<>>
    /\ Head(txq).op # "evict"
    /\ quota < MaxQuota
    /\ quota' = quota + 1
    /\ txq' = Tail(txq) \o (IF Head(txq).op = "put" /\ ~Head(txq).retry
                            THEN <<[Head(txq) EXCEPT !.op = "evict"]>> ELSE <<>>)
    /\ UNCHANGED <<links, opening, up, params, bits, lru, disk, inbox, clock, count, now, lives>>

\* evictExcess and evictOlderThan, which the application's sweep calls.
EvictExcess(k) ==
    /\ up
    /\ Cardinality(Stored(inbox)) > k
    /\ inbox' = Without(inbox, Oldest(inbox, Cardinality(Stored(inbox)) - k))
    /\ UNCHANGED <<links, opening, page, disk, clock, count, now, lives, quota>>

EvictOlderThan(cutoff) ==
    /\ up
    /\ inbox' = Without(inbox, {m \in Stored(inbox) : inbox[m].at <= cutoff})
    /\ UNCHANGED <<links, opening, page, disk, clock, count, now, lives, quota>>

-----------------------------------------------------------------------------
\* The page: BloomDedup.open and the subscription; BloomDedup.flush; a reload,
\* after which peers connect anew.

BootFresh ==
    /\ ~up
    /\ up' = TRUE
    /\ bits' = {}
    /\ UNCHANGED <<links, opening, params, lru, txq, disk, inbox, clock, count, now, lives, quota>>

BootAnyParams ==
    /\ ~up
    /\ up' = TRUE
    /\ bits' = disk.bits
    /\ UNCHANGED <<links, opening, params, lru, txq, disk, inbox, clock, count, now, lives, quota>>

\* Bits stored under another m or k cannot be re-mapped: they are discarded.
Boot ==
    /\ ~up
    /\ up' = TRUE
    /\ bits' = IF disk.params = params THEN disk.bits ELSE {}
    /\ UNCHANGED <<links, opening, params, lru, txq, disk, inbox, clock, count, now, lives, quota>>

Flush ==
    /\ up
    /\ disk' = [params |-> params, bits |-> bits]
    /\ UNCHANGED <<links, opening, page, inbox, clock, count, now, lives, quota>>

\* The page that comes may be of another build.
Reload ==
    /\ lives <= MaxReloads
    /\ lives' = lives + 1
    /\ up' = FALSE
    /\ params' \in DOMAIN Hash
    /\ bits' = {}
    /\ lru' = <<>>
    /\ txq' = <<>>
    /\ now' = [m \in Msg |-> 0]
    /\ opening' = {}
    /\ out' = [p \in Peer |-> {}]
    /\ asm' = [p \in Peer |-> Empty]
    /\ lossy' = [p \in Peer |-> FALSE]
    /\ broken' = [p \in Peer |-> FALSE]
    /\ UNCHANGED <<sent, disk, inbox, clock, count, quota>>

Link(p) == \/ \E m \in Msg : Send(p, m)
           \/ \E o \in out[p] : Chunk(p, o) \/ ChunkLost(p, o)
           \/ \E n \in DOMAIN sent[p] : Opened(p, n)

Next == \/ \E p \in Peer : Link(p)
        \/ \E m \in Msg : Consume(m)
        \/ Transaction \/ QuotaExceeded
        \/ \E k \in 0 .. InboxCap : EvictExcess(k)
        \/ \E at \in 1 .. clock : EvictOlderThan(at)
        \/ Boot \/ Flush \/ Reload

Spec == Init /\ [][Next]_vars

-----------------------------------------------------------------------------
Frame == Nat \ {0}
Job   == [op : {"put", "evict", "consume"}, msg : Msg, at : Nat, retry : BOOLEAN]

\* A frame of which some chunks are there and some are missing.
Partial(p, r) ==
    /\ r.total \in 1 .. MaxParts
    /\ DOMAIN r.slots \subseteq 0 .. (r.total - 1)
    /\ Cardinality(DOMAIN r.slots) \in 1 .. (r.total - 1)
    /\ \A s \in DOMAIN r.slots : r.slots[s] \in DOMAIN sent[p]

\* The variables keep their types; a reassembler holds fewer chunks than it
\* waits for, and no more sends of a peer are open than were begun.
TypeOK ==
    /\ sent \in [Peer -> Seq(Msg)]
    /\ out \in [Peer -> SUBSET [n : Frame, seq : Nat]]
    /\ \A p \in Peer : \A o \in out[p] : o.n \in DOMAIN sent[p] /\ o.seq < Total(p, o.n)
    /\ DOMAIN asm = Peer
    /\ \A p \in Peer : asm[p] = Empty \/ Partial(p, asm[p])
    /\ lossy \in [Peer -> BOOLEAN] /\ broken \in [Peer -> BOOLEAN]
    /\ \A f \in opening : f[1] \in Peer /\ f[2] \in DOMAIN sent[f[1]]
    /\ up \in BOOLEAN
    /\ params \in DOMAIN Hash /\ disk.params \in DOMAIN Hash
    /\ lru \in Seq(Msg) /\ Len(lru) <= LruCap
    /\ txq \in Seq(Job)
    /\ inbox \in [Msg -> [at : Nat, consumed : BOOLEAN]]
    /\ count \in [Msg -> Nat] /\ now \in [Msg -> Nat]
    /\ clock \in Nat /\ lives \in Nat /\ quota \in Nat

\* The cap holds after every transaction, whatever puts, retries after a
\* quota failure, sweeps and reloads ran in between (putBounded).
InboxBounded == Cardinality(Stored(inbox)) <= InboxCap

\* A message reaches the handler at most once in the life of a page, from
\* however many peers, also when the LRU cache has forgotten it (onIncoming).
OncePerLife == \A m \in Msg : now[m] <= 1

\* What the filter drops unseen it drops for a collision of its hashes alone
\* ("false positives": dedup-bloom.ts:7): each bit that is set, in memory or
\* stored, is one that a message the handler has had sets under the same m and
\* k, and no bit of another setting survives (open, markSeen, flush).
BitsHanded(c) == UNION {Hash[c][m] : m \in {x \in Msg : count[x] > 0}}
MarkedWasHanded == bits \subseteq BitsHanded(params) /\ disk.bits \subseteq BitsHanded(disk.params)

\* A link on which no chunk was lost and no two sendFrame() calls overlapped
\* never yields a frame that does not open, and its reassembler holds what was
\* written of the frame in progress (FrameReassembler).
CleanLink ==
    \A p \in Peer : ~lossy[p] =>
        /\ ~broken[p]
        /\ asm[p] = IF \E o \in out[p] : o.seq > 0
                    THEN LET o == CHOOSE x \in out[p] : TRUE
                         IN [total |-> Total(p, o.n), slots |-> [s \in 0 .. (o.seq - 1) |-> o.n]]
                    ELSE Empty

\* "Durable dedup across page reloads": once a mark was flushed, no page hands
\* the message over again, and the mark stays stored, as long as none comes with
\* another m or k (BloomDedup.open, hasSeen, flush).
Marked(m) == disk.params = params /\ Probes(m) \subseteq disk.bits
DurableDedup ==
    [][\A m \in Msg : Marked(m) => count'[m] = count[m] /\ (params' = params => Marked(m)')]_vars

\* The entry of a message that was handed over once is not presented again
\* after the application has consumed it, retried puts included (markConsumed).
ConsumedStays ==
    [][\A m \in Msg :
          count[m] = 1 /\ inbox[m].consumed => inbox'[m] = Missing \/ inbox'[m].consumed]_vars

=============================================================================
