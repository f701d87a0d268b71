------------------------------- MODULE Outbox -------------------------------
(***************************************************************************)
(* The queue of bundles that could not be sent (outbox.ts), which          *)
(* routeOutgoing() fills, and its drainer (outbox-drainer.ts), which       *)
(* offers the entries to the relay after an 'online' event.                *)
(*                                                                         *)
(* The queue is an object store of IndexedDB and outlives the page; every  *)
(* method of Outbox is one transaction on it and so one action.  The pages *)
(* that have it open share it, each with a drainer and an in-flight flag   *)
(* of its own.  A run of drain() suspends in nextPending(), in the request *)
(* to the relay and in markSent() or markFailed().                         *)
(***************************************************************************)
EXTENDS Integers, FiniteSets

CONSTANTS
    Msg,                  \* message ids, as numbers in the order of the keys
    Page,                 \* pages with the queue open
    Drain,                \* runs of drain() there may be together
    maxEntries,           \* 5000 in the code
    MAX_OUTBOX_ATTEMPTS,  \* 8 in the code
    MAX_DRAIN_PER_CYCLE,  \* 50 in the code
    MaxEnqueues,          \* bound: calls of enqueue()
    MaxFaults,            \* bound: reloads and failing transactions
    MaxTime,              \* bound: clock readings
    None

ASSUME OutboxAssumption ==
    /\ Msg \subseteq Nat
    /\ IsFiniteSet(Msg)
    /\ IsFiniteSet(Drain)
    /\ None \notin Page \cup Msg
    /\ maxEntries \in Nat \ {0}
    /\ MAX_OUTBOX_ATTEMPTS \in Nat \ {0}
    /\ MAX_DRAIN_PER_CYCLE \in Nat \ {0}
    /\ MaxEnqueues \in Nat
    /\ MaxFaults \in Nat
    /\ MaxTime \in Nat \ {0}

VARIABLES
    store,      \* the object store: an entry or None under each message id
    online,     \* whether the network is there
    event,      \* pages with an 'online' event to handle
    draining,   \* the drainers' in-flight flags
    drain,      \* the runs of drain()
    relayed,    \* messages the relay has
    refused,    \* how often the relay's answer for a message was no success,
                \* counted up to MAX_OUTBOX_ATTEMPTS
    now,        \* Date.now()
    enqueues,   \* calls of enqueue() so far
    faults      \* faults so far

network == <<online, event>>
budget  == <<now, enqueues, faults>>
vars == <<store, network, draining, drain, relayed, refused, budget>>

Entry == [attempts : Nat, last : 0 .. MaxTime, status : {"pending", "sent", "failed"}]
NoEntry == [attempts |-> 0, last |-> 0, status |-> "absent"]
Idle  == [pc |-> "idle", page |-> None, msg |-> None, drained |-> 0]
Run   == [pc : {"next", "send", "sent", "failed"}, page : Page,
          msg : Msg \cup {None}, drained : 0 .. MAX_DRAIN_PER_CYCLE]

TypeOK ==
    /\ store \in [Msg -> Entry \cup {NoEntry}]
    /\ online \in BOOLEAN
    /\ event \subseteq Page
    /\ draining \in [Page -> BOOLEAN]
    /\ drain \in [Drain -> Run \cup {Idle}]
    /\ \A r \in Drain : drain[r].pc \in {"send", "sent", "failed"} => drain[r].msg \in Msg
    /\ relayed \subseteq Msg
    /\ refused \in [Msg -> 0 .. MAX_OUTBOX_ATTEMPTS]
    /\ now \in 1 .. MaxTime
    /\ enqueues \in 0 .. MaxEnqueues
    /\ faults \in 0 .. MaxFaults

-----------------------------------------------------------------------------
(* Helpers *)

Stored == {m \in Msg : store[m] # NoEntry}
Has(status) == {m \in Msg : store[m].status = status}

\* The order of the index on lastAttemptMs; equal keys go by message id.
Before(m, n) == \/ store[m].last < store[n].last
                \/ store[m].last = store[n].last /\ m < n

EvictedLate ==
    {m \in Stored : Cardinality({n \in Stored : Before(n, m)})
                        < Cardinality(Stored) - maxEntries}

\* What enqueue() deletes to make room; entries never tried come first.
Evicted ==
    {m \in Stored : Cardinality({n \in Stored : Before(n, m)})
                        < Cardinality(Stored) - maxEntries + 1}

TerminalEarly(attempts) == attempts >= MAX_OUTBOX_ATTEMPTS - 1

Terminal(attempts) == attempts >= MAX_OUTBOX_ATTEMPTS

Failed(e) == [attempts |-> e.attempts + 1, last |-> now,
              status |-> IF Terminal(e.attempts + 1) THEN "failed" ELSE "pending"]

\* The first pending entry in the order of the keys.
IsNextPending(m) == m \in Has("pending") /\ \A n \in Has("pending") : m <= n

Goes(r, pc) == drain' = [drain EXCEPT ![r].pc = pc]

FinishesFlagged(r) ==
    /\ drain' = [drain EXCEPT ![r] = Idle]
    /\ UNCHANGED draining

\* drain() ends; its finally block clears the flag.
Finishes(r) ==
    /\ drain' = [drain EXCEPT ![r] = Idle]
    /\ draining' = [draining EXCEPT ![drain[r].page] = FALSE]

-----------------------------------------------------------------------------
(* Outbox *)

\* routeOutgoing() finds neither the network nor a peer.  A message may be
\* queued again, which starts it afresh.
Enqueue(m) ==
    /\ enqueues < MaxEnqueues
    /\ enqueues' = enqueues + 1
    /\ store' = [n \in Msg |->
                   IF n = m THEN [attempts |-> 0, last |-> 0, status |-> "pending"]
                   ELSE IF n \in Evicted THEN NoEntry ELSE store[n]]
    /\ UNCHANGED <<network, draining, drain, relayed, refused, now, faults>>

ClearFailed ==
    /\ Has("failed") # {}
    /\ store' = [m \in Msg |-> IF m \in Has("failed") THEN NoEntry ELSE store[m]]
    /\ UNCHANGED <<network, draining, drain, relayed, refused, budget>>

\* Entries that were tried, but not lately, go; whatever their status.
EvictOlderThan(cutoff) ==
    /\ store' = [m \in Msg |-> IF store[m].last \in 1 .. cutoff THEN NoEntry ELSE store[m]]
    /\ UNCHANGED <<network, draining, drain, relayed, refused, budget>>

Tick ==
    /\ now < MaxTime
    /\ now' = now + 1
    /\ UNCHANGED <<store, network, draining, drain, relayed, refused, enqueues, faults>>

-----------------------------------------------------------------------------
(* The network and the 'online' event *)

GoOffline ==
    /\ online
    /\ online' = FALSE
    /\ UNCHANGED <<store, event, draining, drain, relayed, refused, budget>>

GoOnline ==
    /\ ~online
    /\ online' = TRUE
    /\ event' = Page
    /\ UNCHANGED <<store, draining, drain, relayed, refused, budget>>

OnlineEventUnguarded(p) ==
    /\ p \in event
    /\ event' = event \ {p}
    /\ \E r \in Drain :
         /\ drain[r] = Idle
         /\ drain' = [drain EXCEPT ![r] =
                        [pc |-> "next", page |-> p, msg |-> None, drained |-> 0]]
         /\ draining' = [draining EXCEPT ![p] = TRUE]
    /\ UNCHANGED <<store, online, relayed, refused, budget>>

\* A page that still drains drops the event.
OnlineEvent(p) ==
    /\ p \in event
    /\ event' = event \ {p}
    /\ IF draining[p]
       THEN UNCHANGED <<draining, drain>>
       ELSE \E r \in Drain :
              /\ drain[r] = Idle
              /\ drain' = [drain EXCEPT ![r] =
                             [pc |-> "next", page |-> p, msg |-> None, drained |-> 0]]
              /\ draining' = [draining EXCEPT ![p] = TRUE]
    /\ UNCHANGED <<store, online, relayed, refused, budget>>

-----------------------------------------------------------------------------
(* drain() *)

TakeNextUncapped(r) ==
    /\ drain[r].pc = "next"
    /\ drain[r].drained <= MAX_DRAIN_PER_CYCLE
    /\ \E m \in Msg :
         /\ IsNextPending(m)
         /\ drain' = [drain EXCEPT ![r].pc = "send", ![r].msg = m]
    /\ UNCHANGED <<store, network, draining, relayed, refused, budget>>

\* nextPending() returns an entry and bridgeSend() is called with it.
TakeNext(r) ==
    /\ drain[r].pc = "next"
    /\ drain[r].drained < MAX_DRAIN_PER_CYCLE
    /\ \E m \in Msg :
         /\ IsNextPending(m)
         /\ drain' = [drain EXCEPT ![r].pc = "send", ![r].msg = m]
    /\ UNCHANGED <<store, network, draining, relayed, refused, budget>>

\* Nothing is pending, or the cycle's quota is used up.
DrainEnds(r) ==
    /\ drain[r].pc = "next"
    /\ drain[r].drained = MAX_DRAIN_PER_CYCLE \/ Has("pending") = {}
    /\ Finishes(r)
    /\ UNCHANGED <<store, network, relayed, refused, budget>>

AnswerOkUnread(r) ==
    /\ drain[r].pc = "send"
    /\ relayed' \in {relayed, relayed \cup {drain[r].msg}}
    /\ Goes(r, "sent")
    /\ UNCHANGED <<store, network, draining, refused, budget>>

\* The relay took the message and its answer arrives.  A 2xx answer, which is
\* all bridgeSend() asks for, is taken to be the relay's.
AnswerOk(r) ==
    /\ drain[r].pc = "send"
    /\ relayed' = relayed \cup {drain[r].msg}
    /\ Goes(r, "sent")
    /\ UNCHANGED <<store, network, draining, refused, budget>>

\* The relay refuses, or its answer is lost whether or not it has the message.
AnswerNotOk(r) ==
    /\ drain[r].pc = "send"
    /\ relayed' \in {relayed, relayed \cup {drain[r].msg}}
    /\ refused' = [refused EXCEPT ![drain[r].msg] =
                    IF @ < MAX_OUTBOX_ATTEMPTS THEN @ + 1 ELSE @]
    /\ Goes(r, "failed")
    /\ UNCHANGED <<store, network, draining, budget>>

\* An entry that is gone by now is left gone.
MarkSent(r) ==
    LET m == drain[r].msg
    IN  /\ drain[r].pc = "sent"
        /\ store' = [store EXCEPT ![m] = IF @ = NoEntry THEN @
                                         ELSE [@ EXCEPT !.status = "sent"]]
        /\ drain' = [drain EXCEPT ![r].pc = "next", ![r].msg = None, ![r].drained = @ + 1]
        /\ UNCHANGED <<network, draining, relayed, refused, budget>>

\* Also an entry another page has marked sent meanwhile goes back to pending.
MarkFailed(r) ==
    LET m == drain[r].msg
    IN  /\ drain[r].pc = "failed"
        /\ store' = [store EXCEPT ![m] = IF @ = NoEntry THEN @ ELSE Failed(@)]
        /\ Finishes(r)
        /\ UNCHANGED <<network, relayed, refused, budget>>

-----------------------------------------------------------------------------
(* Faults *)

\* A transaction fails or bridgeSend() throws: drain() leaves through its
\* catch and finally blocks.  The relay may have the message.
Throws(r) ==
    /\ faults < MaxFaults
    /\ faults' = faults + 1
    /\ drain[r] # Idle
    /\ relayed' \in {relayed} \cup IF drain[r].pc = "send"
                                   THEN {relayed \cup {drain[r].msg}} ELSE {}
    /\ Finishes(r)
    /\ UNCHANGED <<store, network, refused, now, enqueues>>

\* The page is reloaded; a request under way may still reach the relay.
Reload(p) ==
    /\ faults < MaxFaults
    /\ faults' = faults + 1
    /\ relayed' \in {relayed, relayed \cup {m \in Msg : \E r \in Drain :
                        drain[r].page = p /\ drain[r].pc = "send" /\ drain[r].msg = m}}
    /\ drain' = [r \in Drain |-> IF drain[r].page = p THEN Idle ELSE drain[r]]
    /\ draining' = [draining EXCEPT ![p] = FALSE]
    /\ event' = event \ {p}
    /\ UNCHANGED <<store, online, refused, now, enqueues>>

-----------------------------------------------------------------------------

Init ==
    /\ store = [m \in Msg |-> NoEntry]
    /\ online \in BOOLEAN
    /\ event = {}
    /\ draining = [p \in Page |-> FALSE]
    /\ drain = [r \in Drain |-> Idle]
    /\ relayed = {}
    /\ refused = [m \in Msg |-> 0]
    /\ now = 1
    /\ enqueues = 0
    /\ faults = 0

Step(r) == TakeNext(r) \/ DrainEnds(r) \/ AnswerOk(r) \/ AnswerNotOk(r) \/ MarkSent(r) \/ MarkFailed(r)

Next ==
    \/ \E m \in Msg : Enqueue(m)
    \/ ClearFailed \/ Tick \/ GoOffline \/ GoOnline
    \/ \E cutoff \in 1 .. now : EvictOlderThan(cutoff)
    \/ \E p \in Page : OnlineEvent(p) \/ Reload(p)
    \/ \E r \in Drain : Step(r) \/ Throws(r)

\* Events are dispatched, transactions end, and a request is answered or
\* fails: fetch() returns.
Fairness ==
    /\ \A p \in Page : WF_vars(OnlineEvent(p))
    /\ \A r \in Drain : WF_vars(Step(r))

Spec == Init /\ [][Next]_vars /\ Fairness

-----------------------------------------------------------------------------
(* Properties *)

\* S6: the queue never holds more than maxEntries, however many pages enqueue
\* (the count, the evictions and the put are one transaction).
Bounded == Cardinality(Stored) <= maxEntries

\* No message is taken for sent that the relay does not have: not after a lost
\* answer, a reload, a failing transaction, or a mark that arrives late, after
\* its entry was evicted and queued again.
SentWasRelayed == Has("sent") \subseteq relayed

\* No message is given up before the relay has failed it
\* MAX_OUTBOX_ATTEMPTS times, also when several pages count its failures.
GivenUpLate == \A m \in Has("failed") : refused[m] >= MAX_OUTBOX_ATTEMPTS

\* B2: a page's flag is set exactly while one drain() of it runs: two never
\* run together and send one entry twice, and none leaves the flag behind,
\* after which no event would ever start another.
FlagExact ==
    \A p \in Page :
        /\ draining[p] <=> \E r \in Drain : drain[r].page = p
        /\ \A q, r \in Drain : drain[q].page = p /\ drain[r].page = p => q = r

\* If the network keeps coming back, every queued message is sent, given up
\* or evicted: the failure of one entry, which ends a drain, a lower key that
\* is queued later, and events dropped by a page that drains delay it only.
Drained ==
    ([]<>online /\ []<>~online)
        => \A m \in Msg : (m \in Has("pending")) ~> (m \notin Has("pending"))
=============================================================================
