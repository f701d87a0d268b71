---------------------------- MODULE MeshTransport ----------------------------
(***************************************************************************)
(* The connection manager of one node                                      *)
(* (packages/mesh-core/src/transport.ts): the scan callback that connects, *)
(* the native disconnect and connection events, the Noise handshake's      *)
(* place in a connection, the user's verdict on a peer, the timers, and    *)
(* startMesh / stopMesh.                                                   *)
(*                                                                         *)
(* JavaScript runs one callback at a time and gives way at every await, so *)
(* an action here is the code between two awaits.  A call of the scan      *)
(* callback (with the initiateHandshake it starts) or of the responder     *)
(* branch of handleIncomingChunk is a task with a program counter; any     *)
(* number may be suspended together, also for one device.                  *)
(*                                                                         *)
(* Time is abstracted: a retry window is armed or expired, a handshake is  *)
(* overdue or not.  The content of handshake messages is left out: a       *)
(* handshake completes or fails.  mtuCache, reassemblers, backoffCounts    *)
(* and metrics decide nothing that is stated here and are left out.        *)
(***************************************************************************)
EXTENDS Integers, FiniteSets, Sequences, SequencesExt

CONSTANTS
    Device,              \* BLE addresses
    Peer,                \* ephemeral 8-byte peer ids
    Central,             \* the addresses that connect to our GATT server
    PeerOf,              \* the id an address advertises; a peer that rotates
                         \* its address advertises one id from several
    InitiatorTo,         \* the peers roleFor() makes us the initiator to
    MAX_BLE_CONNECTIONS, \* 6 in the code
    Task,                \* suspended calls
    None

Id == Peer \cup Device    \* a peerIdHex; the address stands in for an unknown id
CryptoState == [id : Id, verdict : {"pending", "accepted", "rejected"},
                session : BOOLEAN, overdue : BOOLEAN]

ASSUME TransportAssumption ==
    /\ Central \subseteq Device
    /\ PeerOf \in [Device -> Peer]
    /\ InitiatorTo \subseteq Peer
    /\ MAX_BLE_CONNECTIONS \in Nat
    /\ None \notin Device \cup Peer \cup CryptoState

VARIABLES
    mesh,       \* how far startMesh / stopMesh has come
    outLink,    \* devices the radio holds an outbound link to
    inLink,     \* devices that hold a link to our GATT server
    connected,  \* connectedDevices: by an outbound or an inbound link
    crypto,     \* cryptoStates
    order,      \* the insertion order of cryptoStates
    backoff,    \* backoff: no entry, or a retry window armed or expired
    registry,   \* PeerRegistry: the address last connected for a peer
    task,       \* the suspended calls
    toStop      \* keys stopMesh's loop over connectedDevices has not visited

links == <<outLink, inLink>>
vars  == <<mesh, links, connected, crypto, order, backoff, registry, task, toStop>>

Fresh(id) == [id |-> id, verdict |-> "pending", session |-> FALSE, overdue |-> FALSE]

NoTask == [pc |-> "idle", dev |-> None, id |-> None]

ScanningOn == mesh \in {"starting", "failed", "up", "stopping", "dropping"}

Scanning  == mesh \in {"starting", "failed", "up"}
TimersOn  == mesh \in {"up", "stopping"}
Listening == mesh \in {"up", "stopping", "dropping", "clearing"}
PeerIdSet == mesh # "off"

Call == [pc : {"connect", "setup", "identity", "sending", "responder"},
         dev : Device, id : Id]

TypeInv ==
    /\ mesh \in {"off", "starting", "failed", "up", "stopping", "dropping", "clearing"}
    /\ outLink \subseteq Device
    /\ inLink \subseteq Device
    /\ connected \in [Device -> {"none", "out", "in"}]
    /\ crypto \in [Device -> CryptoState \cup {None}]
    /\ backoff \in [Device -> {"none", "armed", "expired"}]
    /\ registry \in [Peer -> Device \cup {None}]
    /\ task \in [Task -> Call \cup {NoTask}]
    /\ toStop \subseteq {d \in Device : connected[d] # "none"}

\* order lists the keys of cryptoStates, each once.
OrderInv ==
    /\ order \in Seq(Device)
    /\ Range(order) = {d \in Device : crypto[d] # None}
    /\ IsInjective(order)

TypeOK == TypeInv /\ OrderInv

-----------------------------------------------------------------------------
(* Helpers *)

Becomes(t, pc) == task' = [task EXCEPT ![t].pc = pc]
Ends(t)        == task' = [task EXCEPT ![t] = NoTask]

\* transitionVerdict(): only a pending state takes a verdict.
Verdict(cs, verdict) ==
    IF cs # None /\ cs.verdict = "pending"
    THEN [cs EXCEPT !.verdict = verdict, !.overdue = FALSE]
    ELSE cs

\* clearBackoff(): an armed window survives, an expired one is dropped.
ClearedBackoffAlways(d) == [backoff EXCEPT ![d] = "none"]

ClearedBackoff(d) == [backoff EXCEPT ![d] = IF @ = "armed" THEN @ ELSE "none"]

\* Map.set on cryptoStates keeps the place of a key that is there.
PutCrypto(d, cs) ==
    /\ crypto' = [crypto EXCEPT ![d] = cs]
    /\ order' = IF crypto[d] = None THEN Append(order, d) ELSE order

\* Map.set on connectedDevices; stopMesh's running loop visits a new key.
PutConnected(d, by) ==
    /\ connected' = [connected EXCEPT ![d] = by]
    /\ toStop' = IF mesh = "dropping" /\ connected[d] = "none"
                 THEN toStop \cup {d} ELSE toStop

\* Map.delete.
Deleted(keys, d) == IF d \in Range(keys)
                    THEN RemoveAt(keys, CHOOSE i \in DOMAIN keys : keys[i] = d) ELSE keys

\* What both disconnect handlers do.
Evict(d) ==
    /\ connected' = [connected EXCEPT ![d] = "none"]
    /\ toStop' = toStop \ {d}
    /\ crypto' = [crypto EXCEPT ![d] = None]
    /\ order' = Deleted(order, d)
    /\ backoff' = ClearedBackoff(d)

\* The first entry of cryptoStates under an id, None if there is none.
FirstMatch(id) ==
    LET i == SelectInSeq(order, LAMBDA d : crypto[d].id = id)
    IN  IF i = 0 THEN None ELSE order[i]

\* The id handleIncomingChunk finds for an address.
IdOfKnown(d) == IF \E p \in Peer : registry[p] = d
                THEN CHOOSE p \in Peer : registry[p] = d ELSE None

IdOf(d) == IF \E p \in Peer : registry[p] = d
           THEN CHOOSE p \in Peer : registry[p] = d ELSE d

-----------------------------------------------------------------------------
(* The scan callback *)

Sighting(t, d) ==
    /\ Scanning
    /\ task[t] = NoTask
    /\ connected[d] = "none"
    /\ Cardinality({e \in Device : connected[e] # "none"}) < MAX_BLE_CONNECTIONS
    /\ backoff[d] # "armed"
    /\ task' = [task EXCEPT ![t] = [pc |-> "connect", dev |-> d, id |-> PeerOf[d]]]
    /\ UNCHANGED <<mesh, links, connected, crypto, order, backoff, registry, toStop>>

Connected(t) ==
    /\ task[t].pc = "connect"
    /\ outLink' = outLink \cup {task[t].dev}
    /\ Becomes(t, "setup")
    /\ UNCHANGED <<mesh, inLink, connected, crypto, order, backoff, registry, toStop>>

\* connect, negotiateMtu or subscribeTx throws.  A connect that was given up
\* after CONNECT_TIMEOUT_MS may still bring the link up.
SetupFails(t) ==
    LET d == task[t].dev
    IN  /\ task[t].pc \in {"connect", "setup"}
        /\ outLink' \in IF task[t].pc = "connect"
                        THEN {outLink, outLink \cup {d}} ELSE {outLink}
        /\ backoff' = [backoff EXCEPT ![d] = "armed"]
        /\ Ends(t)
        /\ UNCHANGED <<mesh, inLink, connected, crypto, order, registry, toStop>>

SetupDone(t) ==
    LET d == task[t].dev
    IN  /\ task[t].pc = "setup"
        /\ d \in outLink
        /\ registry' = [registry EXCEPT ![task[t].id] = d]
        /\ PutConnected(d, "out")
        /\ backoff' = [backoff EXCEPT ![d] = "none"]
        /\ Becomes(t, "identity")
        /\ UNCHANGED <<mesh, links, crypto, order>>

-----------------------------------------------------------------------------
(* initiateHandshake() and its catch *)

IdentityReadyUnchecked(t) ==
    LET d == task[t].dev
    IN  /\ task[t].pc = "identity"
        /\ IF PeerIdSet
           THEN /\ PutCrypto(d, Fresh(task[t].id))
                /\ IF task[t].id \in InitiatorTo THEN Becomes(t, "sending") ELSE Ends(t)
           ELSE Ends(t) /\ UNCHANGED <<crypto, order>>
        /\ UNCHANGED <<mesh, links, connected, backoff, registry, toStop>>

\* It replaces whatever state the device has by then.
IdentityReady(t) ==
    LET d == task[t].dev
    IN  /\ task[t].pc = "identity"
        /\ IF PeerIdSet /\ connected[d] # "none"
           THEN /\ PutCrypto(d, Fresh(task[t].id))
                /\ IF task[t].id \in InitiatorTo THEN Becomes(t, "sending") ELSE Ends(t)
           ELSE Ends(t) /\ UNCHANGED <<crypto, order>>
        /\ UNCHANGED <<mesh, links, connected, backoff, registry, toStop>>

\* msg-1 is written.
SendDone(t) ==
    /\ task[t].pc = "sending"
    /\ Ends(t)
    /\ UNCHANGED <<mesh, links, connected, crypto, order, backoff, registry, toStop>>

\* The identity cannot be read, or a write fails.  failHandshake() gets the
\* state the device has when the failure arrives.
InitiateFails(t) ==
    /\ task[t].pc \in {"identity", "sending"}
    /\ crypto' = [crypto EXCEPT ![task[t].dev] = Verdict(@, "rejected")]
    /\ Ends(t)
    /\ UNCHANGED <<mesh, links, connected, order, backoff, registry, toStop>>

-----------------------------------------------------------------------------
(* handleIncomingChunk(): a complete handshake frame *)

HandshakeFrame(t, d) ==
    /\ d \in outLink \cup inLink
    /\ crypto[d] = None
    /\ PeerIdSet
    /\ task[t] = NoTask
    /\ task' = [task EXCEPT ![t] = [pc |-> "responder", dev |-> d, id |-> IdOf(d)]]
    /\ UNCHANGED <<mesh, links, connected, crypto, order, backoff, registry, toStop>>

ResponderReadyOverwriting(t) ==
    LET d == task[t].dev
    IN  /\ task[t].pc = "responder"
        /\ IF connected[d] # "none"
           THEN PutCrypto(d, Fresh(task[t].id))
           ELSE UNCHANGED <<crypto, order>>
        /\ Ends(t)
        /\ UNCHANGED <<mesh, links, connected, backoff, registry, toStop>>

\* The identity is read: the frame is dropped if the device went away or a
\* state was created meanwhile.
ResponderReady(t) ==
    LET d == task[t].dev
    IN  /\ task[t].pc = "responder"
        /\ IF connected[d] # "none" /\ crypto[d] = None
           THEN PutCrypto(d, Fresh(task[t].id))
           ELSE UNCHANGED <<crypto, order>>
        /\ Ends(t)
        /\ UNCHANGED <<mesh, links, connected, backoff, registry, toStop>>

ResponderFails(t) ==
    /\ task[t].pc = "responder"
    /\ Ends(t)
    /\ UNCHANGED <<mesh, links, connected, crypto, order, backoff, registry, toStop>>

-----------------------------------------------------------------------------
(* advanceHandshake() *)

\* split() succeeds.  The verdict is not looked at.
HandshakeDone(d) ==
    /\ crypto[d] # None /\ ~crypto[d].session
    /\ crypto' = [crypto EXCEPT ![d].session = TRUE, ![d].overdue = FALSE]
    /\ UNCHANGED <<mesh, links, connected, order, backoff, registry, task, toStop>>

\* The third violation, a failed write, or a failed split.  A write that is
\* still pending may fail after the session is there.
HandshakeFails(d) ==
    /\ crypto[d] # None /\ crypto[d].verdict = "pending"
    /\ crypto' = [crypto EXCEPT ![d] = Verdict(@, "rejected")]
    /\ UNCHANGED <<mesh, links, connected, order, backoff, registry, task, toStop>>

-----------------------------------------------------------------------------
(* Native link events *)

InboundUp(d) ==
    /\ mesh \in {"starting", "failed", "up", "stopping"}
    /\ d \in Central \ inLink
    /\ inLink' = inLink \cup {d}
    /\ IF Listening /\ connected[d] = "none"
       THEN PutConnected(d, "in")
       ELSE UNCHANGED <<connected, toStop>>
    /\ UNCHANGED <<mesh, outLink, crypto, order, backoff, registry, task>>

\* Either link of a device going down evicts all of its state.
OutboundDown(d) ==
    /\ d \in outLink
    /\ outLink' = outLink \ {d}
    /\ Evict(d)
    /\ UNCHANGED <<mesh, inLink, registry, task>>

InboundDown(d) ==
    /\ Listening
    /\ d \in inLink
    /\ inLink' = inLink \ {d}
    /\ Evict(d)
    /\ UNCHANGED <<mesh, outLink, registry, task>>

\* A link goes down and no event says so.
SilentDown(d) ==
    /\ d \in outLink \cup inLink
    /\ \/ outLink' = outLink \ {d} /\ inLink' = inLink
       \/ inLink' = inLink \ {d} /\ outLink' = outLink
    /\ links' # links
    /\ UNCHANGED <<mesh, connected, crypto, order, backoff, registry, task, toStop>>

-----------------------------------------------------------------------------
(* The user's verdict *)

AcceptPeer(id) ==
    /\ FirstMatch(id) # None
    /\ crypto[FirstMatch(id)].verdict = "pending"
    /\ crypto' = [crypto EXCEPT ![FirstMatch(id)] = Verdict(@, "accepted")]
    /\ UNCHANGED <<mesh, links, connected, order, backoff, registry, task, toStop>>

RejectPeer(id) ==
    /\ FirstMatch(id) # None
    /\ crypto[FirstMatch(id)].verdict = "pending"
    /\ crypto' = [crypto EXCEPT ![FirstMatch(id)] = Verdict(@, "rejected")]
    /\ UNCHANGED <<mesh, links, connected, order, backoff, registry, task, toStop>>

\* The address sendFrame() resolves an id to, and whether it then sends.
SendTarget(id) ==
    IF id \in Peer /\ registry[id] # None THEN registry[id]
    ELSE LET i == SelectInSeq(order, LAMBDA d : crypto[d].id = id /\ connected[d] # "none")
         IN  IF i # 0 THEN order[i] ELSE FirstMatch(id)

CanSend(id) ==
    LET d == SendTarget(id)
    IN  d # None /\ crypto[d] # None /\ crypto[d].verdict = "accepted" /\ crypto[d].session

\* getPendingHandshakes() lists the id: the user is asked about it.
Asked(id) == \E d \in Device : /\ crypto[d] # None
                               /\ crypto[d].id = id
                               /\ crypto[d].session
                               /\ crypto[d].verdict = "pending"

-----------------------------------------------------------------------------
(* Timers *)

\* HANDSHAKE_TIMEOUT_MS pass.
Overdue(d) ==
    /\ crypto[d] # None /\ crypto[d].verdict = "pending"
    /\ ~crypto[d].session /\ ~crypto[d].overdue
    /\ crypto' = [crypto EXCEPT ![d].overdue = TRUE]
    /\ UNCHANGED <<mesh, links, connected, order, backoff, registry, task, toStop>>

TimedOutOutbound(d) == crypto[d] # None /\ crypto[d].overdue /\ connected[d] = "out"

TimedOut(d) == crypto[d] # None /\ crypto[d].overdue /\ connected[d] # "none"

\* checkHandshakeTimeouts(), every 5 s.
TimeoutTick ==
    /\ TimersOn
    /\ \E d \in Device : TimedOut(d)
    /\ crypto' = [d \in Device |->
                    IF TimedOut(d) THEN Verdict(crypto[d], "rejected") ELSE crypto[d]]
    /\ UNCHANGED <<mesh, links, connected, order, backoff, registry, task, toStop>>

BackoffExpires(d) ==
    /\ backoff[d] = "armed"
    /\ backoff' = [backoff EXCEPT ![d] = "expired"]
    /\ UNCHANGED <<mesh, links, connected, crypto, order, registry, task, toStop>>

\* Every 30 s: peers not sighted for the TTL and expired windows are dropped.
GcTick ==
    /\ TimersOn
    /\ \E stale \in SUBSET Peer :
          registry' = [p \in Peer |-> IF p \in stale THEN None ELSE registry[p]]
    /\ backoff' = [d \in Device |-> IF backoff[d] = "armed" THEN "armed" ELSE "none"]
    /\ UNCHANGED <<mesh, links, connected, crypto, order, task, toStop>>

-----------------------------------------------------------------------------
(* startMesh() and stopMesh() *)

\* startMesh() sets the flags its guard tests only when it has finished; the
\* scan is already on while it registers listeners and timers.
StartBegin ==
    /\ mesh \in {"off", "failed"}
    /\ mesh' = "starting"
    /\ UNCHANGED <<links, connected, crypto, order, backoff, registry, task, toStop>>

StartEnd ==
    /\ mesh = "starting"
    /\ mesh' \in {"up", "failed"}
    /\ UNCHANGED <<links, connected, crypto, order, backoff, registry, task, toStop>>

\* stopScan() and stopAdvertising() are awaited before anything is torn down.
StopBegin ==
    /\ mesh \in {"off", "failed", "up"}
    /\ mesh' = "stopping"
    /\ UNCHANGED <<links, connected, crypto, order, backoff, registry, task, toStop>>

StopTimers ==
    /\ mesh = "stopping"
    /\ mesh' = "dropping"
    /\ toStop' = {d \in Device : connected[d] # "none"}
    /\ UNCHANGED <<links, connected, crypto, order, backoff, registry, task>>

\* disconnect() takes the outbound link down and so calls the disconnect
\* handler; a device with an inbound link only has nothing to disconnect.
StopDevice(d) ==
    /\ mesh = "dropping"
    /\ d \in toStop
    /\ IF d \in outLink
       THEN outLink' = outLink \ {d} /\ Evict(d)
       ELSE /\ toStop' = toStop \ {d}
            /\ UNCHANGED <<outLink, connected, crypto, order, backoff>>
    /\ UNCHANGED <<mesh, inLink, registry, task>>

StopListeners ==
    /\ mesh = "dropping"
    /\ toStop = {}
    /\ mesh' = "clearing"
    /\ connected' = [d \in Device |-> "none"]
    /\ UNCHANGED <<links, crypto, order, backoff, registry, task, toStop>>

StopEnd ==
    /\ mesh = "clearing"
    /\ mesh' = "off"
    /\ registry' = [p \in Peer |-> None]
    /\ crypto' = [d \in Device |-> None]
    /\ order' = <<>>
    /\ backoff' = [d \in Device |-> "none"]
    /\ UNCHANGED <<links, connected, task, toStop>>

-----------------------------------------------------------------------------

Init ==
    /\ mesh = "off"
    /\ outLink = {} /\ inLink = {}
    /\ connected = [d \in Device |-> "none"]
    /\ crypto = [d \in Device |-> None]
    /\ order = <<>>
    /\ backoff = [d \in Device |-> "none"]
    /\ registry = [p \in Peer |-> None]
    /\ task = [t \in Task |-> NoTask]
    /\ toStop = {}

Step(t) ==
    \/ \E d \in Device : Sighting(t, d) \/ HandshakeFrame(t, d)
    \/ Connected(t) \/ SetupFails(t) \/ SetupDone(t)
    \/ IdentityReady(t) \/ SendDone(t) \/ InitiateFails(t)
    \/ ResponderReady(t) \/ ResponderFails(t)

Native(d) ==
    \/ HandshakeDone(d) \/ HandshakeFails(d)
    \/ InboundUp(d) \/ OutboundDown(d) \/ InboundDown(d) \/ SilentDown(d)

User == \E id \in Id : AcceptPeer(id) \/ RejectPeer(id)

Timer == TimeoutTick \/ GcTick \/ \E d \in Device : Overdue(d) \/ BackoffExpires(d)

StartStop ==
    \/ StartBegin \/ StartEnd
    \/ StopBegin \/ StopTimers \/ StopListeners \/ StopEnd
    \/ \E d \in Device : StopDevice(d)

Next ==
    \/ \E t \in Task : Step(t)
    \/ \E d \in Device : Native(d)
    \/ User \/ Timer \/ StartStop

\* The intervals fire and the clock advances; stopMesh() runs on: the native
\* calls it awaits return, and it swallows their errors.
Fairness ==
    /\ WF_vars(TimeoutTick)
    /\ \A d \in Device : WF_vars(Overdue(d)) /\ WF_vars(StopDevice(d))
    /\ WF_vars(StopTimers) /\ WF_vars(StopListeners) /\ WF_vars(StopEnd)

Spec == Init /\ [][Next]_vars /\ Fairness

-----------------------------------------------------------------------------
(* Properties *)

\* No handshake state outlives its connection (#91, S1 in transport.ts): a
\* disconnect that lands while initiateHandshake or the responder branch reads
\* the identity must not be followed by the creation of a state, which no
\* disconnect and no timeout would ever remove.  Only stopMesh, between
\* connectedDevices.clear() and cryptoStates.clear(), passes through such states.
NoOrphanCrypto ==
    mesh # "clearing" => \A d \in Device : crypto[d] # None => connected[d] # "none"

Attempting(d) == \E t \in Task : /\ task[t].dev = d
                                 /\ task[t].pc \in {"connect", "setup", "identity"}

\* S1: what was settled stays settled.  While a device stays connected and no
\* outbound attempt on it is in flight, nothing (a second handshake frame whose
\* responder call was suspended meanwhile, a late failure, a timeout) replaces
\* its state, takes its session away or changes the verdict of the user.
SettledStateKept ==
    [][\A d \in Device :
          (/\ crypto[d] # None
           /\ connected'[d] # "none"
           /\ mesh' # "off"
           /\ ~Attempting(d))
          => /\ crypto'[d] # None
             /\ crypto'[d].id = crypto[d].id
             /\ crypto[d].session => crypto'[d].session
             /\ crypto[d].verdict # "pending" => crypto'[d].verdict = crypto[d].verdict]_vars

\* F1: an armed retry window ends with time, with an attempt that succeeds or
\* with stopMesh, never with a disconnect event or the GC interval; otherwise a
\* device that fails and disconnects is retried on its next advertisement.
ArmedWindowKept ==
    [][\A d \in Device :
          backoff[d] = "armed" /\ backoff'[d] # "armed"
          => backoff'[d] = "expired" \/ connected'[d] = "out" \/ mesh' = "off"]_vars

Undecided(d) == crypto[d] # None /\ crypto[d].verdict = "pending" /\ ~crypto[d].session

\* B.2-handshake-timeout: while the mesh runs, no handshake stays undecided for
\* ever, also not that of a peer connected inbound only (F2).
HandshakesEnd == \A d \in Device : (mesh = "up" /\ Undecided(d)) ~> (mesh # "up" \/ ~Undecided(d))

\* stopMesh() ends: its loop over connectedDevices runs while connects in
\* flight still add entries, and the scan that would start more is off.
StopEnds == (mesh = "stopping") ~> (mesh = "off")

\* "disconnect all peers, clear all state" (stopMesh).
StopClearsAll ==
    mesh = "off" => \A d \in Device : connected[d] = "none" /\ crypto[d] = None

\* "Accept a peer after SAS verification - unblocks sendFrame to that peer"
\* (acceptPeer): once the user accepts a peer the panel asks about, frames can
\* be sent to it.
AcceptUnblocks ==
    [][\A id \in Id : Asked(id) /\ AcceptPeer(id) => CanSend(id)']_vars
=============================================================================
