------------------------- MODULE MeshTransportProofs -------------------------
(***************************************************************************)
(* Safety of the connection manager for any set of devices, any number of  *)
(* suspended calls and any connection limit.  NoOrphanCrypto is inductive  *)
(* together with the types: a state enters crypto only under a test of     *)
(* connected made in the same step, and each step that takes a device out  *)
(* of connected takes its state out of crypto, except StopListeners, which *)
(* enters the phase the invariant exempts and StopEnd leaves with crypto   *)
(* empty.                                                                  *)
(***************************************************************************)
EXTENDS MeshTransport, SequenceTheorems, TLAPS

Inv == TypeInv /\ NoOrphanCrypto

\* A verdict keeps a state a state, with its id and its session.
LEMMA VerdictKeeps ==
    ASSUME NEW cs \in CryptoState \cup {None}, NEW v \in {"accepted", "rejected"}
    PROVE  /\ Verdict(cs, v) \in CryptoState \cup {None}
           /\ cs # None => /\ Verdict(cs, v) # None
                           /\ Verdict(cs, v).id = cs.id
                           /\ Verdict(cs, v).session = cs.session
                           /\ cs.verdict # "pending" => Verdict(cs, v) = cs
           /\ cs = None => Verdict(cs, v) = None
<1>1. CASE cs = None
  BY <1>1 DEF Verdict
<1>2. CASE cs \in CryptoState
  <2>1. Verdict(cs, v) \in CryptoState
    BY <1>2 DEF Verdict, CryptoState
  <2>2. cs # None /\ Verdict(cs, v) # None
    BY <1>2, <2>1, TransportAssumption
  <2>3. Verdict(cs, v).id = cs.id /\ Verdict(cs, v).session = cs.session
    BY <1>2 DEF Verdict, CryptoState
  <2> QED
    BY <2>1, <2>2, <2>3 DEF Verdict
<1> QED
  BY <1>1, <1>2

\* A fresh state is one.
LEMMA FreshType ==
    ASSUME NEW id \in Id
    PROVE  Fresh(id) \in CryptoState /\ Fresh(id) # None
<1>1. Fresh(id) \in CryptoState
  BY DEF Fresh, CryptoState
<1> QED
  BY <1>1, TransportAssumption

\* The id of an incoming frame's sender is an id.
LEMMA IdOfType ==
    ASSUME NEW d \in Device
    PROVE  IdOf(d) \in Id
  BY DEF IdOf, Id

\* A busy task is a call.
LEMMA BusyTask ==
    ASSUME TypeInv, NEW t \in Task, task[t].pc # "idle"
    PROVE  task[t] \in Call
  BY DEF TypeInv, NoTask

LEMMA InitInv == Init => Inv
  BY DEF Init, Inv, TypeInv, NoOrphanCrypto

\* Evicting a device keeps the types and the agreement of the two maps.
LEMMA EvictInv ==
    ASSUME Inv, NEW d \in Device, Evict(d),
           mesh' = mesh, registry' = registry, task' = task,
           outLink' \subseteq Device, inLink' \subseteq Device
    PROVE  Inv'
  BY DEF Inv, TypeInv, NoOrphanCrypto, Evict, ClearedBackoff

\* So does every step of a task.
LEMMA StepInv ==
    ASSUME Inv, NEW t \in Task, Step(t)
    PROVE  Inv'
<1> USE DEF Inv
<1>1. ASSUME NEW d \in Device, Sighting(t, d)
      PROVE  Inv'
  <2>1. PeerOf[d] \in Id
    BY TransportAssumption DEF Id
  <2> QED
    BY <1>1, <2>1 DEF Sighting, TypeInv, NoOrphanCrypto, Call, links
<1>2. ASSUME NEW d \in Device, HandshakeFrame(t, d)
      PROVE  Inv'
  BY <1>2, IdOfType DEF HandshakeFrame, TypeInv, NoOrphanCrypto, Call, links
<1>3. CASE Connected(t)
  <2>1. task[t] \in Call
    BY <1>3, BusyTask DEF Connected
  <2> QED
    BY <1>3, <2>1 DEF Connected, Becomes, TypeInv, NoOrphanCrypto, Call
<1>4. CASE SetupFails(t)
  <2>1. task[t] \in Call
    BY <1>4, BusyTask DEF SetupFails
  <2> QED
    BY <1>4, <2>1 DEF SetupFails, Ends, TypeInv, NoOrphanCrypto, Call
<1>5. CASE SetupDone(t)
  <2>1. task[t] \in Call /\ task[t].dev \in Device /\ task[t].id \in Id
    BY <1>5, BusyTask DEF SetupDone, Call
  <2>2. task' \in [Task -> Call \cup {NoTask}]
    BY <1>5, <2>1 DEF SetupDone, Becomes, TypeInv, Call
  <2>3. registry' \in [Peer -> Device \cup {None}]
    BY <1>5, <2>1 DEF SetupDone, TypeInv
  <2>4. /\ connected' \in [Device -> {"none", "out", "in"}]
        /\ toStop' \subseteq {d \in Device : connected'[d] # "none"}
        /\ \A d \in Device : connected[d] # "none" => connected'[d] # "none"
    BY <1>5, <2>1 DEF SetupDone, PutConnected, TypeInv
  <2> QED
    BY <1>5, <2>1, <2>2, <2>3, <2>4 DEF SetupDone, TypeInv, NoOrphanCrypto, links
<1>6. CASE IdentityReady(t)
  <2>1. task[t] \in Call /\ task[t].dev \in Device /\ task[t].id \in Id
    BY <1>6, BusyTask DEF IdentityReady, Call
  <2>2. task' \in [Task -> Call \cup {NoTask}]
    BY <1>6, <2>1 DEF IdentityReady, Becomes, Ends, TypeInv, Call
  <2>3. /\ crypto' \in [Device -> CryptoState \cup {None}]
        /\ \A d \in Device : crypto'[d] # None => crypto[d] # None \/ connected[d] # "none"
    BY <1>6, <2>1, FreshType DEF IdentityReady, PutCrypto, TypeInv
  <2> QED
    BY <1>6, <2>2, <2>3 DEF IdentityReady, TypeInv, NoOrphanCrypto, links
<1>7. CASE SendDone(t) \/ ResponderFails(t)
  BY <1>7 DEF SendDone, ResponderFails, Ends, TypeInv, NoOrphanCrypto, links
<1>8. CASE InitiateFails(t)
  <2>1. task[t] \in Call /\ task[t].dev \in Device
    BY <1>8, BusyTask DEF InitiateFails, Call
  <2>2. /\ crypto' \in [Device -> CryptoState \cup {None}]
        /\ \A d \in Device : crypto'[d] # None => crypto[d] # None
    BY <1>8, <2>1, VerdictKeeps DEF InitiateFails, TypeInv
  <2> QED
    BY <1>8, <2>2 DEF InitiateFails, Ends, TypeInv, NoOrphanCrypto, links
<1>9. CASE ResponderReady(t)
  <2>1. task[t] \in Call /\ task[t].dev \in Device /\ task[t].id \in Id
    BY <1>9, BusyTask DEF ResponderReady, Call
  <2>2. /\ crypto' \in [Device -> CryptoState \cup {None}]
        /\ \A d \in Device : crypto'[d] # None => crypto[d] # None \/ connected[d] # "none"
    BY <1>9, <2>1, FreshType DEF ResponderReady, PutCrypto, TypeInv
  <2> QED
    BY <1>9, <2>2 DEF ResponderReady, Ends, TypeInv, NoOrphanCrypto, links
<1> QED
  BY <1>1, <1>2, <1>3, <1>4, <1>5, <1>6, <1>7, <1>8, <1>9 DEF Step

\* The handshake's end and the link events keep it.
LEMMA NativeInv ==
    ASSUME Inv, NEW d \in Device, Native(d)
    PROVE  Inv'
<1> USE DEF Inv
<1>1. CASE HandshakeDone(d)
  <2>1. [crypto[d] EXCEPT !.session = TRUE, !.overdue = FALSE] \in CryptoState
    BY <1>1 DEF HandshakeDone, TypeInv, CryptoState
  <2>2. crypto' = [crypto EXCEPT ![d] = [crypto[d] EXCEPT !.session = TRUE, !.overdue = FALSE]]
    BY <1>1 DEF HandshakeDone, TypeInv, CryptoState
  <2> QED
    BY <1>1, <2>1, <2>2 DEF HandshakeDone, TypeInv, NoOrphanCrypto, links
<1>2. CASE HandshakeFails(d)
  <2>1. /\ crypto' \in [Device -> CryptoState \cup {None}]
        /\ \A e \in Device : crypto'[e] # None => crypto[e] # None
    BY <1>2, VerdictKeeps DEF HandshakeFails, TypeInv
  <2> QED
    BY <1>2, <2>1 DEF HandshakeFails, TypeInv, NoOrphanCrypto, links
<1>3. CASE InboundUp(d)
  <2>1. /\ connected' \in [Device -> {"none", "out", "in"}]
        /\ toStop' \subseteq {e \in Device : connected'[e] # "none"}
        /\ \A e \in Device : connected[e] # "none" => connected'[e] # "none"
    BY <1>3 DEF InboundUp, PutConnected, TypeInv
  <2> QED
    BY <1>3, <2>1 DEF InboundUp, TypeInv, NoOrphanCrypto
<1>4. CASE OutboundDown(d)
  BY <1>4, EvictInv DEF OutboundDown, TypeInv
<1>5. CASE InboundDown(d)
  BY <1>5, EvictInv DEF InboundDown, TypeInv
<1>6. CASE SilentDown(d)
  BY <1>6 DEF SilentDown, TypeInv, NoOrphanCrypto
<1> QED
  BY <1>1, <1>2, <1>3, <1>4, <1>5, <1>6 DEF Native

\* A verdict on one entry of the map, if it is there, keeps the map.
LEMMA VerdictPut ==
    ASSUME TypeInv, NEW d, NEW v \in {"accepted", "rejected"},
           crypto' = [crypto EXCEPT ![d] = Verdict(crypto[d], v)]
    PROVE  /\ crypto' \in [Device -> CryptoState \cup {None}]
           /\ \A e \in Device : crypto'[e] # None => crypto[e] # None
<1>1. CASE d \in Device
  BY <1>1, VerdictKeeps DEF TypeInv
<1>2. CASE d \notin Device
  <2>1. crypto' = crypto
    BY <1>2 DEF TypeInv
  <2> QED
    BY <2>1 DEF TypeInv
<1> QED
  BY <1>1, <1>2

\* So does the user's verdict.
LEMMA UserInv ==
    ASSUME Inv, User
    PROVE  Inv'
<1> USE DEF Inv
<1>1. PICK id \in Id : AcceptPeer(id) \/ RejectPeer(id)
  BY DEF User
<1>2. /\ crypto' \in [Device -> CryptoState \cup {None}]
      /\ \A d \in Device : crypto'[d] # None => crypto[d] # None
  <2>1. CASE AcceptPeer(id)
    BY <2>1, VerdictPut DEF AcceptPeer
  <2>2. CASE RejectPeer(id)
    BY <2>2, VerdictPut DEF RejectPeer
  <2> QED
    BY <1>1, <2>1, <2>2
<1> QED
  BY <1>1, <1>2 DEF AcceptPeer, RejectPeer, TypeInv, NoOrphanCrypto, links

\* So do the timers.
LEMMA TimerInv ==
    ASSUME Inv, Timer
    PROVE  Inv'
<1> USE DEF Inv
<1>1. CASE TimeoutTick
  <2>1. /\ crypto' \in [Device -> CryptoState \cup {None}]
        /\ \A d \in Device : crypto'[d] # None => crypto[d] # None
    BY <1>1, VerdictKeeps DEF TimeoutTick, TypeInv
  <2> QED
    BY <1>1, <2>1 DEF TimeoutTick, TypeInv, NoOrphanCrypto, links
<1>2. CASE GcTick
  BY <1>2 DEF GcTick, TypeInv, NoOrphanCrypto, links
<1>3. ASSUME NEW d \in Device, Overdue(d)
      PROVE  Inv'
  <2>1. [crypto[d] EXCEPT !.overdue = TRUE] \in CryptoState
    BY <1>3 DEF Overdue, TypeInv, CryptoState
  <2>2. crypto' = [crypto EXCEPT ![d] = [crypto[d] EXCEPT !.overdue = TRUE]]
    BY <1>3 DEF Overdue
  <2> QED
    BY <1>3, <2>1, <2>2 DEF Overdue, TypeInv, NoOrphanCrypto, links
<1>4. ASSUME NEW d \in Device, BackoffExpires(d)
      PROVE  Inv'
  BY <1>4 DEF BackoffExpires, TypeInv, NoOrphanCrypto, links
<1> QED
  BY <1>1, <1>2, <1>3, <1>4 DEF Timer

\* So do startMesh() and stopMesh().
LEMMA StartStopInv ==
    ASSUME Inv, StartStop
    PROVE  Inv'
<1> USE DEF Inv
<1>1. CASE StartBegin \/ StartEnd \/ StopBegin
  BY <1>1 DEF StartBegin, StartEnd, StopBegin, TypeInv, NoOrphanCrypto, links
<1>2. CASE StopTimers
  BY <1>2 DEF StopTimers, TypeInv, NoOrphanCrypto, links
<1>3. CASE StopListeners
  BY <1>3 DEF StopListeners, TypeInv, NoOrphanCrypto, links
<1>4. CASE StopEnd
  BY <1>4 DEF StopEnd, TypeInv, NoOrphanCrypto, links
<1>5. ASSUME NEW d \in Device, StopDevice(d)
      PROVE  Inv'
  <2>1. CASE d \in outLink
    BY <1>5, <2>1, EvictInv DEF StopDevice, TypeInv
  <2>2. CASE d \notin outLink
    BY <1>5, <2>2 DEF StopDevice, TypeInv, NoOrphanCrypto
  <2> QED
    BY <2>1, <2>2
<1> QED
  BY <1>1, <1>2, <1>3, <1>4, <1>5 DEF StartStop

LEMMA NextInv ==
    ASSUME Inv, [Next]_vars
    PROVE  Inv'
<1>1. CASE UNCHANGED vars
  BY <1>1 DEF vars, links, Inv, TypeInv, NoOrphanCrypto
<1> QED
  BY <1>1, StepInv, NativeInv, UserInv, TimerInv, StartStopInv DEF Next

\* The two maps of transport.ts agree in every reachable state.
THEOREM Invariance == Spec => []Inv
  BY InitInv, NextInv, PTL DEF Spec

\* #91, S1: no handshake state exists for a device that is not connected,
\* whatever disconnects land while a call is suspended in the identity read.
THEOREM NoOrphans == Spec => []NoOrphanCrypto
  BY Invariance, PTL DEF Inv

-----------------------------------------------------------------------------
(* The insertion order of cryptoStates *)

\* Deleting a key takes it out, once, and keeps the others.
LEMMA DeletedOrder ==
    ASSUME NEW S, NEW s \in Seq(S), IsInjective(s), NEW d
    PROVE  /\ Deleted(s, d) \in Seq(S)
           /\ IsInjective(Deleted(s, d))
           /\ Range(Deleted(s, d)) = Range(s) \ {d}
<1>1. CASE d \notin Range(s)
  BY <1>1 DEF Deleted
<1>2. CASE d \in Range(s)
  <2> DEFINE i == CHOOSE j \in DOMAIN s : s[j] = d
             n == Len(s)
             r == RemoveAt(s, i)
  <2>1. i \in DOMAIN s /\ s[i] = d
    BY <1>2 DEF Range
  <2>2. n \in Nat /\ DOMAIN s = 1 .. n /\ i \in 1 .. n
    BY <2>1
  <2>3. Deleted(s, d) = r
    BY <1>2 DEF Deleted
  <2> HIDE DEF i, n, r
  <2>4. /\ SubSeq(s, 1, i - 1) \in Seq(S) /\ Len(SubSeq(s, 1, i - 1)) = i - 1
        /\ \A j \in 1 .. i - 1 : SubSeq(s, 1, i - 1)[j] = s[j]
    BY <2>2, SubSeqProperties DEF n
  <2>5. /\ SubSeq(s, i + 1, n) \in Seq(S) /\ Len(SubSeq(s, i + 1, n)) = n - i
        /\ \A j \in 1 .. n - i : SubSeq(s, i + 1, n)[j] = s[i + j]
    <3>1. /\ i + 1 \in 1 .. n + 1 /\ n \in i .. n /\ n - (i + 1) + 1 = n - i
          /\ \A j \in 1 .. n - i : i + 1 + j - 1 = i + j
      BY <2>2
    <3>2. /\ SubSeq(s, i + 1, n) \in Seq(S)
          /\ Len(SubSeq(s, i + 1, n)) = IF i + 1 <= n THEN n - (i + 1) + 1 ELSE 0
          /\ \A j \in 1 .. n - (i + 1) + 1 : SubSeq(s, i + 1, n)[j] = s[i + 1 + j - 1]
      BY <2>2, <3>1, SubSeqProperties DEF n
    <3> QED
      BY <2>2, <3>1, <3>2
  <2>6. r = SubSeq(s, 1, i - 1) \o SubSeq(s, i + 1, n)
    BY DEF r, RemoveAt, n
  <2>7. /\ r \in Seq(S) /\ Len(r) = n - 1 /\ DOMAIN r = 1 .. n - 1
        /\ \A j \in 1 .. n - 1 : r[j] = IF j < i THEN s[j] ELSE s[j + 1]
    <3>1. r \in Seq(S) /\ Len(r) = n - 1
      BY <2>2, <2>4, <2>5, <2>6, ConcatProperties
    <3>2. ASSUME NEW j \in 1 .. n - 1
          PROVE  r[j] = IF j < i THEN s[j] ELSE s[j + 1]
      <4>1. CASE j < i
        BY <4>1, <2>2, <2>4, <2>5, <2>6, ConcatProperties
      <4>2. CASE ~(j < i)
        <5>1. /\ j - (i - 1) \in 1 .. n - i /\ i + (j - (i - 1)) = j + 1
              /\ j \in 1 .. (i - 1) + (n - i) /\ ~(j <= i - 1)
          BY <4>2, <2>2
        <5>2. r[j] = IF j <= i - 1 THEN SubSeq(s, 1, i - 1)[j] ELSE SubSeq(s, i + 1, n)[j - (i - 1)]
          <6> DEFINE a == SubSeq(s, 1, i - 1)
                     b == SubSeq(s, i + 1, n)
          <6>1. a \in Seq(S) /\ b \in Seq(S) /\ Len(a) = i - 1 /\ Len(b) = n - i /\ r = a \o b
            BY <2>4, <2>5, <2>6
          <6> HIDE DEF a, b
          <6>2. \A x \in 1 .. Len(a) + Len(b) : (a \o b)[x] = IF x <= Len(a) THEN a[x] ELSE b[x - Len(a)]
            BY ONLY <6>1, ConcatProperties
          <6>3. r[j] = IF j <= i - 1 THEN a[j] ELSE b[j - (i - 1)]
            BY ONLY <5>1, <6>1, <6>2
          <6> QED
            BY <6>3 DEF a, b
        <5> QED
          BY <5>1, <5>2, <4>2, <2>5
      <4> QED
        BY <4>1, <4>2
    <3> QED
      BY <3>1, <3>2, <2>2
  <2>8. IsInjective(r)
    <3> SUFFICES ASSUME NEW a \in DOMAIN r, NEW b \in DOMAIN r, r[a] = r[b]
                 PROVE  a = b
      BY DEF IsInjective
    <3> DEFINE at(j) == IF j < i THEN j ELSE j + 1
    <3>1. at(a) \in DOMAIN s /\ at(b) \in DOMAIN s /\ s[at(a)] = s[at(b)]
      BY <2>2, <2>7
    <3>2. at(a) = at(b)
      BY <3>1 DEF IsInjective
    <3> QED
      BY <3>2, <2>2, <2>7
  <2>9. Range(r) = Range(s) \ {d}
    <3>1. ASSUME NEW a \in DOMAIN r
          PROVE  r[a] \in Range(s) \ {d}
      <4> DEFINE at == IF a < i THEN a ELSE a + 1
      <4>1. at \in DOMAIN s /\ at # i /\ r[a] = s[at]
        BY <2>2, <2>7
      <4>2. s[at] # d
        BY <4>1, <2>1 DEF IsInjective
      <4> QED
        BY <4>1, <4>2 DEF Range
    <3>2. ASSUME NEW b \in DOMAIN s, s[b] # d
          PROVE  s[b] \in Range(r)
      <4> DEFINE a == IF b < i THEN b ELSE b - 1
      <4>1. a \in DOMAIN r /\ r[a] = s[b]
        BY <3>2, <2>1, <2>2, <2>7
      <4> QED
        BY <4>1 DEF Range
    <3> QED
      BY <3>1, <3>2 DEF Range
  <2> QED
    BY <2>3, <2>7, <2>8, <2>9
<1> QED
  BY <1>1, <1>2

\* Map.set on a key that is not there puts it last.
LEMMA AppendedOrder ==
    ASSUME NEW S, NEW s \in Seq(S), IsInjective(s), NEW d \in S, d \notin Range(s)
    PROVE  /\ Append(s, d) \in Seq(S)
           /\ IsInjective(Append(s, d))
           /\ Range(Append(s, d)) = Range(s) \cup {d}
<1>1. /\ Append(s, d) \in Seq(S) /\ Len(s) \in Nat /\ DOMAIN s = 1 .. Len(s)
      /\ DOMAIN Append(s, d) = 1 .. Len(s) + 1
      /\ \A i \in 1 .. Len(s) : Append(s, d)[i] = s[i]
      /\ Append(s, d)[Len(s) + 1] = d
  BY AppendProperties
<1>2. \A i \in DOMAIN s : s[i] # d
  BY DEF Range
<1>3. \A i \in DOMAIN Append(s, d) : i \in DOMAIN s \/ i = Len(s) + 1
  BY <1>1
<1>4. IsInjective(Append(s, d))
  BY <1>1, <1>2, <1>3 DEF IsInjective
<1>5. Range(Append(s, d)) = Range(s) \cup {d}
  <2>1. Len(s) + 1 \in DOMAIN Append(s, d) /\ \A i \in DOMAIN s : i \in DOMAIN Append(s, d)
    BY <1>1
  <2> QED
    BY <1>1, <1>3, <2>1 DEF Range
<1> QED
  BY <1>1, <1>4, <1>5

\* A step that creates no state and deletes none.
LEMMA SameOrder ==
    ASSUME OrderInv, order' = order, \A d \in Device : crypto'[d] = None <=> crypto[d] = None
    PROVE  OrderInv'
  BY DEF OrderInv

LEMMA PutOrder ==
    ASSUME Inv, OrderInv, NEW d \in Device, NEW cs \in CryptoState, PutCrypto(d, cs)
    PROVE  OrderInv'
<1>1. cs # None
  BY TransportAssumption
<1>2. /\ crypto'[d] # None
      /\ \A e \in Device \ {d} : crypto'[e] = crypto[e]
  BY <1>1 DEF PutCrypto, Inv, TypeInv
<1>3. CASE crypto[d] = None
  <2>1. order' = Append(order, d) /\ d \notin Range(order)
    BY <1>3 DEF PutCrypto, OrderInv
  <2>2. /\ order' \in Seq(Device) /\ IsInjective(order')
        /\ Range(order') = Range(order) \cup {d}
    BY <2>1, AppendedOrder DEF OrderInv
  <2> QED
    BY <1>2, <2>2 DEF OrderInv
<1>4. CASE crypto[d] # None
  <2>1. order' = order
    BY <1>4 DEF PutCrypto
  <2> QED
    BY <1>2, <1>4, <2>1, SameOrder
<1> QED
  BY <1>3, <1>4

LEMMA EvictOrder ==
    ASSUME Inv, OrderInv, NEW d \in Device, Evict(d)
    PROVE  OrderInv'
<1>1. /\ order' \in Seq(Device) /\ IsInjective(order')
      /\ Range(order') = Range(order) \ {d}
  BY DeletedOrder DEF Evict, OrderInv
<1>2. crypto'[d] = None /\ \A e \in Device \ {d} : crypto'[e] = crypto[e]
  BY DEF Evict, Inv, TypeInv
<1> QED
  BY <1>1, <1>2 DEF OrderInv

\* A verdict neither creates nor deletes a state.
LEMMA VerdictOrder ==
    ASSUME Inv, OrderInv, NEW d, NEW v \in {"accepted", "rejected"}, order' = order,
           crypto' = [crypto EXCEPT ![d] = Verdict(crypto[d], v)]
    PROVE  OrderInv'
<1>1. \A e \in Device : crypto'[e] = crypto[e] \/ crypto'[e] = Verdict(crypto[e], v)
  BY DEF Inv, TypeInv
<1>2. \A e \in Device : crypto'[e] = None <=> crypto[e] = None
  BY <1>1, VerdictKeeps DEF Inv, TypeInv
<1> QED
  BY <1>2, SameOrder

LEMMA OrderStep ==
    ASSUME Inv, OrderInv, [Next]_vars
    PROVE  OrderInv'
<1>1. ASSUME NEW t \in Task, Step(t)
      PROVE  OrderInv'
  <2>1. CASE IdentityReady(t) \/ ResponderReady(t)
    <3>1. task[t] \in Call /\ task[t].dev \in Device /\ task[t].id \in Id
      <4>1. task[t].pc # "idle"
        BY <2>1 DEF IdentityReady, ResponderReady
      <4> QED
        BY <4>1, BusyTask DEF Inv, Call
    <3>2. Fresh(task[t].id) \in CryptoState
      BY <3>1, FreshType
    <3>3. PutCrypto(task[t].dev, Fresh(task[t].id)) \/ UNCHANGED <<crypto, order>>
      BY <2>1 DEF IdentityReady, ResponderReady
    <3> QED
      BY <3>1, <3>2, <3>3, PutOrder, SameOrder
  <2>2. CASE InitiateFails(t)
    BY <2>2, VerdictOrder DEF InitiateFails
  <2>3. CASE UNCHANGED <<crypto, order>>
    BY <2>3, SameOrder
  <2> QED
    BY <1>1, <2>1, <2>2, <2>3
       DEF Step, Sighting, HandshakeFrame, Connected, SetupFails, SetupDone, SendDone, ResponderFails
<1>2. ASSUME NEW d \in Device, Native(d)
      PROVE  OrderInv'
  <2>1. CASE HandshakeDone(d)
    <3>1. [crypto[d] EXCEPT !.session = TRUE, !.overdue = FALSE] \in CryptoState
      BY <2>1 DEF HandshakeDone, Inv, TypeInv, CryptoState
    <3>2. crypto' = [crypto EXCEPT ![d] = [crypto[d] EXCEPT !.session = TRUE, !.overdue = FALSE]]
      BY <2>1 DEF HandshakeDone, Inv, TypeInv, CryptoState
    <3>3. crypto[d] # None /\ crypto'[d] # None
      BY <2>1, <3>1, <3>2, TransportAssumption DEF HandshakeDone, Inv, TypeInv
    <3>4. \A e \in Device \ {d} : crypto'[e] = crypto[e]
      BY <3>2 DEF Inv, TypeInv
    <3> QED
      BY <2>1, <3>3, <3>4, SameOrder DEF HandshakeDone
  <2>2. CASE HandshakeFails(d)
    BY <2>2, VerdictOrder DEF HandshakeFails
  <2>3. CASE OutboundDown(d) \/ InboundDown(d)
    BY <2>3, EvictOrder DEF OutboundDown, InboundDown
  <2>4. CASE UNCHANGED <<crypto, order>>
    BY <2>4, SameOrder
  <2> QED
    BY <1>2, <2>1, <2>2, <2>3, <2>4 DEF Native, InboundUp, SilentDown
<1>3. CASE User
  <2>1. PICK id \in Id : AcceptPeer(id) \/ RejectPeer(id)
    BY <1>3 DEF User
  <2> DEFINE f == FirstMatch(id)
  <2>2. /\ order' = order
        /\ \E v \in {"accepted", "rejected"} : crypto' = [crypto EXCEPT ![f] = Verdict(crypto[f], v)]
    BY <2>1 DEF AcceptPeer, RejectPeer
  <2> HIDE DEF f
  <2> QED
    BY <2>2, VerdictOrder
<1>4. CASE TimeoutTick
  <2>1. \A e \in Device : crypto'[e] = crypto[e] \/ crypto'[e] = Verdict(crypto[e], "rejected")
    BY <1>4 DEF TimeoutTick
  <2>2. \A e \in Device : crypto'[e] = None <=> crypto[e] = None
    BY <2>1, VerdictKeeps DEF Inv, TypeInv
  <2> QED
    BY <1>4, <2>2, SameOrder DEF TimeoutTick
<1>5. ASSUME NEW d \in Device, Overdue(d)
      PROVE  OrderInv'
  <2>1. [crypto[d] EXCEPT !.overdue = TRUE] \in CryptoState
    BY <1>5 DEF Overdue, Inv, TypeInv, CryptoState
  <2>2. \A e \in Device : crypto'[e] = None <=> crypto[e] = None
    BY <1>5, <2>1, TransportAssumption DEF Overdue, Inv, TypeInv
  <2> QED
    BY <1>5, <2>2, SameOrder DEF Overdue
<1>6. CASE StartStop
  <2>1. ASSUME NEW d \in Device, StopDevice(d)
        PROVE  OrderInv'
    BY <2>1, EvictOrder, SameOrder DEF StopDevice
  <2>2. CASE StopEnd
    <3>1. order' = <<>> /\ \A d \in Device : crypto'[d] = None
      BY <2>2 DEF StopEnd
    <3> QED
      BY <3>1 DEF OrderInv, Range, IsInjective
  <2>3. CASE UNCHANGED <<crypto, order>>
    BY <2>3, SameOrder
  <2> QED
    BY <1>6, <2>1, <2>2, <2>3
       DEF StartStop, StartBegin, StartEnd, StopBegin, StopTimers, StopListeners
<1>7. CASE UNCHANGED <<crypto, order>>
  BY <1>7, SameOrder
<1> QED
  BY <1>1, <1>2, <1>3, <1>4, <1>5, <1>6, <1>7 DEF Next, Timer, GcTick, BackoffExpires, vars

\* The maps keep their types, and the insertion order of cryptoStates, which
\* decides whom acceptPeer means, lists its keys and each of them once.
THEOREM TypeCorrect == Spec => []TypeOK
<1>1. Init => OrderInv
  <2> SUFFICES ASSUME Init
               PROVE  OrderInv
    OBVIOUS
  <2>1. order = <<>> /\ \A d \in Device : crypto[d] = None
    BY DEF Init
  <2> QED
    BY <2>1 DEF OrderInv, Range, IsInjective
<1>2. Inv /\ OrderInv /\ [Next]_vars => OrderInv'
  BY OrderStep
<1> QED
  BY <1>1, <1>2, Invariance, PTL DEF Spec, TypeOK, Inv

-----------------------------------------------------------------------------

\* What a step keeps of a state that is settled.
Kept(d) == /\ crypto'[d] # None
           /\ crypto'[d].id = crypto[d].id
           /\ crypto[d].session => crypto'[d].session
           /\ crypto[d].verdict # "pending" => crypto'[d].verdict = crypto[d].verdict

\* An entry that only takes a verdict, or none, is kept.
LEMMA VerdictKept ==
    ASSUME TypeInv, NEW d \in Device, crypto[d] # None, NEW v \in {"accepted", "rejected"},
           crypto'[d] = Verdict(crypto[d], v) \/ crypto'[d] = crypto[d]
    PROVE  Kept(d)
<1>1. crypto[d] \in CryptoState \cup {None}
  BY DEF TypeInv
<1> QED
  BY <1>1, VerdictKeeps DEF Kept

\* Evicting a device leaves the entries of the others.
LEMMA EvictKept ==
    ASSUME TypeInv, NEW d \in Device, NEW e \in Device, Evict(e),
           crypto[d] # None, connected'[d] # "none"
    PROVE  Kept(d)
<1>1. e # d
  BY DEF Evict, TypeInv
<1>2. crypto'[d] = crypto[d]
  BY <1>1 DEF Evict, TypeInv
<1> QED
  BY <1>2 DEF Kept

\* One step of a task that is not an outbound attempt on the device keeps its state.
LEMMA TaskKept ==
    ASSUME TypeInv, NEW t \in Task, Step(t), NEW d \in Device, crypto[d] # None, ~Attempting(d)
    PROVE  Kept(d)
<1>1. CASE IdentityReady(t)
  <2>1. task[t] \in Call /\ task[t].dev \in Device
    BY <1>1, BusyTask DEF IdentityReady, Call
  <2>2. task[t].dev # d
    BY <1>1 DEF IdentityReady, Attempting
  <2>3. crypto'[d] = crypto[d]
    BY <1>1, <2>1, <2>2 DEF IdentityReady, PutCrypto, TypeInv
  <2> QED
    BY <2>3 DEF Kept
<1>2. CASE InitiateFails(t)
  <2>1. crypto' = [crypto EXCEPT ![task[t].dev] = Verdict(crypto[task[t].dev], "rejected")]
    BY <1>2 DEF InitiateFails
  <2>2. crypto'[d] = Verdict(crypto[d], "rejected") \/ crypto'[d] = crypto[d]
    BY <2>1 DEF TypeInv
  <2> QED
    BY <2>2, VerdictKept
<1>3. CASE ResponderReady(t)
  <2>1. crypto'[d] = crypto[d]
    BY <1>3 DEF ResponderReady, PutCrypto, TypeInv
  <2> QED
    BY <2>1 DEF Kept
<1>4. ASSUME crypto' = crypto
      PROVE  Kept(d)
  BY <1>4 DEF Kept
<1> QED
  BY <1>1, <1>2, <1>3, <1>4
     DEF Step, Sighting, HandshakeFrame, Connected, SetupFails, SetupDone, SendDone, ResponderFails

LEMMA SettledStep ==
    ASSUME Inv, [Next]_vars, NEW d \in Device,
           crypto[d] # None, connected'[d] # "none", mesh' # "off", ~Attempting(d)
    PROVE  Kept(d)
<1> USE DEF Inv
<1>1. CASE \E t \in Task : Step(t)
  BY <1>1, TaskKept
<1>2. ASSUME NEW e \in Device, Native(e)
      PROVE  Kept(d)
  <2>1. CASE HandshakeDone(e)
    <3>1. crypto[d] \in CryptoState
      BY DEF TypeInv
    <3>2. /\ crypto[d] \in CryptoState => [crypto[d] EXCEPT !.session = TRUE, !.overdue = FALSE] # None
          /\ crypto'[d] = crypto[d] \/ crypto'[d] = [crypto[d] EXCEPT !.session = TRUE, !.overdue = FALSE]
      <4>1. [crypto[d] EXCEPT !.session = TRUE, !.overdue = FALSE] \in CryptoState
        BY <3>1 DEF CryptoState
      <4>2. crypto' = [crypto EXCEPT ![e] = [crypto[e] EXCEPT !.session = TRUE, !.overdue = FALSE]]
        BY <2>1 DEF HandshakeDone, TypeInv, CryptoState
      <4> QED
        BY <4>1, <4>2, TransportAssumption DEF TypeInv
    <3> QED
      BY <3>1, <3>2 DEF Kept, CryptoState
  <2>2. CASE HandshakeFails(e)
    <3>1. crypto'[d] = Verdict(crypto[d], "rejected") \/ crypto'[d] = crypto[d]
      BY <2>2 DEF HandshakeFails, TypeInv
    <3> QED
      BY <3>1, VerdictKept
  <2>3. CASE OutboundDown(e) \/ InboundDown(e)
    BY <2>3, EvictKept DEF OutboundDown, InboundDown
  <2> QED
    BY <1>2, <2>1, <2>2, <2>3 DEF Native, InboundUp, SilentDown, Kept
<1>3. CASE User
  <2>1. PICK id \in Id : AcceptPeer(id) \/ RejectPeer(id)
    BY <1>3 DEF User
  <2> DEFINE f == FirstMatch(id)
  <2>2. PICK v \in {"accepted", "rejected"} :
           crypto' = [crypto EXCEPT ![f] = Verdict(crypto[f], v)]
    BY <2>1 DEF AcceptPeer, RejectPeer
  <2> HIDE DEF f
  <2>3. crypto'[d] = Verdict(crypto[d], v) \/ crypto'[d] = crypto[d]
    BY <2>2 DEF TypeInv
  <2> QED
    BY <2>3, VerdictKept
<1>4. CASE TimeoutTick
  <2>1. crypto'[d] = Verdict(crypto[d], "rejected") \/ crypto'[d] = crypto[d]
    BY <1>4 DEF TimeoutTick
  <2> QED
    BY <2>1, VerdictKept
<1>5. ASSUME NEW e \in Device, Overdue(e)
      PROVE  Kept(d)
  <2>1. crypto[d] \in CryptoState
    BY DEF TypeInv
  <2>2. [crypto[d] EXCEPT !.overdue = TRUE] \in CryptoState
    BY <2>1 DEF CryptoState
  <2>3. crypto'[d] = crypto[d] \/ crypto'[d] = [crypto[d] EXCEPT !.overdue = TRUE]
    BY <1>5 DEF Overdue, TypeInv
  <2>4. crypto'[d] # None
    BY <2>2, <2>3, TransportAssumption
  <2> QED
    BY <2>1, <2>3, <2>4 DEF Kept, CryptoState
<1>6. CASE StartStop
  <2>1. ASSUME NEW e \in Device, StopDevice(e)
        PROVE  Kept(d)
    <3>1. CASE e \in outLink
      BY <2>1, <3>1, EvictKept DEF StopDevice
    <3>2. CASE e \notin outLink
      BY <2>1, <3>2 DEF StopDevice, Kept
    <3> QED
      BY <3>1, <3>2
  <2> QED
    BY <1>6, <2>1
       DEF StartStop, StartBegin, StartEnd, StopBegin, StopTimers, StopListeners, StopEnd, Kept
<1>7. CASE UNCHANGED vars
  BY <1>7 DEF vars, Kept
<1> QED
  BY <1>1, <1>2, <1>3, <1>4, <1>5, <1>6, <1>7 DEF Next, Timer, GcTick, BackoffExpires, Kept

\* S1: a session or a verdict outlives everything but a disconnect, stopMesh
\* and an outbound attempt on the same device.
THEOREM SettledKept == Spec => SettledStateKept
<1>1. ASSUME Inv, [Next]_vars
      PROVE  \A d \in Device :
                (/\ crypto[d] # None
                 /\ connected'[d] # "none"
                 /\ mesh' # "off"
                 /\ ~Attempting(d))
                => /\ crypto'[d] # None
                   /\ crypto'[d].id = crypto[d].id
                   /\ crypto[d].session => crypto'[d].session
                   /\ crypto[d].verdict # "pending" => crypto'[d].verdict = crypto[d].verdict
  BY <1>1, SettledStep DEF Kept
<1> QED
  BY <1>1, Invariance, PTL DEF Spec, SettledStateKept

LEMMA WindowStep ==
    ASSUME Inv, [Next]_vars, NEW d \in Device, backoff[d] = "armed", backoff'[d] # "armed"
    PROVE  backoff'[d] = "expired" \/ connected'[d] = "out" \/ mesh' = "off"
<1> USE DEF Inv, TypeInv
<1>1. ASSUME NEW e \in Device
      PROVE  ~Evict(e)
  BY DEF Evict, ClearedBackoff
<1>2. ASSUME NEW t \in Task, SetupFails(t)
      PROVE  FALSE
  BY <1>2 DEF SetupFails
<1>3. ASSUME NEW t \in Task, SetupDone(t)
      PROVE  connected'[d] = "out"
  BY <1>3 DEF SetupDone, PutConnected
<1>4. ASSUME NEW e \in Device, BackoffExpires(e)
      PROVE  backoff'[d] = "expired"
  BY <1>4 DEF BackoffExpires
<1>5. ~GcTick
  BY DEF GcTick
<1>6. CASE \E t \in Task : Step(t)
  BY <1>6, <1>2, <1>3
     DEF Step, Sighting, HandshakeFrame, Connected, IdentityReady, SendDone, InitiateFails,
         ResponderReady, ResponderFails
<1>7. CASE \E e \in Device : Native(e)
  BY <1>7, <1>1
     DEF Native, HandshakeDone, HandshakeFails, InboundUp, OutboundDown, InboundDown, SilentDown
<1>8. CASE User
  BY <1>8 DEF User, AcceptPeer, RejectPeer
<1>9. CASE Timer
  BY <1>9, <1>4, <1>5 DEF Timer, TimeoutTick, Overdue
<1>10. CASE StartStop
  BY <1>10, <1>1
     DEF StartStop, StartBegin, StartEnd, StopBegin, StopTimers, StopListeners, StopEnd, StopDevice
<1>11. CASE UNCHANGED vars
  BY <1>11 DEF vars
<1> QED
  BY <1>6, <1>7, <1>8, <1>9, <1>10, <1>11 DEF Next

\* F1: only time, a successful attempt and stopMesh end an armed retry window.
THEOREM WindowKept == Spec => ArmedWindowKept
<1>1. ASSUME Inv, [Next]_vars
      PROVE  \A d \in Device :
                backoff[d] = "armed" /\ backoff'[d] # "armed"
                => backoff'[d] = "expired" \/ connected'[d] = "out" \/ mesh' = "off"
  BY <1>1, WindowStep
<1> QED
  BY <1>1, Invariance, PTL DEF Spec, ArmedWindowKept
-----------------------------------------------------------------------------
(* What stopMesh() leaves behind *)

\* No connect that was in flight ends after connectedDevices was cleared and
\* before the mesh is started again.
NoLateConnect ==
    [][\A t \in Task : SetupDone(t) => mesh \notin {"clearing", "off"}]_vars

Cleared == mesh \in {"clearing", "off"} => \A d \in Device : connected[d] = "none"

\* With the maps cleared, only the end of a connect enters connected.
LEMMA ClearedStep ==
    ASSUME Inv, Cleared, [Next]_vars,
           \A t \in Task : SetupDone(t) => mesh \notin {"clearing", "off"}
    PROVE  Cleared'
<1> SUFFICES ASSUME mesh' \in {"clearing", "off"}
             PROVE  \A d \in Device : connected'[d] = "none"
  BY DEF Cleared
<1> USE DEF Inv, TypeInv, Cleared
<1>1. ASSUME NEW t \in Task, Step(t)
      PROVE  connected' = connected /\ mesh' = mesh
  <2>1. CASE SetupDone(t)
    BY <2>1 DEF SetupDone
  <2>2. CASE \E d \in Device : Sighting(t, d) \/ HandshakeFrame(t, d)
    BY <2>2 DEF Sighting, HandshakeFrame
  <2>3. CASE Connected(t) \/ SetupFails(t) \/ IdentityReady(t) \/ SendDone(t)
    BY <2>3 DEF Connected, SetupFails, IdentityReady, SendDone
  <2>4. CASE InitiateFails(t) \/ ResponderReady(t) \/ ResponderFails(t)
    BY <2>4 DEF InitiateFails, ResponderReady, ResponderFails
  <2> QED
    BY <1>1, <2>1, <2>2, <2>3, <2>4 DEF Step
<1>2. ASSUME NEW d \in Device, Native(d)
      PROVE  mesh' = mesh /\ \A e \in Device : connected'[e] \in {connected[e], "none"}
  <2>1. CASE HandshakeDone(d) \/ HandshakeFails(d) \/ SilentDown(d)
    BY <2>1 DEF HandshakeDone, HandshakeFails, SilentDown
  <2>2. CASE InboundUp(d)
    BY <2>2 DEF InboundUp
  <2>3. CASE OutboundDown(d) \/ InboundDown(d)
    BY <2>3 DEF OutboundDown, InboundDown, Evict
  <2> QED
    BY <1>2, <2>1, <2>2, <2>3 DEF Native
<1>3. CASE User
  BY <1>3 DEF User, AcceptPeer, RejectPeer
<1>4. CASE Timer
  BY <1>4 DEF Timer, TimeoutTick, GcTick, Overdue, BackoffExpires
<1>5. CASE StartStop
  <2>1. CASE StartBegin \/ StartEnd \/ StopBegin \/ StopTimers
    BY <2>1 DEF StartBegin, StartEnd, StopBegin, StopTimers
  <2>2. CASE StopListeners
    BY <2>2 DEF StopListeners
  <2>3. CASE StopEnd
    BY <2>3 DEF StopEnd
  <2>4. ASSUME NEW d \in Device, StopDevice(d)
        PROVE  \A e \in Device : connected'[e] = "none"
    BY <2>4 DEF StopDevice
  <2> QED
    BY <1>5, <2>1, <2>2, <2>3, <2>4 DEF StartStop
<1>6. CASE UNCHANGED vars
  BY <1>6 DEF vars
<1> QED
  BY <1>1, <1>2, <1>3, <1>4, <1>5, <1>6 DEF Next

\* "disconnect all peers, clear all state" (stopMesh): whenever the mesh is off
\* nothing is connected and no state is left, unless a connect that was in
\* flight ended after the clearing.  What the run transport_stop shows is due to
\* that one step.
THEOREM StoppedIsClear == Spec /\ NoLateConnect => []StopClearsAll
<1>1. Init => Cleared
  BY DEF Init, Cleared
<1>2. /\ Inv /\ Cleared /\ [Next]_vars
      /\ [\A t \in Task : SetupDone(t) => mesh \notin {"clearing", "off"}]_vars
      => Cleared'
  <2>1. CASE UNCHANGED vars
    BY <2>1 DEF vars, Cleared
  <2> QED
    BY <2>1, ClearedStep
<1>3. Inv /\ Cleared => StopClearsAll
  BY DEF Inv, NoOrphanCrypto, Cleared, StopClearsAll
<1> QED
  BY <1>1, <1>2, <1>3, Invariance, PTL DEF Spec, NoLateConnect
-----------------------------------------------------------------------------
(* Whose id is kept for an address *)

OwnCrypto   == \A d \in Device : crypto[d] # None => crypto[d].id \in {PeerOf[d], d}
OwnRegistry == \A q \in Peer : registry[q] # None => PeerOf[registry[q]] = q
OwnTask(t)  == /\ task[t].pc # "idle" => task[t].id \in {PeerOf[task[t].dev], task[t].dev}
               /\ task[t].pc \in {"connect", "setup"} => task[t].id = PeerOf[task[t].dev]

OwnIds == OwnCrypto /\ OwnRegistry /\ \A t \in Task : OwnTask(t)

\* A call starts with the id its address advertises, or, for an incoming frame,
\* with the one the registry knows the address by.
LEMMA OwnTaskStep ==
    ASSUME Inv, OwnIds, NEW t \in Task, Step(t)
    PROVE  \A u \in Task : OwnTask(u)'
<1> USE DEF Inv, TypeInv, OwnIds
<1>1. ASSUME NEW u \in Task, u # t
      PROVE  task'[u] = task[u]
  BY <1>1 DEF Step, Sighting, HandshakeFrame, Connected, SetupFails, SetupDone, IdentityReady,
              SendDone, InitiateFails, ResponderReady, ResponderFails, Becomes, Ends
<1>2. OwnTask(t)'
  <2>1. ASSUME NEW d \in Device, Sighting(t, d)
        PROVE  OwnTask(t)'
    BY <2>1 DEF Sighting, OwnTask
  <2>2. ASSUME NEW d \in Device, HandshakeFrame(t, d)
        PROVE  OwnTask(t)'
    <3>1. IdOf(d) \in {PeerOf[d], d}
      <4>1. CASE \E q \in Peer : registry[q] = d
        <5>1. PICK q \in Peer : IdOf(d) = q /\ registry[q] = d
          BY <4>1 DEF IdOf
        <5>2. d # None
          BY TransportAssumption
        <5> QED
          BY <5>1, <5>2 DEF OwnRegistry
      <4>2. CASE ~\E q \in Peer : registry[q] = d
        BY <4>2 DEF IdOf
      <4> QED
        BY <4>1, <4>2
    <3>2. task'[t] = [pc |-> "responder", dev |-> d, id |-> IdOf(d)]
      BY <2>2 DEF HandshakeFrame
    <3> QED
      BY <3>1, <3>2 DEF OwnTask
  <2>3. CASE task'[t] = NoTask
    BY <2>3 DEF OwnTask, NoTask
  <2>4. ASSUME NEW pc, task' = [task EXCEPT ![t].pc = pc], task[t].pc # "idle",
               pc \in {"connect", "setup"} => task[t].pc \in {"connect", "setup"}
        PROVE  OwnTask(t)'
    <3>1. task[t] \in Call
      BY <2>4, BusyTask
    <3>2. task'[t].pc = pc /\ task'[t].dev = task[t].dev /\ task'[t].id = task[t].id
      BY <2>4, <3>1 DEF Call
    <3> QED
      BY <2>4, <3>2 DEF OwnTask
  <2>5. CASE Connected(t)
    BY <2>5, <2>4 DEF Connected, Becomes
  <2>6. CASE SetupDone(t)
    BY <2>6, <2>4 DEF SetupDone, Becomes
  <2>7. CASE IdentityReady(t)
    <3>1. CASE Becomes(t, "sending")
      BY <2>7, <3>1, <2>4 DEF IdentityReady, Becomes
    <3> QED
      BY <2>7, <2>3, <3>1 DEF IdentityReady, Ends
  <2>8. CASE SetupFails(t) \/ SendDone(t) \/ InitiateFails(t) \/ ResponderReady(t) \/ ResponderFails(t)
    BY <2>8, <2>3 DEF SetupFails, SendDone, InitiateFails, ResponderReady, ResponderFails, Ends
  <2> QED
    BY <2>1, <2>2, <2>5, <2>6, <2>7, <2>8 DEF Step
<1> QED
  BY <1>1, <1>2 DEF OwnTask

\* A connect registers an address for the id it advertises; nothing else does.
LEMMA OwnRegistryStep ==
    ASSUME Inv, OwnIds, [Next]_vars
    PROVE  OwnRegistry'
<1> USE DEF Inv, TypeInv, OwnIds
<1>1. ASSUME NEW t \in Task, SetupDone(t)
      PROVE  OwnRegistry'
  <2>1. task[t] \in Call /\ task[t].id = PeerOf[task[t].dev]
    BY <1>1, BusyTask DEF SetupDone, OwnTask
  <2>2. registry' = [registry EXCEPT ![task[t].id] = task[t].dev]
    BY <1>1 DEF SetupDone
  <2> QED
    BY <2>1, <2>2 DEF OwnRegistry
<1>2. CASE GcTick
  BY <1>2 DEF GcTick, OwnRegistry
<1>3. CASE StopEnd
  BY <1>3 DEF StopEnd, OwnRegistry
<1>4. CASE registry' = registry
  BY <1>4 DEF OwnRegistry
<1>5. ASSUME NEW t \in Task, Step(t)
      PROVE  SetupDone(t) \/ registry' = registry
  BY <1>5 DEF Step, Sighting, HandshakeFrame, Connected, SetupFails, IdentityReady, SendDone,
              InitiateFails, ResponderReady, ResponderFails
<1>6. ASSUME NEW d \in Device, Native(d)
      PROVE  registry' = registry
  BY <1>6 DEF Native, HandshakeDone, HandshakeFails, InboundUp, OutboundDown, InboundDown, SilentDown
<1>7. User => registry' = registry
  BY DEF User, AcceptPeer, RejectPeer
<1>8. Timer => GcTick \/ registry' = registry
  BY DEF Timer, TimeoutTick, Overdue, BackoffExpires
<1>9. StartStop => StopEnd \/ registry' = registry
  BY DEF StartStop, StartBegin, StartEnd, StopBegin, StopTimers, StopListeners, StopDevice
<1>10. UNCHANGED vars => registry' = registry
  BY DEF vars
<1> QED
  BY <1>1, <1>2, <1>3, <1>4, <1>5, <1>6, <1>7, <1>8, <1>9, <1>10 DEF Next

\* What is left of an entry after a step that puts no fresh state in its place.
SameId(d) == crypto'[d] # None => crypto[d] # None /\ crypto'[d].id = crypto[d].id

\* A verdict on an entry keeps its id.
LEMMA VerdictSameId ==
    ASSUME TypeInv, NEW d \in Device, NEW v \in {"accepted", "rejected"},
           crypto'[d] = Verdict(crypto[d], v) \/ crypto'[d] = crypto[d]
    PROVE  SameId(d)
<1>1. crypto[d] \in CryptoState \cup {None}
  BY DEF TypeInv
<1>2. CASE crypto'[d] = Verdict(crypto[d], v)
  <2>1. /\ crypto[d] # None => Verdict(crypto[d], v).id = crypto[d].id
        /\ crypto[d] = None => Verdict(crypto[d], v) = None
    BY <1>1, VerdictKeeps
  <2> QED
    BY <1>2, <2>1 DEF SameId
<1>3. CASE crypto'[d] = crypto[d]
  BY <1>3 DEF SameId
<1> QED
  BY <1>2, <1>3

\* Only the two calls that read the identity put a fresh state, for their id.
LEMMA OwnCryptoTask ==
    ASSUME Inv, OwnIds, NEW t \in Task, Step(t), NEW d \in Device
    PROVE  SameId(d) \/ (crypto'[d] # None => crypto'[d].id \in {PeerOf[d], d})
<1> USE DEF Inv, TypeInv, OwnIds
<1>1. CASE IdentityReady(t) \/ ResponderReady(t)
  <2>1. task[t] \in Call /\ task[t].id \in {PeerOf[task[t].dev], task[t].dev}
    BY <1>1, BusyTask DEF IdentityReady, ResponderReady, OwnTask
  <2>2. crypto' = crypto \/ crypto' = [crypto EXCEPT ![task[t].dev] = Fresh(task[t].id)]
    BY <1>1 DEF IdentityReady, ResponderReady, PutCrypto
  <2>3. Fresh(task[t].id).id = task[t].id
    BY DEF Fresh
  <2> QED
    BY <2>1, <2>2, <2>3 DEF SameId
<1>2. CASE InitiateFails(t)
  <2>1. crypto' = [crypto EXCEPT ![task[t].dev] = Verdict(crypto[task[t].dev], "rejected")]
    BY <1>2 DEF InitiateFails
  <2>2. crypto'[d] = Verdict(crypto[d], "rejected") \/ crypto'[d] = crypto[d]
    BY <2>1
  <2> QED
    BY <2>2, VerdictSameId
<1>3. crypto' = crypto => SameId(d)
  BY DEF SameId
<1> QED
  BY <1>1, <1>2, <1>3
     DEF Step, Sighting, HandshakeFrame, Connected, SetupFails, SetupDone, SendDone, ResponderFails

\* Every other step keeps the ids of the entries it leaves.
LEMMA OwnCryptoOther ==
    ASSUME Inv, [Next]_vars, ~\E t \in Task : Step(t), NEW d \in Device
    PROVE  SameId(d)
<1> USE DEF Inv
<1>1. ASSUME NEW e \in Device, Evict(e)
      PROVE  SameId(d)
  BY <1>1 DEF Evict, TypeInv, SameId
<1>2. ASSUME NEW cs \in CryptoState
      PROVE  /\ [cs EXCEPT !.overdue = TRUE].id = cs.id
             /\ [cs EXCEPT !.session = TRUE, !.overdue = FALSE].id = cs.id
  BY DEF CryptoState
<1>3. crypto[d] # None => crypto[d] \in CryptoState
  BY DEF TypeInv
<1>4. ASSUME NEW e \in Device, Native(e)
      PROVE  SameId(d)
  <2>1. CASE HandshakeDone(e)
    <3>1. crypto[e] \in CryptoState
      BY <2>1 DEF HandshakeDone, TypeInv
    <3>2. crypto' = [crypto EXCEPT ![e] = [crypto[e] EXCEPT !.session = TRUE, !.overdue = FALSE]]
      BY <2>1, <3>1 DEF HandshakeDone, TypeInv, CryptoState
    <3>3. crypto[e] # None
      BY <2>1 DEF HandshakeDone
    <3> QED
      BY <1>2, <3>1, <3>2, <3>3 DEF SameId, TypeInv
  <2>2. CASE HandshakeFails(e)
    <3>1. crypto'[d] = Verdict(crypto[d], "rejected") \/ crypto'[d] = crypto[d]
      BY <2>2 DEF HandshakeFails, TypeInv
    <3> QED
      BY <3>1, VerdictSameId
  <2>3. CASE OutboundDown(e) \/ InboundDown(e)
    BY <1>1, <2>3 DEF OutboundDown, InboundDown
  <2> QED
    BY <1>4, <2>1, <2>2, <2>3 DEF Native, InboundUp, SilentDown, SameId
<1>5. CASE User
  <2>1. PICK id \in Id : AcceptPeer(id) \/ RejectPeer(id)
    BY <1>5 DEF User
  <2> DEFINE f == FirstMatch(id)
  <2>2. PICK v \in {"accepted", "rejected"} :
           crypto' = [crypto EXCEPT ![f] = Verdict(crypto[f], v)]
    BY <2>1 DEF AcceptPeer, RejectPeer
  <2> HIDE DEF f
  <2>3. crypto'[d] = Verdict(crypto[d], v) \/ crypto'[d] = crypto[d]
    BY <2>2 DEF TypeInv
  <2> QED
    BY <2>3, VerdictSameId
<1>6. CASE TimeoutTick
  <2>1. crypto'[d] = Verdict(crypto[d], "rejected") \/ crypto'[d] = crypto[d]
    BY <1>6 DEF TimeoutTick
  <2> QED
    BY <2>1, VerdictSameId
<1>7. ASSUME NEW e \in Device, Overdue(e)
      PROVE  SameId(d)
  <2>1. crypto[e] # None /\ crypto' = [crypto EXCEPT ![e] = [crypto[e] EXCEPT !.overdue = TRUE]]
    BY <1>7 DEF Overdue
  <2> QED
    BY <1>2, <1>3, <2>1 DEF SameId, TypeInv
<1>8. CASE StartStop
  <2>1. ASSUME NEW e \in Device, StopDevice(e)
        PROVE  SameId(d)
    BY <1>1, <2>1 DEF StopDevice, SameId
  <2>2. CASE StopEnd
    BY <2>2 DEF StopEnd, SameId
  <2> QED
    BY <1>8, <2>1, <2>2
       DEF StartStop, StartBegin, StartEnd, StopBegin, StopTimers, StopListeners, SameId
<1>9. crypto' = crypto => SameId(d)
  BY DEF SameId
<1> QED
  BY <1>4, <1>5, <1>6, <1>7, <1>8, <1>9 DEF Next, Timer, GcTick, BackoffExpires, vars

LEMMA OwnStep ==
    ASSUME Inv, OwnIds, [Next]_vars
    PROVE  OwnIds'
<1>1. \A d \in Device : SameId(d) \/ (crypto'[d] # None => crypto'[d].id \in {PeerOf[d], d})
  BY OwnCryptoTask, OwnCryptoOther
<1>2. OwnCrypto'
  BY <1>1 DEF OwnIds, OwnCrypto, SameId
<1>3. task' = task => \A t \in Task : OwnTask(t)'
  BY DEF OwnIds, OwnTask
<1>4. (\E t \in Task : Step(t)) \/ task' = task
  BY DEF Next, Native, HandshakeDone, HandshakeFails, InboundUp, OutboundDown, InboundDown, SilentDown,
         User, AcceptPeer, RejectPeer, Timer, TimeoutTick, GcTick, Overdue, BackoffExpires,
         StartStop, StartBegin, StartEnd, StopBegin, StopTimers, StopListeners, StopEnd, StopDevice, vars
<1>5. \A t \in Task : OwnTask(t)'
  BY <1>3, <1>4, OwnTaskStep
<1> QED
  BY <1>2, <1>5, OwnRegistryStep DEF OwnIds

\* #80: the id a handshake state, a registry entry or a suspended call holds for
\* an address is the one that address advertises or, where none is known, the
\* address itself: no identity read that ends late files a state under the id
\* of another address.
THEOREM OwnIdsKept == Spec => []OwnIds
<1>1. Init => OwnIds
  BY DEF Init, OwnIds, OwnCrypto, OwnRegistry, OwnTask, NoTask
<1>2. Inv /\ OwnIds /\ [Next]_vars => OwnIds'
  BY OwnStep
<1> QED
  BY <1>1, <1>2, Invariance, PTL DEF Spec

-----------------------------------------------------------------------------
(* acceptPeer() while no peer changes its address *)

\* Each peer advertises from one address, and no id reads like an address.
OneAddress ==
    /\ \A d, e \in Device : PeerOf[d] = PeerOf[e] => d = e
    /\ Peer \cap Device = {}

\* The first match in a sequence without repetitions that only d can match.
LEMMA OnlyMatch ==
    ASSUME NEW s \in Seq(Device), IsInjective(s), NEW d \in Range(s),
           NEW I, I = {} \/ I = {i \in 1..Len(s) : s[i] = d}
    PROVE  /\ I # {} => Min(I) \in Nat \ {0} /\ s[Min(I)] = d
           /\ I = {i \in 1..Len(s) : s[i] = d} => I # {}
<1>1. PICK k \in 1..Len(s) : s[k] = d
  BY DEF Range
<1>2. \A i \in 1..Len(s) : s[i] = d => i = k
  BY <1>1 DEF IsInjective
<1>3. {i \in 1..Len(s) : s[i] = d} = {k}
  BY <1>1, <1>2
<1>4. Min({k}) = k /\ {k} # {}
  BY <1>1 DEF Min
<1>5. CASE I = {}
  BY <1>3, <1>4, <1>5
<1>6. CASE I = {k}
  <2>1. Min(I) = k
    BY <1>4, <1>6
  <2> QED
    BY <1>1, <1>6, <2>1
<1> QED
  BY <1>3, <1>5, <1>6

\* With one address per peer an id belongs to one entry at most.
LEMMA OneEntry ==
    ASSUME OneAddress, NEW d \in Device, NEW e \in Device, NEW x, NEW y,
           x \in {PeerOf[d], d}, y \in {PeerOf[e], e}, x = y
    PROVE  d = e
<1>1. PeerOf[d] \in Peer /\ PeerOf[e] \in Peer
  BY TransportAssumption
<1> QED
  BY <1>1 DEF OneAddress

\* So the user's verdict meets the entry the panel asks about,
LEMMA AcceptMeets ==
    ASSUME OneAddress, TypeInv, OrderInv, OwnIds, NEW d \in Device, crypto[d] # None
    PROVE  FirstMatch(crypto[d].id) = d
<1> DEFINE id == crypto[d].id
           I  == {i \in 1..Len(order) : crypto[order[i]].id = id}
<1>1. d \in Range(order) /\ order \in Seq(Device) /\ IsInjective(order)
  BY DEF OrderInv
<1>2. ASSUME NEW i \in 1..Len(order), crypto[order[i]].id = id
      PROVE  order[i] = d
  <2>1. order[i] \in Device /\ crypto[order[i]] # None
    BY <1>1 DEF OrderInv, Range
  <2> QED
    BY <1>2, <2>1, OneEntry DEF OwnIds, OwnCrypto
<1>3. I = {i \in 1..Len(order) : order[i] = d}
  BY <1>2
<1>4. I # {} /\ Min(I) \in Nat \ {0} /\ order[Min(I)] = d
  BY <1>1, <1>3, OnlyMatch
<1>5. FirstMatch(id) = IF Min(I) = 0 THEN None ELSE order[Min(I)]
  BY <1>4 DEF FirstMatch, SelectInSeq
<1> QED
  BY <1>4, <1>5

\* and sendFrame() resolves the id to the same entry.
LEMMA SendMeets ==
    ASSUME OneAddress, TypeInv, OrderInv, OwnIds, NEW d \in Device, crypto[d] # None
    PROVE  SendTarget(crypto[d].id) = d
<1> DEFINE id == crypto[d].id
           J  == {i \in 1..Len(order) : crypto[order[i]].id = id /\ connected[order[i]] # "none"}
<1>1. CASE id \in Peer /\ registry[id] # None
  <2>1. registry[id] \in Device /\ PeerOf[registry[id]] = id
    BY <1>1 DEF TypeInv, OwnIds, OwnRegistry
  <2>2. registry[id] = d
    BY <2>1, OneEntry DEF OwnIds, OwnCrypto
  <2> QED
    BY <1>1, <2>2 DEF SendTarget
<1>2. CASE ~(id \in Peer /\ registry[id] # None)
  <2>1. d \in Range(order) /\ order \in Seq(Device) /\ IsInjective(order)
    BY DEF OrderInv
  <2>2. ASSUME NEW i \in 1..Len(order), crypto[order[i]].id = id
        PROVE  order[i] = d
    <3>1. order[i] \in Device /\ crypto[order[i]] # None
      BY <2>1 DEF OrderInv, Range
    <3> QED
      BY <2>2, <3>1, OneEntry DEF OwnIds, OwnCrypto
  <2>3. J = {} \/ J = {i \in 1..Len(order) : order[i] = d}
    BY <2>2
  <2>4. J # {} => Min(J) # 0 /\ order[Min(J)] = d
    BY <2>1, <2>3, OnlyMatch
  <2>5. SendTarget(id) = IF (IF J # {} THEN Min(J) ELSE 0) # 0
                         THEN order[IF J # {} THEN Min(J) ELSE 0] ELSE FirstMatch(id)
    BY <1>2 DEF SendTarget, SelectInSeq
  <2> QED
    BY <2>4, <2>5, AcceptMeets
<1> QED
  BY <1>1, <1>2

\* Both find the one entry an id stands for.
Resolved == \A d \in Device : crypto[d] # None => /\ FirstMatch(crypto[d].id) = d
                                                 /\ SendTarget(crypto[d].id) = d

\* acceptPeer, rejectPeer and sendFrame mean the same entry by an id in every
\* state, as long as each peer advertises from one address.
THEOREM IdsResolve == OneAddress /\ Spec => []Resolved
<1> SUFFICES ASSUME OneAddress PROVE Spec => []Resolved
  OBVIOUS
<1>1. TypeInv /\ OrderInv /\ OwnIds => Resolved
  BY AcceptMeets, SendMeets DEF Resolved
<1> QED
  BY <1>1, TypeCorrect, OwnIdsKept, PTL DEF TypeOK

\* "unblocks sendFrame to that peer" (acceptPeer): it does whenever each peer
\* advertises from one address.  What the run transport_accept shows is due to a
\* peer that rotates its address.
THEOREM AcceptMeant == OneAddress /\ Spec => AcceptUnblocks
<1> SUFFICES ASSUME OneAddress PROVE Spec => AcceptUnblocks
  OBVIOUS
<1>1. ASSUME TypeInv, Resolved, Resolved', NEW id \in Id, Asked(id), AcceptPeer(id)
      PROVE  CanSend(id)'
  <2>1. PICK d \in Device : crypto[d] # None /\ crypto[d].id = id /\ crypto[d].session
    BY <1>1 DEF Asked
  <2>2. FirstMatch(id) = d
    BY <1>1, <2>1 DEF Resolved
  <2>3. /\ crypto[d].verdict = "pending"
        /\ crypto' = [crypto EXCEPT ![d] = Verdict(crypto[d], "accepted")]
    BY <1>1, <2>2 DEF AcceptPeer
  <2>4. crypto[d] \in CryptoState /\ crypto'[d] = Verdict(crypto[d], "accepted")
    BY <1>1, <2>1, <2>3 DEF TypeInv
  <2>5. crypto'[d] # None /\ crypto'[d].id = id /\ crypto'[d].session
    <3>1. \A cs \in CryptoState \cup {None} :
             cs # None => /\ Verdict(cs, "accepted") # None
                          /\ Verdict(cs, "accepted").id = cs.id
                          /\ Verdict(cs, "accepted").session = cs.session
      BY VerdictKeeps, Zenon
    <3>2. crypto[d] \in CryptoState \cup {None}
      BY <2>4
    <3> QED
      BY <2>1, <2>4, <3>1, <3>2, Zenon
  <2>6. crypto'[d].verdict = "accepted"
    <3>1. [crypto[d] EXCEPT !.verdict = "accepted", !.overdue = FALSE].verdict = "accepted"
      BY <2>4 DEF CryptoState
    <3> QED
      BY <2>1, <2>3, <2>4, <3>1 DEF Verdict
  <2>7. SendTarget(id)' = d
    BY <1>1, <2>5 DEF Resolved
  <2>8. d # None
    BY TransportAssumption
  <2> QED
    BY <2>5, <2>6, <2>7, <2>8 DEF CanSend
<1>2. TypeInv /\ Resolved /\ Resolved' /\ [Next]_vars
      => [\A id \in Id : Asked(id) /\ AcceptPeer(id) => CanSend(id)']_vars
  BY <1>1
<1> QED
  BY <1>2, TypeCorrect, IdsResolve, PTL DEF Spec, TypeOK, AcceptUnblocks
=============================================================================
