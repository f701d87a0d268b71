---------------------------- MODULE OutboxProofs ----------------------------
(***************************************************************************)
(* Safety of the outbox and its drainers for any set of messages and       *)
(* pages, any number of drains, any cap and any number of attempts.        *)
(***************************************************************************)
EXTENDS Outbox, FiniteSetTheorems, WellFoundedInduction, TLAPS

\* A drain that is going to mark its message as sent has seen the relay take
\* it.
SentInv == \A r \in Drain : drain[r].pc = "sent" => drain[r].msg \in relayed

\* The drains that are going to count a failure of a message.
Marking(m) == {r \in Drain : drain[r].pc = "failed" /\ drain[r].msg = m}

\* The failures an entry has counted, and those about to be counted, are
\* answers of the relay.
CountInv ==
    \A m \in Msg :
        /\ \/ refused[m] = MAX_OUTBOX_ATTEMPTS
           \/ store[m].attempts + Cardinality(Marking(m)) <= refused[m]
        /\ store[m].status = "failed" => store[m].attempts >= MAX_OUTBOX_ATTEMPTS

-----------------------------------------------------------------------------
(* Types *)

LEMMA EntryFacts ==
    ASSUME TypeOK, NEW m \in Msg
    PROVE  /\ store[m] \in Entry \cup {NoEntry}
           /\ store[m].attempts \in Nat
           /\ store[m].last \in Nat
           /\ store[m] = NoEntry <=> store[m] \notin Entry
           /\ store[m].status # "absent" => store[m] \in Entry
  BY DEF TypeOK, Entry, NoEntry

LEMMA BusyDrain ==
    ASSUME TypeOK, NEW r \in Drain, drain[r].pc # "idle"
    PROVE  /\ drain[r] \in Run
           /\ drain[r].page \in Page
           /\ drain[r].drained \in 0 .. MAX_DRAIN_PER_CYCLE
           /\ drain[r].pc \in {"send", "sent", "failed"} => drain[r].msg \in Msg
  BY DEF TypeOK, Idle, Run

LEMMA InitType == Init => TypeOK
  BY OutboxAssumption DEF Init, TypeOK, Idle

LEMMA StoreType ==
    ASSUME TypeOK, [Next]_vars
    PROVE  store' \in [Msg -> Entry \cup {NoEntry}]
<1> USE DEF TypeOK
<1>1. CASE \E m \in Msg : Enqueue(m)
  <2>1. [attempts |-> 0, last |-> 0, status |-> "pending"] \in Entry
    BY OutboxAssumption DEF Entry
  <2> QED
    BY <1>1, <2>1 DEF Enqueue
<1>2. CASE ClearFailed \/ \E cutoff \in 1 .. now : EvictOlderThan(cutoff)
  BY <1>2 DEF ClearFailed, EvictOlderThan
<1>3. ASSUME NEW r \in Drain, MarkSent(r)
      PROVE  store' \in [Msg -> Entry \cup {NoEntry}]
  <2>1. ASSUME NEW e \in Entry
        PROVE  [e EXCEPT !.status = "sent"] \in Entry
    BY DEF Entry
  <2> QED
    BY <1>3, <2>1 DEF MarkSent
<1>4. ASSUME NEW r \in Drain, MarkFailed(r)
      PROVE  store' \in [Msg -> Entry \cup {NoEntry}]
  <2>1. ASSUME NEW e \in Entry
        PROVE  Failed(e) \in Entry
    BY DEF Entry, Failed
  <2> QED
    BY <1>4, <2>1 DEF MarkFailed
<1>5. CASE UNCHANGED store
  BY <1>5
<1>6. ASSUME NEW r \in Drain, Step(r) \/ Throws(r)
      PROVE  store' \in [Msg -> Entry \cup {NoEntry}]
  BY <1>3, <1>4, <1>5, <1>6 DEF Step, TakeNext, DrainEnds, AnswerOk, AnswerNotOk, Throws
<1>7. ASSUME NEW p \in Page, OnlineEvent(p) \/ Reload(p)
      PROVE  UNCHANGED store
  BY <1>7 DEF OnlineEvent, Reload
<1>8. CASE Tick \/ GoOffline \/ GoOnline \/ UNCHANGED vars
  BY <1>5, <1>8 DEF Tick, GoOffline, GoOnline, vars
<1> QED
  BY <1>1, <1>2, <1>5, <1>6, <1>7, <1>8 DEF Next

LEMMA DrainType ==
    ASSUME TypeOK, [Next]_vars
    PROVE  /\ drain' \in [Drain -> Run \cup {Idle}]
           /\ \A r \in Drain : drain'[r].pc \in {"send", "sent", "failed"} => drain'[r].msg \in Msg
           /\ draining' \in [Page -> BOOLEAN]
<1> USE DEF TypeOK
<1>1. ASSUME NEW p \in Page, OnlineEvent(p)
      PROVE  /\ drain' \in [Drain -> Run \cup {Idle}]
             /\ \A r \in Drain : drain'[r].pc \in {"send", "sent", "failed"} => drain'[r].msg \in Msg
             /\ draining' \in [Page -> BOOLEAN]
  <2>1. [pc |-> "next", page |-> p, msg |-> None, drained |-> 0] \in Run
    BY OutboxAssumption DEF Run
  <2>2. CASE draining[p]
    BY <1>1, <2>2 DEF OnlineEvent
  <2>3. CASE ~draining[p]
    <3>1. PICK r \in Drain :
            /\ drain' = [drain EXCEPT ![r] =
                           [pc |-> "next", page |-> p, msg |-> None, drained |-> 0]]
            /\ draining' = [draining EXCEPT ![p] = TRUE]
      BY <1>1, <2>3 DEF OnlineEvent
    <3>2. drain' \in [Drain -> Run \cup {Idle}] /\ draining' \in [Page -> BOOLEAN]
      BY <2>1, <3>1
    <3>3. \A q \in Drain : drain'[q] = drain[q] \/ drain'[q].pc = "next"
      BY <3>1
    <3> QED
      BY <3>2, <3>3
  <2> QED
    BY <2>2, <2>3
<1>2. ASSUME NEW r \in Drain, Finishes(r)
      PROVE  /\ drain' \in [Drain -> Run \cup {Idle}]
             /\ \A q \in Drain : drain'[q].pc \in {"send", "sent", "failed"} => drain'[q].msg \in Msg
             /\ draining' \in [Page -> BOOLEAN]
  BY <1>2 DEF Finishes, Idle
<1>3. ASSUME NEW p \in Page, Reload(p)
      PROVE  /\ drain' \in [Drain -> Run \cup {Idle}]
             /\ \A q \in Drain : drain'[q].pc \in {"send", "sent", "failed"} => drain'[q].msg \in Msg
             /\ draining' \in [Page -> BOOLEAN]
  BY <1>3 DEF Reload, Idle
<1>4. ASSUME NEW r \in Drain, TakeNext(r) \/ AnswerOk(r) \/ AnswerNotOk(r) \/ MarkSent(r)
      PROVE  /\ drain' \in [Drain -> Run \cup {Idle}]
             /\ \A q \in Drain : drain'[q].pc \in {"send", "sent", "failed"} => drain'[q].msg \in Msg
             /\ draining' \in [Page -> BOOLEAN]
  <2>1. /\ drain[r] \in Run /\ drain[r].drained \in 0 .. MAX_DRAIN_PER_CYCLE
        /\ drain[r].pc # "next" => drain[r].msg \in Msg
    BY <1>4, BusyDrain DEF TakeNext, AnswerOk, AnswerNotOk, MarkSent, Run
  <2>2. CASE TakeNext(r)
    <3>1. PICK m \in Msg : drain' = [drain EXCEPT ![r].pc = "send", ![r].msg = m]
      BY <2>2 DEF TakeNext
    <3>2. [drain[r] EXCEPT !.pc = "send", !.msg = m] \in Run
      BY <2>1 DEF Run
    <3>3. drain' \in [Drain -> Run \cup {Idle}] /\ drain'[r].msg \in Msg
      BY <3>1, <3>2
    <3>4. \A q \in Drain \ {r} : drain'[q] = drain[q]
      BY <3>1
    <3>5. UNCHANGED draining
      BY <2>2 DEF TakeNext
    <3> QED
      BY <3>3, <3>4, <3>5
  <2>3. CASE AnswerOk(r) \/ AnswerNotOk(r)
    BY <2>1, <2>3 DEF AnswerOk, AnswerNotOk, Goes, Run
  <2>4. CASE MarkSent(r)
    BY <2>1, <2>4 DEF MarkSent, Run
  <2> QED
    BY <1>4, <2>2, <2>3, <2>4
<1>5. CASE UNCHANGED <<drain, draining>>
  BY <1>5
<1> QED
  BY <1>1, <1>2, <1>3, <1>4, <1>5
     DEF Next, Step, vars, network, budget, Enqueue, ClearFailed, EvictOlderThan, Tick,
         GoOffline, GoOnline, DrainEnds, MarkFailed, Throws

LEMMA RelayedType ==
    ASSUME TypeOK, [Next]_vars
    PROVE  /\ relayed \subseteq relayed'
           /\ relayed' \subseteq Msg
           /\ refused' \in [Msg -> 0 .. MAX_OUTBOX_ATTEMPTS]
<1> USE DEF TypeOK
<1>1. ASSUME NEW r \in Drain, AnswerOk(r)
      PROVE  /\ relayed \subseteq relayed' /\ relayed' \subseteq Msg
             /\ refused' = refused
  BY <1>1, BusyDrain DEF AnswerOk
<1>2. ASSUME NEW r \in Drain, AnswerNotOk(r)
      PROVE  /\ relayed \subseteq relayed' /\ relayed' \subseteq Msg
             /\ refused' \in [Msg -> 0 .. MAX_OUTBOX_ATTEMPTS]
  <2>1. drain[r].msg \in Msg
    BY <1>2, BusyDrain DEF AnswerNotOk
  <2>2. relayed' \in {relayed, relayed \cup {drain[r].msg}}
    BY <1>2 DEF AnswerNotOk
  <2>3. \A n \in 0 .. MAX_OUTBOX_ATTEMPTS :
          (IF n < MAX_OUTBOX_ATTEMPTS THEN n + 1 ELSE n) \in 0 .. MAX_OUTBOX_ATTEMPTS
    BY OutboxAssumption
  <2>4. refused' \in [Msg -> 0 .. MAX_OUTBOX_ATTEMPTS]
    BY <1>2, <2>1, <2>3 DEF AnswerNotOk
  <2> QED
    BY <2>1, <2>2, <2>4
<1>3. ASSUME NEW r \in Drain, Throws(r)
      PROVE  /\ relayed \subseteq relayed' /\ relayed' \subseteq Msg
             /\ refused' = refused
  <2>1. relayed' = relayed \/ (drain[r].pc = "send" /\ relayed' = relayed \cup {drain[r].msg})
    BY <1>3 DEF Throws
  <2> QED
    BY <1>3, <2>1, BusyDrain DEF Throws
<1>4. ASSUME NEW p \in Page, Reload(p)
      PROVE  /\ relayed \subseteq relayed' /\ relayed' \subseteq Msg
             /\ refused' = refused
  BY <1>4 DEF Reload
<1>5. CASE UNCHANGED <<relayed, refused>>
  BY <1>5
<1>6. ASSUME NEW r \in Drain, TakeNext(r) \/ DrainEnds(r) \/ MarkSent(r) \/ MarkFailed(r)
      PROVE  UNCHANGED <<relayed, refused>>
  BY <1>6 DEF TakeNext, DrainEnds, MarkSent, MarkFailed
<1>7. CASE (\E m \in Msg : Enqueue(m)) \/ ClearFailed \/ Tick \/ GoOffline \/ GoOnline
           \/ (\E cutoff \in 1 .. now : EvictOlderThan(cutoff))
           \/ (\E p \in Page : OnlineEvent(p)) \/ UNCHANGED vars
  <2>1. UNCHANGED <<relayed, refused>>
    BY <1>7 DEF Enqueue, ClearFailed, Tick, GoOffline, GoOnline, EvictOlderThan, OnlineEvent, vars
  <2> QED
    BY <1>5, <2>1
<1> QED
  BY <1>1, <1>2, <1>3, <1>4, <1>5, <1>6, <1>7 DEF Next, Step

LEMMA BudgetType ==
    ASSUME TypeOK, [Next]_vars
    PROVE  now' \in 1 .. MaxTime /\ enqueues' \in 0 .. MaxEnqueues /\ faults' \in 0 .. MaxFaults
<1> USE OutboxAssumption DEF TypeOK
<1>1. CASE Tick
  BY <1>1 DEF Tick
<1>2. CASE \E m \in Msg : Enqueue(m)
  BY <1>2 DEF Enqueue
<1>3. CASE (\E r \in Drain : Throws(r)) \/ \E p \in Page : Reload(p)
  <2>1. faults < MaxFaults /\ faults' = faults + 1 /\ UNCHANGED <<now, enqueues>>
    BY <1>3 DEF Throws, Reload
  <2> QED
    BY <2>1
<1>4. CASE UNCHANGED budget
  BY <1>4 DEF budget
<1>5. CASE \E r \in Drain : Step(r)
  <2>1. UNCHANGED budget
    BY <1>5 DEF Step, TakeNext, DrainEnds, AnswerOk, AnswerNotOk, MarkSent, MarkFailed
  <2> QED
    BY <1>4, <2>1
<1>6. CASE ClearFailed \/ GoOffline \/ GoOnline
           \/ (\E cutoff \in 1 .. now : EvictOlderThan(cutoff))
           \/ (\E p \in Page : OnlineEvent(p)) \/ UNCHANGED vars
  <2>1. UNCHANGED budget
    BY <1>6 DEF ClearFailed, GoOffline, GoOnline, EvictOlderThan, OnlineEvent, vars
  <2> QED
    BY <1>4, <2>1
<1> QED
  BY <1>1, <1>2, <1>3, <1>5, <1>6 DEF Next

\* Every entry, drain and counter stays in its range, so that the record an
\* action changes is always one of those the code can have.
THEOREM TypeCorrect == Spec => []TypeOK
<1>1. Init => TypeOK
  BY InitType
<1>2. TypeOK /\ [Next]_vars => TypeOK'
  <2> SUFFICES ASSUME TypeOK, [Next]_vars
               PROVE  TypeOK'
    OBVIOUS
  <2>1. /\ store' \in [Msg -> Entry \cup {NoEntry}]
        /\ drain' \in [Drain -> Run \cup {Idle}]
        /\ \A r \in Drain : drain'[r].pc \in {"send", "sent", "failed"} => drain'[r].msg \in Msg
        /\ draining' \in [Page -> BOOLEAN]
    BY StoreType, DrainType
  <2>2. online' \in BOOLEAN /\ event' \subseteq Page
    BY DEF TypeOK, Next, Step, vars, network, budget, Enqueue, ClearFailed, EvictOlderThan,
           Tick, GoOffline, GoOnline, OnlineEvent, TakeNext, DrainEnds, AnswerOk, AnswerNotOk,
           MarkSent, MarkFailed, Throws, Reload
  <2>3. relayed' \subseteq Msg /\ refused' \in [Msg -> 0 .. MAX_OUTBOX_ATTEMPTS]
    BY RelayedType
  <2>4. now' \in 1 .. MaxTime /\ enqueues' \in 0 .. MaxEnqueues /\ faults' \in 0 .. MaxFaults
    BY BudgetType
  <2> QED
    BY <2>1, <2>2, <2>3, <2>4 DEF TypeOK
<1> QED
  BY <1>1, <1>2, PTL DEF Spec

-----------------------------------------------------------------------------
(* The in-flight flag *)

LEMMA FlagStep ==
    ASSUME TypeOK, FlagExact, [Next]_vars
    PROVE  FlagExact'
<1>1. None \notin Page
  BY OutboxAssumption
<1>2. \A q \in Drain : drain[q] = Idle \/ (drain[q].pc # "idle" /\ drain[q].page \in Page)
  BY DEF TypeOK, Run
<1>3. ASSUME \A q \in Drain : drain'[q].page = drain[q].page, UNCHANGED draining
      PROVE  FlagExact'
  BY <1>3 DEF FlagExact
<1>4. ASSUME NEW r \in Drain, drain[r] # Idle, Finishes(r)
      PROVE  FlagExact'
  <2> DEFINE p == drain[r].page
  <2>1. p \in Page
    BY <1>2, <1>4
  <2>2. drain'[r].page = None /\ \A q \in Drain \ {r} : drain'[q] = drain[q]
    BY <1>4 DEF Finishes, TypeOK, Idle
  <2>3. ~draining'[p] /\ \A o \in Page \ {p} : draining'[o] = draining[o]
    BY <1>4, <2>1 DEF Finishes, TypeOK
  <2>4. \A q \in Drain : drain[q].page = p => q = r
    BY <2>1 DEF FlagExact
  <2> QED
    BY <1>1, <2>1, <2>2, <2>3, <2>4 DEF FlagExact
<1>5. ASSUME NEW p \in Page, OnlineEvent(p)
      PROVE  FlagExact'
  <2>1. CASE draining[p]
    BY <1>3, <1>5, <2>1 DEF OnlineEvent
  <2>2. CASE ~draining[p]
    <3>1. PICK r \in Drain :
            /\ drain[r] = Idle
            /\ drain' = [drain EXCEPT ![r] =
                           [pc |-> "next", page |-> p, msg |-> None, drained |-> 0]]
            /\ draining' = [draining EXCEPT ![p] = TRUE]
      BY <1>5, <2>2 DEF OnlineEvent
    <3>2. drain'[r].page = p /\ drain[r].page = None
          /\ \A q \in Drain \ {r} : drain'[q] = drain[q]
      BY <3>1 DEF TypeOK, Idle
    <3>3. draining'[p] /\ \A o \in Page \ {p} : draining'[o] = draining[o]
      BY <3>1 DEF TypeOK
    <3>4. \A q \in Drain : drain[q].page # p
      BY <2>2 DEF FlagExact
    <3> QED
      BY <1>1, <3>2, <3>3, <3>4 DEF FlagExact
  <2> QED
    BY <2>1, <2>2
<1>6. ASSUME NEW p \in Page, Reload(p)
      PROVE  FlagExact'
  <2>1. \A q \in Drain : drain'[q].page = IF drain[q].page = p THEN None ELSE drain[q].page
    BY <1>6 DEF Reload, Idle
  <2>2. ~draining'[p] /\ \A o \in Page \ {p} : draining'[o] = draining[o]
    BY <1>6 DEF Reload, TypeOK
  <2> QED
    BY <1>1, <2>1, <2>2 DEF FlagExact
<1>7. ASSUME NEW r \in Drain, Step(r) \/ Throws(r)
      PROVE  FlagExact'
  <2>1. CASE DrainEnds(r) \/ MarkFailed(r) \/ Throws(r)
    <3>1. drain[r] # Idle /\ Finishes(r)
      BY <2>1 DEF DrainEnds, MarkFailed, Throws, Idle
    <3> QED
      BY <1>4, <3>1
  <2>2. CASE TakeNext(r) \/ AnswerOk(r) \/ AnswerNotOk(r) \/ MarkSent(r)
    <3>1. UNCHANGED draining
      BY <2>2 DEF TakeNext, AnswerOk, AnswerNotOk, MarkSent
    <3>2. drain[r] \in Run
      BY <2>2, BusyDrain DEF TakeNext, AnswerOk, AnswerNotOk, MarkSent
    <3>3. \A q \in Drain : drain'[q].page = drain[q].page
      <4>1. CASE TakeNext(r)
        <5>1. PICK m \in Msg : drain' = [drain EXCEPT ![r].pc = "send", ![r].msg = m]
          BY <4>1 DEF TakeNext
        <5> QED
          BY <3>2, <5>1 DEF TypeOK, Run
      <4>2. CASE AnswerOk(r) \/ AnswerNotOk(r)
        BY <3>2, <4>2 DEF AnswerOk, AnswerNotOk, Goes, TypeOK, Run
      <4>3. CASE MarkSent(r)
        BY <3>2, <4>3 DEF MarkSent, TypeOK, Run
      <4> QED
        BY <2>2, <4>1, <4>2, <4>3
    <3> QED
      BY <1>3, <3>1, <3>3
  <2> QED
    BY <1>7, <2>1, <2>2 DEF Step
<1>8. CASE (\E m \in Msg : Enqueue(m)) \/ ClearFailed \/ Tick \/ GoOffline \/ GoOnline
           \/ (\E cutoff \in 1 .. now : EvictOlderThan(cutoff)) \/ UNCHANGED vars
  <2>1. UNCHANGED <<drain, draining>>
    BY <1>8 DEF Enqueue, ClearFailed, Tick, GoOffline, GoOnline, EvictOlderThan, vars
  <2> QED
    BY <1>3, <2>1
<1> QED
  BY <1>5, <1>6, <1>7, <1>8 DEF Next

\* A page's flag is set exactly while one drain() of it runs, whatever ends
\* the drain: an empty queue, the quota, a refusal, an exception, a reload.
THEOREM FlagIsExact == Spec => []FlagExact
<1>1. Init => FlagExact
  BY OutboxAssumption DEF Init, FlagExact, Idle
<1>2. TypeOK /\ FlagExact /\ [Next]_vars => FlagExact'
  BY FlagStep
<1> QED
  BY <1>1, <1>2, TypeCorrect, PTL DEF Spec

-----------------------------------------------------------------------------
(* What is marked sent *)

LEMMA SentInvStep ==
    ASSUME TypeOK, SentInv, [Next]_vars
    PROVE  SentInv'
<1>1. relayed \subseteq relayed'
  BY RelayedType
<1>2. ASSUME NEW r \in Drain, Step(r)
      PROVE  SentInv'
  <2>1. \A q \in Drain \ {r} : drain'[q] = drain[q]
    BY <1>2 DEF Step, TakeNext, DrainEnds, AnswerOk, AnswerNotOk, MarkSent, MarkFailed,
                Goes, Finishes, TypeOK
  <2>2. drain[r] \in Run
    BY <1>2, BusyDrain
       DEF Step, TakeNext, DrainEnds, AnswerOk, AnswerNotOk, MarkSent, MarkFailed
  <2>3. CASE AnswerOk(r)
    BY <1>1, <2>1, <2>2, <2>3 DEF AnswerOk, Goes, SentInv, TypeOK, Run
  <2>4. CASE ~AnswerOk(r)
    <3>1. drain'[r].pc # "sent"
      <4>1. CASE TakeNext(r)
        <5>1. PICK m \in Msg : drain' = [drain EXCEPT ![r].pc = "send", ![r].msg = m]
          BY <4>1 DEF TakeNext
        <5> QED
          BY <2>2, <5>1 DEF TypeOK, Run
      <4>2. CASE DrainEnds(r) \/ MarkFailed(r)
        BY <4>2 DEF DrainEnds, MarkFailed, Finishes, TypeOK, Idle
      <4>3. CASE AnswerNotOk(r) \/ MarkSent(r)
        BY <2>2, <4>3 DEF AnswerNotOk, MarkSent, Goes, TypeOK, Run
      <4> QED
        BY <1>2, <2>4, <4>1, <4>2, <4>3 DEF Step
    <3> QED
      BY <1>1, <2>1, <3>1 DEF SentInv
  <2> QED
    BY <2>3, <2>4
<1>3. ASSUME NEW p \in Page, OnlineEvent(p) \/ Reload(p)
      PROVE  SentInv'
  <2>1. \A q \in Drain : drain'[q] = drain[q] \/ drain'[q].pc # "sent"
    BY <1>3 DEF OnlineEvent, Reload, Idle, TypeOK
  <2> QED
    BY <1>1, <2>1 DEF SentInv
<1>4. ASSUME NEW r \in Drain, Throws(r)
      PROVE  SentInv'
  <2>1. \A q \in Drain : drain'[q] = drain[q] \/ drain'[q].pc # "sent"
    BY <1>4 DEF Throws, Finishes, Idle, TypeOK
  <2> QED
    BY <1>1, <2>1 DEF SentInv
<1>5. CASE (\E m \in Msg : Enqueue(m)) \/ ClearFailed \/ Tick \/ GoOffline \/ GoOnline
           \/ (\E cutoff \in 1 .. now : EvictOlderThan(cutoff)) \/ UNCHANGED vars
  <2>1. UNCHANGED drain
    BY <1>5 DEF Enqueue, ClearFailed, Tick, GoOffline, GoOnline, EvictOlderThan, vars
  <2> QED
    BY <1>1, <2>1 DEF SentInv
<1> QED
  BY <1>2, <1>3, <1>4, <1>5 DEF Next

LEMMA SentStep ==
    ASSUME TypeOK, SentInv, SentWasRelayed, [Next]_vars
    PROVE  SentWasRelayed'
<1>1. relayed \subseteq relayed'
  BY RelayedType
<1>2. ASSUME \A m \in Msg : store'[m].status = "sent" => store[m].status = "sent"
      PROVE  SentWasRelayed'
  BY <1>1, <1>2 DEF SentWasRelayed, Has
<1>3. ASSUME NEW r \in Drain, MarkSent(r)
      PROVE  SentWasRelayed'
  <2>1. drain[r].msg \in relayed
    BY <1>3 DEF MarkSent, SentInv
  <2>2. \A m \in Msg \ {drain[r].msg} : store'[m] = store[m]
    BY <1>3 DEF MarkSent, TypeOK
  <2> QED
    BY <1>1, <2>1, <2>2 DEF SentWasRelayed, Has
<1>4. ASSUME NEW r \in Drain, MarkFailed(r)
      PROVE  SentWasRelayed'
  <2>1. ASSUME NEW e
        PROVE  Failed(e).status # "sent"
    BY DEF Failed
  <2> QED
    BY <1>2, <1>4, <2>1 DEF MarkFailed, TypeOK
<1>5. CASE (\E m \in Msg : Enqueue(m)) \/ ClearFailed
           \/ \E cutoff \in 1 .. now : EvictOlderThan(cutoff)
  BY <1>2, <1>5 DEF Enqueue, ClearFailed, EvictOlderThan, NoEntry
<1>6. CASE UNCHANGED store
  BY <1>2, <1>6
<1>7. ASSUME NEW r \in Drain, Step(r) \/ Throws(r)
      PROVE  SentWasRelayed'
  BY <1>3, <1>4, <1>6, <1>7 DEF Step, TakeNext, DrainEnds, AnswerOk, AnswerNotOk, Throws
<1>8. ASSUME NEW p \in Page, OnlineEvent(p) \/ Reload(p)
      PROVE  SentWasRelayed'
  BY <1>6, <1>8 DEF OnlineEvent, Reload
<1>9. CASE Tick \/ GoOffline \/ GoOnline \/ UNCHANGED vars
  BY <1>6, <1>9 DEF Tick, GoOffline, GoOnline, vars
<1> QED
  BY <1>5, <1>7, <1>8, <1>9 DEF Next

\* Only a message the relay has taken is marked as sent, whatever requests,
\* reloads, evictions and late marks do.
THEOREM OnlyRelayedSent == Spec => []SentWasRelayed
<1>1. Init => SentInv /\ SentWasRelayed
  BY DEF Init, SentInv, SentWasRelayed, Has, Idle, NoEntry
<1>2. TypeOK /\ SentInv /\ SentWasRelayed /\ [Next]_vars => SentInv' /\ SentWasRelayed'
  BY SentInvStep, SentStep
<1> QED
  BY <1>1, <1>2, TypeCorrect, PTL DEF Spec

-----------------------------------------------------------------------------
(* The cap *)

LEMMA StoredFinite == IsFiniteSet(Stored) /\ Cardinality(Stored) \in Nat
  BY OutboxAssumption, FS_Subset, FS_CardinalityType DEF Stored

\* A queue with entries has one that comes before all others.
LEMMA OldestExists ==
    ASSUME TypeOK, Stored # {}
    PROVE  \E e \in Stored : \A n \in Stored : ~Before(n, e)
<1> DEFINE Less == OpToRel(<, Nat)
           Times == {store[m].last : m \in Stored}
<1>1. \A x, y \in Nat : <<x, y>> \in Less <=> x < y
  BY DEF OpToRel
<1>2. Times \subseteq Nat /\ Times # {}
  BY EntryFacts DEF Stored
<1>3. PICK t \in Times : \A u \in Times : ~(<<u, t>> \in Less)
  <2> HIDE DEF Less, Times
  <2>1. IsWellFoundedOn(Less, Nat)
    BY NatLessThanWellFounded DEF Less
  <2> QED
    BY <1>2, <2>1, WFMin
<1> DEFINE First == {m \in Stored : store[m].last = t}
<1>4. First \subseteq Nat /\ First # {}
  BY <1>3, OutboxAssumption DEF Stored
<1>5. PICK e \in First : \A n \in First : ~(<<n, e>> \in Less)
  <2> HIDE DEF Less, First
  <2>1. IsWellFoundedOn(Less, Nat)
    BY NatLessThanWellFounded DEF Less
  <2> QED
    BY <1>4, <2>1, WFMin
<1>6. ASSUME NEW n \in Stored
      PROVE  ~Before(n, e)
  <2>1. store[n].last \in Times /\ store[n].last \in Nat /\ t \in Nat /\ n \in Nat /\ e \in Nat
    BY <1>2, <1>3, <1>4, <1>5, OutboxAssumption DEF Stored
  <2>2. ~(store[n].last < t)
    BY <1>1, <1>3, <2>1
  <2>3. store[n].last = t => ~(n < e)
    BY <1>1, <1>5, <2>1
  <2> HIDE DEF Times, Less
  <2> QED
    BY <1>5, <2>1, <2>2, <2>3 DEF Before
<1> QED
  BY <1>5, <1>6

LEMMA BoundedEnqueue ==
    ASSUME TypeOK, Bounded, NEW m \in Msg, Enqueue(m)
    PROVE  Bounded'
<1> USE OutboxAssumption
<1>1. Stored' \subseteq (Stored \ Evicted) \cup {m}
  BY DEF Stored, Enqueue, TypeOK, NoEntry
<1>2. ASSUME NEW S, S \subseteq Stored, Cardinality(S) < maxEntries, Stored' \subseteq S \cup {m}
      PROVE  Bounded'
  <2>1. IsFiniteSet(S) /\ Cardinality(S) \in Nat
    BY <1>2, StoredFinite, FS_Subset, FS_CardinalityType
  <2>2. IsFiniteSet(S \cup {m}) /\ Cardinality(S \cup {m}) <= Cardinality(S) + 1
    <3>1. /\ IsFiniteSet(S \cup {m})
          /\ Cardinality(S \cup {m}) = IF m \in S THEN Cardinality(S) ELSE Cardinality(S) + 1
      BY <2>1, FS_AddElement
    <3> QED
      BY <2>1, <3>1
  <2>3. IsFiniteSet(Stored') /\ Cardinality(Stored') <= Cardinality(S \cup {m})
    BY <1>2, <2>2, FS_Subset
  <2>4. Cardinality(Stored') \in Nat /\ Cardinality(S \cup {m}) \in Nat
    BY <2>2, <2>3, FS_CardinalityType
  <2> QED
    BY <1>2, <2>1, <2>2, <2>3, <2>4 DEF Bounded
<1>3. CASE Cardinality(Stored) < maxEntries
  BY <1>1, <1>2, <1>3
<1>4. CASE Cardinality(Stored) = maxEntries
  <2>1. Stored # {}
    BY <1>4, FS_EmptySet
  <2>2. PICK e \in Stored : \A n \in Stored : ~Before(n, e)
    BY <2>1, OldestExists
  <2>3. {n \in Stored : Before(n, e)} = {}
    BY <2>2
  <2>4. e \in Evicted
    BY <1>4, <2>3, FS_EmptySet, StoredFinite DEF Evicted
  <2>5. Stored' \subseteq (Stored \ {e}) \cup {m}
    BY <1>1, <2>4
  <2>6. Cardinality(Stored \ {e}) = Cardinality(Stored) - 1
    BY StoredFinite, FS_RemoveElement
  <2> QED
    BY <1>2, <1>4, <2>5, <2>6, StoredFinite
<1> QED
  BY <1>3, <1>4, StoredFinite DEF Bounded

LEMMA BoundedStep ==
    ASSUME TypeOK, Bounded, [Next]_vars
    PROVE  Bounded'
<1>1. ASSUME \A m \in Msg : store[m] = NoEntry => store'[m] = NoEntry
      PROVE  Bounded'
  <2>1. Stored' \subseteq Stored
    BY <1>1 DEF Stored
  <2>2. IsFiniteSet(Stored') /\ Cardinality(Stored') <= Cardinality(Stored)
    BY <2>1, StoredFinite, FS_Subset
  <2>3. Cardinality(Stored') \in Nat
    BY <2>2, FS_CardinalityType
  <2> QED
    BY <2>2, <2>3, StoredFinite, OutboxAssumption DEF Bounded
<1>2. CASE UNCHANGED store
  BY <1>1, <1>2
<1>3. ASSUME NEW r \in Drain, MarkSent(r) \/ MarkFailed(r)
      PROVE  Bounded'
  BY <1>1, <1>3 DEF MarkSent, MarkFailed, TypeOK
<1>4. CASE ClearFailed \/ \E cutoff \in 1 .. now : EvictOlderThan(cutoff)
  BY <1>1, <1>4 DEF ClearFailed, EvictOlderThan
<1>5. ASSUME NEW r \in Drain, Step(r) \/ Throws(r)
      PROVE  Bounded'
  BY <1>2, <1>3, <1>5 DEF Step, TakeNext, DrainEnds, AnswerOk, AnswerNotOk, Throws
<1>6. ASSUME NEW p \in Page, OnlineEvent(p) \/ Reload(p)
      PROVE  Bounded'
  BY <1>2, <1>6 DEF OnlineEvent, Reload
<1>7. CASE Tick \/ GoOffline \/ GoOnline \/ UNCHANGED vars
  BY <1>2, <1>7 DEF Tick, GoOffline, GoOnline, vars
<1>8. CASE \E m \in Msg : Enqueue(m)
  BY <1>8, BoundedEnqueue
<1> QED
  BY <1>4, <1>5, <1>6, <1>7, <1>8 DEF Next

\* The queue never holds more than maxEntries.
THEOREM QueueBounded == Spec => []Bounded
<1>1. Init => Bounded
  <2> SUFFICES ASSUME Init PROVE Bounded
    OBVIOUS
  <2>1. Stored = {}
    BY DEF Init, Stored
  <2> QED
    BY <2>1, FS_EmptySet, OutboxAssumption DEF Bounded
<1>2. TypeOK /\ Bounded /\ [Next]_vars => Bounded'
  BY BoundedStep
<1> QED
  BY <1>1, <1>2, TypeCorrect, PTL DEF Spec

-----------------------------------------------------------------------------
(* What is given up *)

LEMMA MarkingFinite ==
    ASSUME NEW m \in Msg
    PROVE  IsFiniteSet(Marking(m)) /\ Cardinality(Marking(m)) \in Nat
  BY OutboxAssumption, FS_Subset, FS_CardinalityType DEF Marking

\* A step that adds no count, drops no answer and starts no marking.
LEMMA CountKept ==
    ASSUME TypeOK, CountInv,
           refused' = refused,
           \A m \in Msg : \/ store'[m] = store[m]
                          \/ store'[m].attempts = 0 /\ store'[m].status # "failed"
                          \/ store'[m].attempts = store[m].attempts /\ store'[m].status # "failed",
           \A q \in Drain : drain'[q] = drain[q] \/ drain'[q].pc # "failed"
    PROVE  CountInv'
<1> SUFFICES ASSUME NEW m \in Msg
             PROVE  /\ \/ refused[m] = MAX_OUTBOX_ATTEMPTS
                       \/ store'[m].attempts + Cardinality(Marking(m)') <= refused[m]
                    /\ store'[m].status = "failed" => store'[m].attempts >= MAX_OUTBOX_ATTEMPTS
  BY DEF CountInv
<1>1. Marking(m)' \subseteq Marking(m)
  BY DEF Marking
<1>2. Cardinality(Marking(m)') <= Cardinality(Marking(m)) /\ IsFiniteSet(Marking(m)')
  BY <1>1, MarkingFinite, FS_Subset
<1>3. Cardinality(Marking(m)') \in Nat /\ Cardinality(Marking(m)) \in Nat
  BY <1>2, MarkingFinite, FS_CardinalityType
<1>4. store[m].attempts \in Nat /\ refused[m] \in Nat
  BY EntryFacts, OutboxAssumption DEF TypeOK
<1>5. store'[m].attempts \in {0, store[m].attempts}
  OBVIOUS
<1> QED
  BY <1>2, <1>3, <1>4, <1>5 DEF CountInv

LEMMA CountRefused ==
    ASSUME TypeOK, CountInv, NEW r \in Drain, AnswerNotOk(r)
    PROVE  CountInv'
<1>1. drain[r].msg \in Msg /\ drain[r] \in Run
  BY BusyDrain DEF AnswerNotOk
<1> PICK k \in Msg : k = drain[r].msg
  BY <1>1
<1>2. /\ drain'[r].pc = "failed" /\ drain'[r].msg = k
      /\ \A q \in Drain \ {r} : drain'[q] = drain[q]
      /\ drain[r].pc = "send"
      /\ store' = store
  BY <1>1 DEF AnswerNotOk, Goes, TypeOK, Run
<1>3. \A m \in Msg : refused'[m] = IF m = k /\ refused[m] < MAX_OUTBOX_ATTEMPTS
                                  THEN refused[m] + 1 ELSE refused[m]
  BY <1>1 DEF AnswerNotOk, TypeOK
<1>4. Marking(k)' = Marking(k) \cup {r} /\ r \notin Marking(k)
  BY <1>2 DEF Marking
<1>5. Cardinality(Marking(k)') = Cardinality(Marking(k)) + 1
  BY <1>1, <1>4, MarkingFinite, FS_AddElement
<1>6. \A m \in Msg \ {k} : Marking(m)' = Marking(m)
  BY <1>2 DEF Marking
<1>7. \A m \in Msg : /\ store[m].attempts \in Nat
                     /\ refused[m] \in 0 .. MAX_OUTBOX_ATTEMPTS
                     /\ Cardinality(Marking(m)) \in Nat
  BY EntryFacts, MarkingFinite DEF TypeOK
<1>8. ASSUME NEW m \in Msg \ {k}
      PROVE  \/ refused'[m] = MAX_OUTBOX_ATTEMPTS
             \/ store'[m].attempts + Cardinality(Marking(m)') <= refused'[m]
  BY <1>2, <1>3, <1>6, <1>8 DEF CountInv
<1>9. \/ refused'[k] = MAX_OUTBOX_ATTEMPTS
      \/ store'[k].attempts + Cardinality(Marking(k)') <= refused'[k]
  <2>1. CASE refused[k] = MAX_OUTBOX_ATTEMPTS
    BY <1>3, <1>7, <2>1, OutboxAssumption
  <2>2. CASE refused[k] < MAX_OUTBOX_ATTEMPTS
    <3>1. store[k].attempts + Cardinality(Marking(k)) <= refused[k]
      BY <1>1, <1>7, <2>2, OutboxAssumption DEF CountInv
    <3> QED
      BY <1>1, <1>2, <1>3, <1>5, <1>7, <2>2, <3>1
  <2> QED
    BY <1>1, <1>7, <2>1, <2>2, OutboxAssumption
<1> QED
  BY <1>2, <1>8, <1>9 DEF CountInv

LEMMA CountMarked ==
    ASSUME TypeOK, CountInv, NEW r \in Drain, MarkFailed(r)
    PROVE  CountInv'
<1>1. PICK k \in Msg : k = drain[r].msg
  BY BusyDrain DEF MarkFailed
<1>2. /\ drain[r].pc = "failed" /\ drain'[r].pc = "idle"
      /\ \A q \in Drain \ {r} : drain'[q] = drain[q]
      /\ refused' = refused
  BY DEF MarkFailed, Finishes, TypeOK, Idle
<1>3. /\ \A m \in Msg \ {k} : store'[m] = store[m]
      /\ store'[k] = IF store[k] = NoEntry THEN NoEntry ELSE Failed(store[k])
  BY <1>1 DEF MarkFailed, TypeOK
<1>4. Marking(k)' = Marking(k) \ {r} /\ r \in Marking(k)
  BY <1>1, <1>2 DEF Marking
<1>5. Cardinality(Marking(k)') = Cardinality(Marking(k)) - 1
  BY <1>1, <1>4, MarkingFinite, FS_RemoveElement
<1>6. \A m \in Msg \ {k} : Marking(m)' = Marking(m)
  BY <1>1, <1>2 DEF Marking
<1>7. /\ store[k].attempts \in Nat
      /\ refused[k] \in Nat
      /\ Cardinality(Marking(k)) \in Nat
  BY <1>1, EntryFacts, MarkingFinite, OutboxAssumption DEF TypeOK
<1>8. /\ store'[k].attempts <= store[k].attempts + 1
      /\ store'[k].attempts \in Nat
      /\ store'[k].status = "failed" => store'[k].attempts >= MAX_OUTBOX_ATTEMPTS
  BY <1>3, <1>7 DEF Failed, Terminal, NoEntry
<1>9. \/ refused'[k] = MAX_OUTBOX_ATTEMPTS
      \/ store'[k].attempts + Cardinality(Marking(k)') <= refused'[k]
  <2>1. \/ refused[k] = MAX_OUTBOX_ATTEMPTS
        \/ store[k].attempts + Cardinality(Marking(k)) <= refused[k]
    BY <1>1 DEF CountInv
  <2> QED
    BY <1>2, <1>5, <1>7, <1>8, <2>1
<1>10. ASSUME NEW m \in Msg \ {k}
       PROVE  /\ \/ refused'[m] = MAX_OUTBOX_ATTEMPTS
                 \/ store'[m].attempts + Cardinality(Marking(m)') <= refused'[m]
              /\ store'[m].status = "failed" => store'[m].attempts >= MAX_OUTBOX_ATTEMPTS
  BY <1>2, <1>3, <1>6, <1>10 DEF CountInv
<1> QED
  BY <1>8, <1>9, <1>10 DEF CountInv

LEMMA CountStep ==
    ASSUME TypeOK, CountInv, [Next]_vars
    PROVE  CountInv'
<1>1. ASSUME NEW r \in Drain, TakeNext(r) \/ AnswerOk(r) \/ MarkSent(r)
      PROVE  CountInv'
  <2>1. refused' = refused
    BY <1>1 DEF TakeNext, AnswerOk, MarkSent
  <2>2. drain[r] \in Run
    BY <1>1, BusyDrain DEF TakeNext, AnswerOk, MarkSent
  <2>3. \A q \in Drain : drain'[q] = drain[q] \/ drain'[q].pc # "failed"
    <3>1. CASE TakeNext(r)
      <4>1. PICK m \in Msg : drain' = [drain EXCEPT ![r].pc = "send", ![r].msg = m]
        BY <3>1 DEF TakeNext
      <4> QED
        BY <2>2, <4>1 DEF TypeOK, Run
    <3>2. CASE AnswerOk(r) \/ MarkSent(r)
      BY <2>2, <3>2 DEF AnswerOk, MarkSent, Goes, TypeOK, Run
    <3> QED
      BY <1>1, <3>1, <3>2
  <2>4. \A m \in Msg : \/ store'[m] = store[m]
                       \/ store'[m].attempts = store[m].attempts /\ store'[m].status # "failed"
    <3>1. CASE MarkSent(r)
      <4>1. \A e \in Entry : /\ [e EXCEPT !.status = "sent"].attempts = e.attempts
                             /\ [e EXCEPT !.status = "sent"].status = "sent"
        BY DEF Entry
      <4> QED
        BY <3>1, <4>1, EntryFacts DEF MarkSent, TypeOK
    <3>2. CASE TakeNext(r) \/ AnswerOk(r)
      BY <3>2 DEF TakeNext, AnswerOk
    <3> QED
      BY <1>1, <3>1, <3>2
  <2> QED
    BY <2>1, <2>3, <2>4, CountKept
<1>2. ASSUME NEW r \in Drain, DrainEnds(r) \/ Throws(r)
      PROVE  CountInv'
  <2>1. UNCHANGED <<refused, store>>
        /\ \A q \in Drain : drain'[q] = drain[q] \/ drain'[q].pc # "failed"
    BY <1>2 DEF DrainEnds, Throws, Finishes, Idle, TypeOK
  <2> QED
    BY <2>1, CountKept
<1>3. ASSUME NEW p \in Page, OnlineEvent(p) \/ Reload(p)
      PROVE  CountInv'
  <2>1. UNCHANGED <<refused, store>>
        /\ \A q \in Drain : drain'[q] = drain[q] \/ drain'[q].pc # "failed"
    BY <1>3 DEF OnlineEvent, Reload, Idle, TypeOK
  <2> QED
    BY <2>1, CountKept
<1>4. CASE (\E m \in Msg : Enqueue(m)) \/ ClearFailed
           \/ \E cutoff \in 1 .. now : EvictOlderThan(cutoff)
  <2>1. UNCHANGED <<refused, drain>>
        /\ \A m \in Msg : \/ store'[m] = store[m]
                          \/ store'[m].attempts = 0 /\ store'[m].status # "failed"
    BY <1>4 DEF Enqueue, ClearFailed, EvictOlderThan, NoEntry
  <2> QED
    BY <2>1, CountKept
<1>5. CASE Tick \/ GoOffline \/ GoOnline \/ UNCHANGED vars
  <2>1. UNCHANGED <<refused, store, drain>>
    BY <1>5 DEF Tick, GoOffline, GoOnline, vars
  <2> QED
    BY <2>1, CountKept
<1>6. ASSUME NEW r \in Drain, Step(r)
      PROVE  CountInv'
  BY <1>1, <1>2, <1>6, CountRefused, CountMarked DEF Step
<1> QED
  BY <1>2, <1>3, <1>4, <1>5, <1>6 DEF Next

\* No message is given up before MAX_OUTBOX_ATTEMPTS answers for it were no
\* success, whichever pages counted them and however often it was queued.
THEOREM GivenUp == Spec => []GivenUpLate
<1>1. Init => CountInv
  <2> SUFFICES ASSUME Init, NEW m \in Msg
               PROVE  store[m].attempts + Cardinality(Marking(m)) <= refused[m]
                      /\ store[m].status # "failed"
    BY DEF CountInv
  <2>1. Marking(m) = {}
    BY DEF Init, Marking, Idle
  <2> QED
    BY <2>1, FS_EmptySet DEF Init, NoEntry
<1>2. TypeOK /\ CountInv /\ [Next]_vars => CountInv'
  BY CountStep
<1>3. TypeOK /\ CountInv => GivenUpLate
  <2> SUFFICES ASSUME TypeOK, CountInv, NEW m \in Has("failed")
               PROVE  refused[m] >= MAX_OUTBOX_ATTEMPTS
    BY DEF GivenUpLate
  <2>1. m \in Msg /\ store[m].attempts \in Nat /\ store[m].attempts >= MAX_OUTBOX_ATTEMPTS
    BY EntryFacts DEF Has, CountInv
  <2>2. refused[m] \in Nat /\ Cardinality(Marking(m)) \in Nat
    BY <2>1, MarkingFinite, OutboxAssumption DEF TypeOK
  <2>3. \/ refused[m] = MAX_OUTBOX_ATTEMPTS
        \/ store[m].attempts + Cardinality(Marking(m)) <= refused[m]
    BY <2>1 DEF CountInv
  <2> QED
    BY <2>1, <2>2, <2>3, OutboxAssumption
<1> QED
  BY <1>1, <1>2, <1>3, TypeCorrect, PTL DEF Spec
=============================================================================
