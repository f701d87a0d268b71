------------------------- MODULE IdentityStoreProofs -------------------------
(***************************************************************************)
(* Safety of the identity store for any tabs, any number of calls, faults  *)
(* and reloads, over anything earlier versions left in IndexedDB.          *)
(***************************************************************************)
EXTENDS IdentityStore, TLAPS

\* Where a call of each kind can be suspended.
KekPc == {"kekRow", "legacyRow", "kekSaved"}
PcOf(kind) ==
    CASE kind = "identity" -> KekPc \cup
            {"lock", "deviceRow", "unwrap", "seedRow", "recoverKey", "recoverSeed", "recovered",
             "generate", "persist", "persisted", "residue", "replaced"}
      [] kind = "sealed"   -> KekPc \cup
            {"lock", "sealedJoin", "sealedRow", "sealedRead", "sealedSaved", "sealedGot"}
      [] kind = "noise"    -> KekPc \cup {"noiseRow", "noiseRead", "noiseSaved"}
      [] kind = "replace"  -> KekPc \cup {"pairSave", "pairSaved", "restoreSealed", "restoreEnd"}
      [] kind = "clear"    -> DOMAIN ClearNext

\* By the calls cl, scalar v was minted for identity o.
Minted(cl, v, o) == \/ v = Old /\ o = Old
                    \/ v \in Call /\ cl[v].pc # "idle" /\ cl[v].owner = o

Ended(k) == k.pc \in {"idle", "done"}

\* A call record: its types, and where it is suspended.
Shape(k) ==
    /\ k \in CallType
    /\ Ended(k) <=> k.tab = "none"
    /\ ~Ended(k) => k.pc \in PcOf(k.kind)

\* What call c has read of pairs, when S are the identities ever stored.
PairSane(c, k, S) ==
    /\ k.stored.id \in S \cup {None}
    /\ k.pc \in {"persisted", "residue", "replaced"} => c \in S
    /\ k.pc \in {"seedRow", "recoverSeed", "recovered"} /\ k.got # NoRow => k.got.id # None
    /\ k.pc = "recovered" /\ k.got # NoRow => k.got.id = k.stored.id
    /\ k.kind \in {"sealed", "replace"} /\ ~Ended(k) => k.owner # None

\* What it has read of sealed scalars.
SealedSane(cl, k) ==
    /\ k.pc = "sealedRead" /\ k.got # NoRow => Minted(cl, k.got.id, k.got.owner)
    /\ k.pc = "sealedGot" => Minted(cl, k.got.id, k.owner)
    /\ k.pc = "sealedJoin" =>
          k.mark \in Call /\ cl[k.mark].pc # "idle" /\ cl[k.mark].owner = k.owner

CallInv ==
    /\ call \in [Call -> CallType]
    /\ \A c \in Call : Shape(call[c]) /\ PairSane(c, call[c], saved) /\ SealedSane(call, call[c])

\* A page: what it caches is or was stored, and its scalars are their owners'.
TabSane(cl, x, S) ==
    /\ x.id \in S \cup {None}
    /\ None \notin x.held
    /\ x.sealed # NoSealed => Minted(cl, x.sealed.id, x.sealed.owner)
    /\ \A m \in x.memo : Minted(cl, m.id, m.owner)

TabInv ==
    /\ tab \in [Tab -> TabType]
    /\ \A t \in Tab : TabSane(call, tab[t], saved)

\* The call a page has in flight, and the one that has the lock.
FlightInv ==
    /\ \A t \in Tab : LET f == tab[t].inflight
                      IN f # None => call[f].kind = "sealed" /\ call[f].tab = t /\ call[f].pc # "sealedJoin"
    /\ lock \in Call \cup {None}
    /\ lock # None => ~Ended(call[lock]) /\ call[lock].pc # "sealedJoin"

StoreInv ==
    /\ kek \in Key /\ legacy \in Key
    /\ row \in [RowName -> Row]
    /\ saved \subseteq Key
    /\ row["device"].id \in saved \cup {None}
    /\ row["seed"] # NoRow => row["seed"].id # None
    /\ row["sealed"] # NoRow => Minted(call, row["sealed"].id, row["sealed"].owner)
    /\ PairMatched

HistoryOK == /\ raced \in BOOLEAN /\ restored \in BOOLEAN /\ mistaken \in BOOLEAN /\ early \in BOOLEAN
             /\ sealers \subseteq Tab /\ overtaken \subseteq Call

RestOK == mishaps \in Nat /\ HistoryOK

IInv == CallInv /\ TabInv /\ FlightInv /\ StoreInv /\ RestOK

-----------------------------------------------------------------------------
(* How the parts are kept *)

LEMMA Numbers == /\ None \in Key /\ Old \in Key /\ Bogus \in Key /\ Call \subseteq Key
                 /\ None \notin Call /\ Old \notin Call /\ Old # None
                 /\ Key \subseteq Nat
  BY IdentityAssumption DEF None, Old, Bogus, Key, Call

\* No call that was made becomes one that was not, or another identity's.
OwnersKept ==
    \A v \in Call : call[v].pc # "idle" => call'[v].pc # "idle" /\ call'[v].owner = call[v].owner

LEMMA MintedKept ==
    ASSUME OwnersKept, NEW v, NEW o, Minted(call, v, o)
    PROVE  Minted(call', v, o)
  BY DEF OwnersKept, Minted

LEMMA SealedSaneKept ==
    ASSUME OwnersKept, NEW k, SealedSane(call, k)
    PROVE  SealedSane(call', k)
<1>1. \A v, o : Minted(call, v, o) => Minted(call', v, o)
  BY MintedKept
<1> QED
  BY <1>1 DEF OwnersKept, SealedSane

LEMMA PairSaneKept ==
    ASSUME saved \subseteq saved', NEW c, NEW k, PairSane(c, k, saved)
    PROVE  PairSane(c, k, saved')
  BY DEF PairSane

LEMMA TabSaneKept ==
    ASSUME OwnersKept, saved \subseteq saved', NEW x, TabSane(call, x, saved)
    PROVE  TabSane(call', x, saved')
<1>1. \A v, o : Minted(call, v, o) => Minted(call', v, o)
  BY MintedKept
<1> QED
  BY <1>1 DEF TabSane

LEMMA CallsKept ==
    ASSUME CallInv, OwnersKept, saved \subseteq saved', call' \in [Call -> CallType],
           \A d \in Call : \/ call'[d] = call[d]
                           \/ Shape(call'[d]) /\ PairSane(d, call'[d], saved') /\ SealedSane(call', call'[d])
    PROVE  CallInv'
<1>1. ASSUME NEW d \in Call
      PROVE  Shape(call'[d]) /\ PairSane(d, call'[d], saved') /\ SealedSane(call', call'[d])
  <2>1. CASE call'[d] = call[d]
    <3>1. Shape(call[d]) /\ PairSane(d, call[d], saved) /\ SealedSane(call, call[d])
      BY DEF CallInv
    <3>2. PairSane(d, call[d], saved') /\ SealedSane(call', call[d])
      BY <3>1, PairSaneKept, SealedSaneKept
    <3> QED
      BY <2>1, <3>1, <3>2
  <2> QED
    BY <2>1
<1> QED
  BY <1>1 DEF CallInv

LEMMA TabsKept ==
    ASSUME TabInv, OwnersKept, saved \subseteq saved', tab' \in [Tab -> TabType],
           \A t \in Tab : tab'[t] = tab[t] \/ TabSane(call', tab'[t], saved')
    PROVE  TabInv'
<1>1. \A t \in Tab : TabSane(call', tab[t], saved')
  BY TabSaneKept DEF TabInv
<1> QED
  BY <1>1 DEF TabInv

LEMMA StoreKept ==
    ASSUME StoreInv, OwnersKept, UNCHANGED <<store, saved>>
    PROVE  StoreInv'
<1>1. \A v, o : Minted(call, v, o) => Minted(call', v, o)
  BY MintedKept
<1> QED
  BY <1>1 DEF StoreInv, store, PairMatched

-----------------------------------------------------------------------------
(* How a call goes on, ends and begins *)

\* No page changes what it has in flight.
FlightSame == \A t \in Tab : tab'[t].inflight = tab[t].inflight

LEMMA GoesOn ==
    ASSUME IInv, NEW c \in Call, NEW k, call' = [call EXCEPT ![c] = k], saved \subseteq saved',
           ~Ended(call[c]), ~Ended(k), Shape(k), k.pc # "sealedJoin",
           k.kind = call[c].kind, k.tab = call[c].tab, k.owner = call[c].owner,
           PairSane(c, k, saved'), SealedSane(call, k),
           lock' \in {lock, c}, FlightSame
    PROVE  OwnersKept /\ CallInv' /\ FlightInv'
<1>1. call \in [Call -> CallType] /\ k \in CallType
  BY DEF IInv, CallInv, Shape
<1>2. call'[c] = k /\ \A d \in Call \ {c} : call'[d] = call[d]
  BY <1>1
<1>3. OwnersKept
  BY <1>2 DEF OwnersKept, Ended
<1>4. SealedSane(call', k)
  BY <1>3, SealedSaneKept
<1>5. call' \in [Call -> CallType]
  BY <1>1
<1>6. CallInv'
  BY <1>2, <1>3, <1>4, <1>5, CallsKept DEF IInv
<1>7. FlightInv'
  BY <1>2 DEF IInv, FlightInv, FlightSame
<1> QED
  BY <1>3, <1>6, <1>7

\* A call that is over has nothing more to be sane about.
LEMMA OverSane ==
    ASSUME CallInv, NEW d \in Call, NEW cl, NEW S
    PROVE  /\ Over(d) \in CallType /\ Shape(Over(d)) /\ Ended(Over(d))
           /\ PairSane(d, Over(d), S) /\ SealedSane(cl, Over(d))
           /\ Over(d).pc = "done" /\ Over(d).owner = call[d].owner
<1>1. call[d] \in CallType
  BY DEF CallInv
<1>2. /\ Over(d).kind = call[d].kind /\ Over(d).tab = "none" /\ Over(d).pc = "done"
      /\ Over(d).owner = call[d].owner /\ Over(d).stored = NoRow /\ Over(d).got = NoRow
  BY DEF Over, IdleCall
<1>3. Over(d) \in CallType
  BY <1>1, Numbers DEF Over, IdleCall, CallType, Pc, NoRow, Row, Epoch, Kind
<1> QED
  BY <1>2, <1>3 DEF Shape, Ended, PairSane, SealedSane, NoRow

LEMMA EndsAnyhow ==
    ASSUME IInv, NEW c \in Call, Finish(c), ~Ended(call[c]), saved \subseteq saved',
           \A t \in Tab : tab'[t].inflight \in {None, tab[t].inflight} \ {c}
    PROVE  OwnersKept /\ CallInv' /\ FlightInv'
<1>1. call \in [Call -> CallType] /\ call' = [call EXCEPT ![c] = Over(c)]
  BY DEF IInv, CallInv, Finish
<1>2. call'[c] = Over(c) /\ \A d \in Call \ {c} : call'[d] = call[d]
  BY <1>1
<1>3. \A S, cl : /\ Over(c) \in CallType /\ Shape(Over(c))
                 /\ PairSane(c, Over(c), S) /\ SealedSane(cl, Over(c))
                 /\ Over(c).pc = "done" /\ Over(c).owner = call[c].owner
  BY OverSane DEF IInv
<1>4. OwnersKept
  BY <1>2, <1>3 DEF OwnersKept
<1>5. call' \in [Call -> CallType]
  BY <1>1, <1>3
<1>6. CallInv'
  BY <1>2, <1>3, <1>4, <1>5, CallsKept DEF IInv
<1>7. lock' = IF lock = c THEN None ELSE lock
  BY DEF Finish
<1>8. \A t \in Tab : tab'[t].inflight # None => tab'[t].inflight \in Call \ {c}
  BY DEF IInv, TabInv, TabType, FlightInv
<1>9. \A t \in Tab : LET f == tab'[t].inflight
                     IN f # None => call'[f].kind = "sealed" /\ call'[f].tab = t /\ call'[f].pc # "sealedJoin"
  BY <1>2, <1>8 DEF IInv, FlightInv
<1>10. lock' # None => lock' \in Call \ {c} /\ lock' = lock
  BY <1>7 DEF IInv, FlightInv
<1>11. FlightInv'
  BY <1>2, <1>9, <1>10 DEF IInv, FlightInv
<1> QED
  BY <1>4, <1>6, <1>11

LEMMA Ends ==
    ASSUME IInv, NEW c \in Call, Finish(c), ~Ended(call[c]), saved \subseteq saved',
           call[c].kind # "sealed", FlightSame
    PROVE  OwnersKept /\ CallInv' /\ FlightInv'
<1>1. \A t \in Tab : tab'[t].inflight \in {None, tab[t].inflight} \ {c}
  BY Numbers DEF IInv, FlightInv, FlightSame
<1> QED
  BY <1>1, EndsAnyhow

LEMMA Begins ==
    ASSUME IInv, NEW c \in Call, NEW k, call[c].pc = "idle", call' = [call EXCEPT ![c] = k],
           saved' = saved, ~Ended(k), Shape(k), PairSane(c, k, saved), SealedSane(call, k),
           lock' = lock,
           \A t \in Tab : \/ tab'[t].inflight = tab[t].inflight
                          \/ /\ tab'[t].inflight = c
                             /\ k.kind = "sealed" /\ k.tab = t /\ k.pc # "sealedJoin"
    PROVE  OwnersKept /\ CallInv' /\ FlightInv'
<1>1. call \in [Call -> CallType] /\ k \in CallType
  BY DEF IInv, CallInv, Shape
<1>2. call'[c] = k /\ \A d \in Call \ {c} : call'[d] = call[d]
  BY <1>1
<1>3. OwnersKept
  BY <1>2 DEF OwnersKept
<1>4. SealedSane(call', k)
  BY <1>3, SealedSaneKept
<1>5. call' \in [Call -> CallType]
  BY <1>1
<1>6. CallInv'
  BY <1>2, <1>3, <1>4, <1>5, CallsKept DEF IInv
<1>7. lock # c
  BY Numbers DEF IInv, FlightInv, Ended
<1>8. \A t \in Tab : tab[t].inflight # None => tab[t].inflight # c
  <2> SUFFICES ASSUME NEW t \in Tab, tab[t].inflight = c
               PROVE  FALSE
    OBVIOUS
  <2>1. call[c].tab = t
    BY Numbers DEF IInv, FlightInv
  <2>2. call[c].tab = "none"
    BY DEF IInv, CallInv, Shape, Ended
  <2> QED
    BY <2>1, <2>2, IdentityAssumption
<1>9. FlightInv'
  BY <1>2, <1>7, <1>8 DEF IInv, FlightInv
<1> QED
  BY <1>3, <1>6, <1>9

\* Where nothing was read that must be remembered.
Plain(pc) == pc \notin {"idle", "done", "persisted", "residue", "replaced", "seedRow", "recoverSeed",
                        "recovered", "sealedRead", "sealedGot", "sealedJoin"}

LEMMA Suspended ==
    ASSUME IInv, NEW c \in Call, ~Ended(call[c])
    PROVE  /\ call[c] \in CallType /\ Shape(call[c]) /\ call[c].pc \in PcOf(call[c].kind)
           /\ call[c].tab \in Tab /\ T(c) \in TabType /\ T(c) = tab[call[c].tab]
           /\ PairSane(c, call[c], saved) /\ SealedSane(call, call[c]) /\ TabSane(call, T(c), saved)
<1>1. call[c] \in CallType /\ Shape(call[c]) /\ PairSane(c, call[c], saved) /\ SealedSane(call, call[c])
  BY DEF IInv, CallInv
<1>2. call[c].pc \in PcOf(call[c].kind) /\ call[c].tab \in Tab
  BY <1>1 DEF Shape, CallType
<1> QED
  BY <1>1, <1>2 DEF IInv, TabInv, T

LEMMA PcTypes ==
    ASSUME NEW kind \in Kind
    PROVE  PcOf(kind) \subseteq Pc \ {"idle", "done"}
  BY DEF PcOf, KekPc, Kind, Pc, ClearNext

LEMMA GoesOnPlainly ==
    ASSUME IInv, NEW c \in Call, NEW k, call' = [call EXCEPT ![c] = k], saved \subseteq saved',
           ~Ended(call[c]), k \in CallType, k.pc \in PcOf(k.kind), Plain(k.pc),
           k.kind = call[c].kind, k.tab = call[c].tab, k.owner = call[c].owner,
           k.stored.id \in saved \cup {None},
           lock' \in {lock, c}, FlightSame
    PROVE  OwnersKept /\ CallInv' /\ FlightInv'
<1>1. call[c].tab # "none"
  BY DEF IInv, CallInv, Shape
<1>2. Shape(k) /\ ~Ended(k) /\ k.pc # "sealedJoin"
  BY <1>1 DEF Shape, Plain, Ended
<1>3. PairSane(c, call[c], saved)
  BY DEF IInv, CallInv
<1>4. PairSane(c, k, saved') /\ SealedSane(call, k)
  BY <1>3 DEF PairSane, SealedSane, Plain
<1> QED
  BY <1>2, <1>4, GoesOn

LEMMA TabSet ==
    ASSUME IInv, OwnersKept, saved \subseteq saved', NEW t \in Tab, NEW x \in TabType,
           TabSane(call', x, saved'), tab' = [tab EXCEPT ![t] = x]
    PROVE  TabInv'
<1>1. tab' \in [Tab -> TabType] /\ \A u \in Tab : tab'[u] = tab[u] \/ TabSane(call', tab'[u], saved')
  BY DEF IInv, TabInv
<1> QED
  BY <1>1, TabsKept DEF IInv

LEMMA TabsSame ==
    ASSUME IInv, OwnersKept, saved \subseteq saved', UNCHANGED tab
    PROVE  TabInv'
  BY TabsKept DEF IInv, TabInv

LEMMA RestSame == RestOK /\ UNCHANGED <<Env, Hist, overtaken>> => RestOK'
  BY DEF RestOK, HistoryOK, Env, Hist

-----------------------------------------------------------------------------
(* The wrapping key *)

LEMMA AfterKekPc ==
    ASSUME NEW k \in CallType, k.pc \in KekPc, k.pc \in PcOf(k.kind)
    PROVE  AfterKek(k) \in PcOf(k.kind) /\ Plain(AfterKek(k))
<1>1. k.kind \in {"identity", "sealed", "noise", "replace"}
  BY DEF CallType, Kind, KekPc, PcOf, ClearNext
<1> QED
  BY <1>1 DEF AfterKek, PcOf, Plain

LEMMA KekHad ==
    ASSUME IInv, NEW c \in Call, NEW key \in Key, call[c].pc \in KekPc, HasKek(c, key),
           UNCHANGED <<lock, saved>>, FlightSame
    PROVE  OwnersKept /\ CallInv' /\ FlightInv'
<1> DEFINE k == [call[c] EXCEPT !.pc = AfterKek(call[c]), !.kek = key]
<1>1. ~Ended(call[c])
  BY DEF KekPc, Ended
<1>2. call[c] \in CallType /\ call[c].pc \in PcOf(call[c].kind) /\ PairSane(c, call[c], saved)
  BY <1>1, Suspended
<1>3. AfterKek(call[c]) \in PcOf(call[c].kind) /\ Plain(AfterKek(call[c])) /\ AfterKek(call[c]) \in Pc
  BY <1>2, AfterKekPc, PcTypes DEF CallType
<1>4. /\ k \in CallType /\ k.pc = AfterKek(call[c]) /\ k.kind = call[c].kind
      /\ k.tab = call[c].tab /\ k.owner = call[c].owner /\ k.stored = call[c].stored
  BY <1>2, <1>3 DEF CallType
<1>5. call' = [call EXCEPT ![c] = k]
  BY DEF HasKek, IInv, CallInv
<1>6. k.stored.id \in saved \cup {None}
  BY <1>2, <1>4 DEF PairSane
<1> HIDE DEF k
<1> QED
  BY <1>1, <1>3, <1>4, <1>5, <1>6, GoesOnPlainly

LEMMA KekTab ==
    ASSUME IInv, OwnersKept, NEW c \in Call, ~Ended(call[c]), NEW key \in Key, saved' = saved,
           tab' = [tab EXCEPT ![call[c].tab].kek = key]
    PROVE  TabInv'
<1> DEFINE x == [T(c) EXCEPT !.kek = key]
<1>1. T(c) \in TabType /\ call[c].tab \in Tab /\ T(c) = tab[call[c].tab] /\ TabSane(call, T(c), saved)
  BY Suspended
<1>2. x \in TabType /\ TabSane(call, x, saved)
  BY <1>1 DEF TabType, TabSane
<1>3. tab' = [tab EXCEPT ![call[c].tab] = x]
  BY <1>1
<1> HIDE DEF x
<1>4. TabSane(call', x, saved')
  BY <1>2, TabSaneKept
<1> QED
  BY <1>1, <1>2, <1>3, <1>4, TabSet

LEMMA KekLoadedStep ==
    ASSUME IInv, NEW c \in Call, KekLoaded(c)
    PROVE  IInv'
<1>1. /\ UNCHANGED <<store, lock, Env, hist>> /\ call[c].pc = "kekRow" /\ ~Ended(call[c])
  BY DEF KekLoaded, Ended
<1>2. call[c] \in CallType /\ call[c].pc \in PcOf(call[c].kind) /\ call[c].got.id \in Key
      /\ T(c) \in TabType /\ PairSane(c, call[c], saved)
  BY <1>1, Suspended DEF CallType, Row
<1>3. CASE call[c].got.id # None
  <2>1. tab' = [tab EXCEPT ![call[c].tab].kek = call[c].got.id] /\ HasKek(c, call[c].got.id)
    BY <1>3 DEF KekLoaded
  <2>2. FlightSame
    BY <2>1 DEF FlightSame, IInv, TabInv, TabType
  <2>3. OwnersKept /\ CallInv' /\ FlightInv'
    BY <1>1, <1>2, <2>1, <2>2, KekHad DEF KekPc, hist
  <2>4. TabInv'
    BY <1>1, <1>2, <2>1, <2>3, KekTab DEF hist
  <2> QED
    BY <1>1, <2>3, <2>4, StoreKept, RestSame DEF IInv, hist, Hist
<1>4. CASE call[c].got.id = None
  <2> DEFINE k == [call[c] EXCEPT !.pc = "legacyRow", !.got = Wrapped(legacy, None, None)]
  <2>1. UNCHANGED tab /\ call' = [call EXCEPT ![c] = k]
    BY <1>4 DEF KekLoaded, Read, IInv, CallInv
  <2>2. Wrapped(legacy, None, None) \in Row
    BY Numbers DEF Wrapped, Row, IInv, StoreInv
  <2>3. "legacyRow" \in PcOf(call[c].kind) /\ Plain("legacyRow") /\ "legacyRow" \in Pc
    BY <1>1, <1>2 DEF PcOf, KekPc, Plain, Pc, ClearNext, CallType, Kind
  <2>4. /\ k \in CallType /\ k.pc = "legacyRow" /\ k.kind = call[c].kind
        /\ k.tab = call[c].tab /\ k.owner = call[c].owner /\ k.stored = call[c].stored
    BY <1>2, <2>2, <2>3 DEF CallType
  <2>5. k.stored.id \in saved \cup {None}
    BY <1>2, <2>4 DEF PairSane
  <2> HIDE DEF k
  <2>6. OwnersKept /\ CallInv' /\ FlightInv'
    BY <1>1, <2>1, <2>3, <2>4, <2>5, GoesOnPlainly DEF hist, FlightSame
  <2> QED
    BY <1>1, <2>1, <2>6, TabsSame, StoreKept, RestSame DEF IInv, hist, Hist
<1> QED
  BY <1>3, <1>4

LEMMA ReadGoesOn ==
    ASSUME IInv, NEW c \in Call, NEW pc, NEW r \in Row, Read(c, pc, r), ~Ended(call[c]),
           pc \in PcOf(call[c].kind), Plain(pc), saved \subseteq saved', lock' \in {lock, c}, FlightSame
    PROVE  OwnersKept /\ CallInv' /\ FlightInv'
<1> DEFINE k == [call[c] EXCEPT !.pc = pc, !.got = r]
<1>1. call[c] \in CallType /\ PairSane(c, call[c], saved) /\ pc \in Pc
  BY Suspended, PcTypes DEF CallType
<1>2. /\ k \in CallType /\ k.pc = pc /\ k.kind = call[c].kind
      /\ k.tab = call[c].tab /\ k.owner = call[c].owner /\ k.stored = call[c].stored
  BY <1>1 DEF CallType
<1>3. call' = [call EXCEPT ![c] = k]
  BY DEF Read, IInv, CallInv
<1>4. k.stored.id \in saved \cup {None}
  BY <1>1, <1>2 DEF PairSane
<1> HIDE DEF k
<1> QED
  BY <1>2, <1>3, <1>4, GoesOnPlainly

LEMMA GotoGoesOn ==
    ASSUME IInv, NEW c \in Call, NEW pc, Goto(c, pc), ~Ended(call[c]),
           pc \in PcOf(call[c].kind), Plain(pc), saved \subseteq saved', lock' \in {lock, c}, FlightSame
    PROVE  OwnersKept /\ CallInv' /\ FlightInv'
<1> DEFINE k == [call[c] EXCEPT !.pc = pc]
<1>1. call[c] \in CallType /\ PairSane(c, call[c], saved) /\ pc \in Pc
  BY Suspended, PcTypes DEF CallType
<1>2. /\ k \in CallType /\ k.pc = pc /\ k.kind = call[c].kind
      /\ k.tab = call[c].tab /\ k.owner = call[c].owner /\ k.stored = call[c].stored
  BY <1>1 DEF CallType
<1>3. call' = [call EXCEPT ![c] = k]
  BY DEF Goto, IInv, CallInv
<1>4. k.stored.id \in saved \cup {None}
  BY <1>1, <1>2 DEF PairSane
<1> HIDE DEF k
<1> QED
  BY <1>2, <1>3, <1>4, GoesOnPlainly

\* The KEK database changes, and nothing else that is stored.
LEMMA KekStored ==
    ASSUME StoreInv, OwnersKept, kek' \in Key, UNCHANGED <<legacy, row, saved>>
    PROVE  StoreInv'
<1>1. \A v, o : Minted(call, v, o) => Minted(call', v, o)
  BY MintedKept
<1> QED
  BY <1>1 DEF StoreInv, PairMatched

LEMMA KekFound ==
    ASSUME IInv, NEW c \in Call, NEW key \in Key, call[c].pc = "legacyRow",
           call' = [call EXCEPT ![c].pc = "kekSaved", ![c].kek = key],
           UNCHANGED <<legacy, row, lock, tab, Env, hist>>, kek' \in Key
    PROVE  IInv'
<1> DEFINE k == [call[c] EXCEPT !.pc = "kekSaved", !.kek = key]
<1>1. ~Ended(call[c])
  BY DEF Ended
<1>2. call[c] \in CallType /\ call[c].pc \in PcOf(call[c].kind) /\ PairSane(c, call[c], saved)
  BY <1>1, Suspended
<1>3. "kekSaved" \in PcOf(call[c].kind) /\ Plain("kekSaved") /\ "kekSaved" \in Pc
  BY <1>2 DEF PcOf, KekPc, Plain, Pc, ClearNext, CallType, Kind
<1>4. /\ k \in CallType /\ k.pc = "kekSaved" /\ k.kind = call[c].kind
      /\ k.tab = call[c].tab /\ k.owner = call[c].owner /\ k.stored = call[c].stored
  BY <1>2, <1>3 DEF CallType
<1>5. call' = [call EXCEPT ![c] = k]
  BY DEF IInv, CallInv
<1>6. k.stored.id \in saved \cup {None}
  BY <1>2, <1>4 DEF PairSane
<1> HIDE DEF k
<1>7. OwnersKept /\ CallInv' /\ FlightInv'
  BY <1>1, <1>3, <1>4, <1>5, <1>6, GoesOnPlainly DEF hist, FlightSame
<1> QED
  BY <1>7, TabsSame, KekStored, RestSame DEF IInv, hist, Hist

LEMMA KekAdoptStep ==
    ASSUME IInv, NEW c \in Call, KekAdopt(c)
    PROVE  IInv'
<1>1. call[c].got.id \in Key
  BY DEF IInv, CallInv, CallType, Row
<1>2. kek' \in Key
  BY <1>1 DEF KekAdopt, IInv, StoreInv
<1> QED
  BY <1>1, <1>2, KekFound DEF KekAdopt

LEMMA KekMintStep ==
    ASSUME IInv, NEW c \in Call, KekMint(c)
    PROVE  IInv'
<1>1. c \in Key /\ kek' \in Key
  BY Numbers DEF KekMint
<1> QED
  BY <1>1, KekFound DEF KekMint

LEMMA KekSavedStep ==
    ASSUME IInv, NEW c \in Call, KekSaved(c)
    PROVE  IInv'
<1>1. UNCHANGED <<store, lock, Env, hist>> /\ call[c].pc = "kekSaved" /\ ~Ended(call[c])
  BY DEF KekSaved, Ended
<1>2. call[c].kek \in Key
  BY DEF IInv, CallInv, CallType
<1>3. tab' = [tab EXCEPT ![call[c].tab].kek = call[c].kek] /\ HasKek(c, call[c].kek)
  BY DEF KekSaved
<1>4. FlightSame
  BY <1>3 DEF FlightSame, IInv, TabInv, TabType
<1>5. OwnersKept /\ CallInv' /\ FlightInv'
  BY <1>1, <1>2, <1>3, <1>4, KekHad DEF KekPc, hist
<1>6. TabInv'
  BY <1>1, <1>2, <1>3, <1>5, KekTab DEF hist
<1> QED
  BY <1>1, <1>5, <1>6, StoreKept, RestSame DEF IInv, hist, Hist

-----------------------------------------------------------------------------
(* The identity *)

IdentityPc == {"deviceRow", "unwrap", "seedRow", "recoverKey", "recoverSeed", "recovered",
               "generate", "persist", "persisted", "residue", "replaced"}

LEMMA IdentityCall ==
    ASSUME IInv, NEW c \in Call, call[c].pc \in IdentityPc
    PROVE  ~Ended(call[c]) /\ call[c].kind = "identity"
<1>1. ~Ended(call[c])
  BY DEF IdentityPc, Ended
<1>2. call[c].pc \in PcOf(call[c].kind) /\ call[c].kind \in Kind
  BY <1>1, Suspended DEF CallType
<1> QED
  BY <1>1, <1>2 DEF IdentityPc, PcOf, KekPc, Kind, ClearNext

LEMMA IdentityPlain ==
    ASSUME NEW pc \in {"deviceRow", "unwrap", "recoverKey", "generate", "persist"}
    PROVE  pc \in PcOf("identity") /\ Plain(pc) /\ pc \in Pc
  BY DEF PcOf, Plain, Pc

\* A call of a page ends, and that is all.
LEMMA Finished ==
    ASSUME IInv, NEW c \in Call, ~Ended(call[c]), call[c].kind # "sealed", Finish(c),
           UNCHANGED <<store, tab, saved>>, RestOK'
    PROVE  IInv'
<1>1. OwnersKept /\ CallInv' /\ FlightInv'
  BY Ends DEF FlightSame
<1> QED
  BY <1>1, TabsSame, StoreKept DEF IInv

\* A call goes on, and that is all.
LEMMA Went ==
    ASSUME IInv, OwnersKept, CallInv', FlightInv', UNCHANGED <<store, tab, Env, hist>>
    PROVE  IInv'
  BY TabsSame, StoreKept, RestSame DEF IInv, hist, Hist

LEMMA Resolved ==
    ASSUME IInv, NEW c \in Call, ~Ended(call[c]), call[c].kind # "sealed",
           NEW id \in saved, id # None, Resolve(c, id), UNCHANGED <<store, Env, hist>>
    PROVE  IInv'
<1> DEFINE x == [T(c) EXCEPT !.id = id, !.held = @ \cup {id}]
<1>1. T(c) \in TabType /\ call[c].tab \in Tab /\ T(c) = tab[call[c].tab] /\ TabSane(call, T(c), saved)
  BY Suspended
<1>2. id \in Key
  BY DEF IInv, StoreInv
<1>3. x \in TabType /\ TabSane(call, x, saved) /\ x.inflight = T(c).inflight
  BY <1>1, <1>2 DEF TabType, TabSane
<1>4. tab' = [tab EXCEPT ![call[c].tab] = x] /\ Finish(c)
  BY <1>1 DEF Resolve, IInv, TabInv
<1> HIDE DEF x
<1>5. FlightSame
  BY <1>1, <1>3, <1>4 DEF FlightSame, IInv, TabInv
<1>6. OwnersKept /\ CallInv' /\ FlightInv'
  BY <1>4, <1>5, Ends DEF hist
<1>7. TabSane(call', x, saved')
  BY <1>3, <1>6, TabSaneKept DEF hist
<1>8. TabInv'
  BY <1>1, <1>3, <1>4, <1>6, <1>7, TabSet DEF hist
<1> QED
  BY <1>6, <1>8, StoreKept, RestSame DEF IInv, hist, Hist

LEMMA IdentityLockedStep ==
    ASSUME IInv, NEW c \in Call, IdentityLocked(c)
    PROVE  IInv'
<1> DEFINE k == [call[c] EXCEPT !.pc = "deviceRow", !.stored = row["device"]]
<1>1. /\ UNCHANGED <<store, tab, Env, hist>> /\ call[c].pc = "lock" /\ call[c].kind = "identity"
      /\ lock' = c /\ ~Ended(call[c])
  BY DEF IdentityLocked, Ended
<1>2. call[c] \in CallType
  BY <1>1, Suspended
<1>3. row["device"] \in Row /\ row["device"].id \in saved \cup {None}
  BY DEF IInv, StoreInv, RowName
<1>4. /\ k \in CallType /\ k.pc = "deviceRow" /\ k.kind = "identity" /\ k.kind = call[c].kind
      /\ k.tab = call[c].tab /\ k.owner = call[c].owner /\ k.stored = row["device"]
  BY <1>1, <1>2, <1>3, IdentityPlain DEF CallType
<1>5. call' = [call EXCEPT ![c] = k]
  BY DEF IdentityLocked, IInv, CallInv
<1> HIDE DEF k
<1>6. OwnersKept /\ CallInv' /\ FlightInv'
  BY <1>1, <1>3, <1>4, <1>5, IdentityPlain, GoesOnPlainly DEF hist, FlightSame
<1> QED
  BY <1>1, <1>6, Went

LEMMA AskKekPlain ==
    ASSUME IInv, NEW k \in CallType, k.kind \in {"identity", "sealed", "noise", "replace"},
           NEW cached \in Key
    PROVE  LET r == AskKek(k, cached)
           IN /\ r \in CallType /\ r.pc \in PcOf(r.kind) /\ Plain(r.pc)
              /\ r.kind = k.kind /\ r.tab = k.tab /\ r.owner = k.owner /\ r.stored = k.stored
<1>1. AfterKek(k) \in PcOf(k.kind) /\ Plain(AfterKek(k)) /\ AfterKek(k) \in Pc
  BY DEF AfterKek, PcOf, Plain, Pc
<1>2. "kekRow" \in PcOf(k.kind) /\ Plain("kekRow") /\ "kekRow" \in Pc
  BY DEF PcOf, KekPc, Plain, Pc
<1>3. Wrapped(kek, None, None) \in Row
  BY Numbers DEF Wrapped, Row, IInv, StoreInv
<1>4. CASE cached # None
  <2> DEFINE r == [k EXCEPT !.pc = AfterKek(k), !.kek = cached]
  <2>1. AskKek(k, cached) = r
    BY <1>4 DEF AskKek
  <2>2. /\ r \in CallType /\ r.pc = AfterKek(k)
        /\ r.kind = k.kind /\ r.tab = k.tab /\ r.owner = k.owner /\ r.stored = k.stored
    BY <1>1 DEF CallType
  <2> HIDE DEF r
  <2> QED
    BY <1>1, <2>1, <2>2
<1>5. CASE cached = None
  <2> DEFINE r == [k EXCEPT !.pc = "kekRow", !.got = Wrapped(kek, None, None)]
  <2>1. AskKek(k, cached) = r
    BY <1>5 DEF AskKek
  <2>2. /\ r \in CallType /\ r.pc = "kekRow"
        /\ r.kind = k.kind /\ r.tab = k.tab /\ r.owner = k.owner /\ r.stored = k.stored
    BY <1>2, <1>3 DEF CallType
  <2> HIDE DEF r
  <2> QED
    BY <1>2, <2>1, <2>2
<1> QED
  BY <1>4, <1>5

\* A call asks for the KEK, in the place it was suspended or with minting set.
LEMMA AsksKek ==
    ASSUME IInv, NEW c \in Call, ~Ended(call[c]), NEW k \in CallType, k.kind \in {"identity", "sealed"},
           k.kind = call[c].kind, k.tab = call[c].tab, k.owner = call[c].owner, k.stored = call[c].stored,
           call' = [call EXCEPT ![c] = AskKek(k, T(c).kek)], lock' \in {lock, c},
           UNCHANGED <<store, tab, Env, hist>>
    PROVE  IInv'
<1> DEFINE r == AskKek(k, T(c).kek)
<1>1. T(c).kek \in Key /\ PairSane(c, call[c], saved)
  BY Suspended DEF TabType
<1>2. /\ r \in CallType /\ r.pc \in PcOf(r.kind) /\ Plain(r.pc)
      /\ r.kind = k.kind /\ r.tab = k.tab /\ r.owner = k.owner /\ r.stored = k.stored
  BY <1>1, AskKekPlain
<1> HIDE DEF r
<1>3. call' = [call EXCEPT ![c] = r]
  BY DEF r
<1>4. r.stored.id \in saved \cup {None}
  BY <1>1, <1>2 DEF PairSane
<1>5. OwnersKept /\ CallInv' /\ FlightInv'
  BY <1>2, <1>3, <1>4, GoesOnPlainly DEF hist, FlightSame
<1> QED
  BY <1>5, Went

LEMMA DeviceLoadedStep ==
    ASSUME IInv, NEW c \in Call, DeviceLoaded(c)
    PROVE  IInv'
<1>1. UNCHANGED <<store, lock, tab, Env, hist>> /\ call[c].pc = "deviceRow"
  BY DEF DeviceLoaded
<1>2. ~Ended(call[c]) /\ call[c].kind = "identity"
  BY <1>1, IdentityCall DEF IdentityPc
<1>3. CASE call[c].stored = NoRow
  <2>1. Goto(c, "generate")
    BY <1>3 DEF DeviceLoaded, Goto, IInv, CallInv
  <2>2. OwnersKept /\ CallInv' /\ FlightInv'
    BY <1>1, <1>2, <2>1, IdentityPlain, GotoGoesOn DEF hist, FlightSame
  <2> QED
    BY <1>1, <2>2, Went
<1>4. CASE call[c].stored # NoRow
  <2>1. call' = [call EXCEPT ![c] = AskKek(call[c], T(c).kek)] /\ call[c] \in CallType
    BY <1>4 DEF DeviceLoaded, IInv, CallInv
  <2> QED
    BY <1>1, <1>2, <2>1, AsksKek
<1> QED
  BY <1>3, <1>4

\* The row read by a call is a row, and what it holds is an identity.
LEMMA SeedRow ==
    ASSUME IInv
    PROVE  /\ row["seed"] \in Row /\ (row["seed"] # NoRow => row["seed"].id # None)
           /\ Wrapped(legacy, None, None) \in Row
  BY Numbers DEF IInv, StoreInv, RowName, Wrapped, Row

\* The legacy key is asked for, after an unwrap failed.
LEMMA Recovers ==
    ASSUME IInv, NEW c \in Call, call[c].kind = "identity", ~Ended(call[c]),
           Read(c, "recoverKey", Wrapped(legacy, None, None)), UNCHANGED <<store, lock, tab, saved>>, RestOK'
    PROVE  IInv'
<1>1. OwnersKept /\ CallInv' /\ FlightInv'
  BY SeedRow, IdentityPlain, ReadGoesOn DEF FlightSame
<1> QED
  BY <1>1, TabsSame, StoreKept DEF IInv

LEMMA Generates ==
    ASSUME IInv, NEW c \in Call, call[c].kind = "identity", ~Ended(call[c]), Goto(c, "generate"),
           UNCHANGED <<store, lock, tab, Env, hist>>
    PROVE  IInv'
<1>1. OwnersKept /\ CallInv' /\ FlightInv'
  BY IdentityPlain, GotoGoesOn DEF hist, FlightSame
<1> QED
  BY <1>1, Went

LEMMA UnwrapStep ==
    ASSUME IInv, NEW c \in Call, Unwrap(c)
    PROVE  IInv'
<1>1. UNCHANGED <<store, lock, tab, Env, hist>> /\ call[c].pc = "unwrap"
  BY DEF Unwrap
<1>2. ~Ended(call[c]) /\ call[c].kind = "identity"
  BY <1>1, IdentityCall DEF IdentityPc
<1>3. call[c] \in CallType /\ PairSane(c, call[c], saved) /\ Shape(call[c])
  BY <1>2, Suspended
<1>4. CASE Read(c, "seedRow", row["seed"])
  <2> DEFINE k == [call[c] EXCEPT !.pc = "seedRow", !.got = row["seed"]]
  <2>1. /\ k \in CallType /\ k.pc = "seedRow" /\ k.kind = "identity" /\ k.kind = call[c].kind
        /\ k.tab = call[c].tab /\ k.owner = call[c].owner /\ k.stored = call[c].stored /\ k.got = row["seed"]
    BY <1>2, <1>3, SeedRow DEF CallType, Pc
  <2>2. call' = [call EXCEPT ![c] = k]
    BY <1>4 DEF Read, IInv, CallInv
  <2> HIDE DEF k
  <2>3. ~Ended(k) /\ Shape(k)
    BY <1>1, <1>3, <2>1 DEF Shape, Ended, PcOf
  <2>4. PairSane(c, k, saved) /\ SealedSane(call, k)
    BY <1>3, <2>1, SeedRow DEF PairSane, SealedSane
  <2>5. OwnersKept /\ CallInv' /\ FlightInv'
    BY <1>1, <1>2, <2>1, <2>2, <2>3, <2>4, GoesOn DEF hist, FlightSame
  <2> QED
    BY <1>1, <2>5, Went
<1>5. CASE Read(c, "recoverKey", Wrapped(legacy, None, None))
  BY <1>1, <1>2, <1>5, Recovers, RestSame DEF IInv, hist, Hist
<1> QED
  BY <1>4, <1>5 DEF Unwrap

LEMMA SeedLoadedStep ==
    ASSUME IInv, NEW c \in Call, SeedLoaded(c)
    PROVE  IInv'
<1>1. UNCHANGED <<store, Env, hist>> /\ call[c].pc = "seedRow"
  BY DEF SeedLoaded
<1>2. ~Ended(call[c]) /\ call[c].kind = "identity"
  BY <1>1, IdentityCall DEF IdentityPc
<1>3. CASE call[c].got = NoRow
  BY <1>1, <1>2, <1>3, Generates DEF SeedLoaded
<1>4. CASE call[c].got # NoRow /\ SeedFits(c)
  <2>1. PairSane(c, call[c], saved)
    BY <1>2, Suspended
  <2>2. call[c].stored.id \in saved /\ call[c].stored.id # None
    BY <1>1, <1>4, <2>1 DEF PairSane, SeedFits
  <2> QED
    BY <1>1, <1>2, <1>4, <2>2, Resolved DEF SeedLoaded
<1>5. CASE call[c].got # NoRow /\ ~SeedFits(c)
  BY <1>1, <1>2, <1>5, Recovers, RestSame DEF SeedLoaded, IInv, hist, Hist
<1> QED
  BY <1>3, <1>4, <1>5

LEMMA RecoverKeyLoadedStep ==
    ASSUME IInv, NEW c \in Call, RecoverKeyLoaded(c)
    PROVE  IInv'
<1>1. UNCHANGED <<legacy, row, Env, hist>> /\ call[c].pc = "recoverKey"
  BY DEF RecoverKeyLoaded
<1>2. ~Ended(call[c]) /\ call[c].kind = "identity"
  BY <1>1, IdentityCall DEF IdentityPc
<1>3. call[c] \in CallType /\ PairSane(c, call[c], saved) /\ Shape(call[c])
  BY <1>2, Suspended
<1> DEFINE k == [call[c] EXCEPT !.pc = "recoverSeed", !.kek = call[c].got.id, !.got = row["seed"]]
<1>4. CASE /\ call' = [call EXCEPT ![c].pc = "recoverSeed", ![c].kek = call[c].got.id, ![c].got = row["seed"]]
           /\ UNCHANGED <<kek, lock, tab>>
  <2>1. call[c].got.id \in Key
    BY <1>3 DEF CallType, Row
  <2>2. /\ k \in CallType /\ k.pc = "recoverSeed" /\ k.kind = "identity" /\ k.kind = call[c].kind
        /\ k.tab = call[c].tab /\ k.owner = call[c].owner /\ k.stored = call[c].stored /\ k.got = row["seed"]
    BY <1>2, <1>3, <2>1, SeedRow DEF CallType, Pc
  <2>3. call' = [call EXCEPT ![c] = k]
    BY <1>4 DEF IInv, CallInv
  <2> HIDE DEF k
  <2>4. ~Ended(k) /\ Shape(k)
    BY <1>1, <1>3, <2>2 DEF Shape, Ended, PcOf
  <2>5. PairSane(c, k, saved) /\ SealedSane(call, k)
    BY <1>3, <2>2, SeedRow DEF PairSane, SealedSane
  <2>6. OwnersKept /\ CallInv' /\ FlightInv'
    BY <1>1, <1>2, <1>4, <2>2, <2>3, <2>4, <2>5, GoesOn DEF hist, FlightSame
  <2> QED
    BY <1>1, <1>4, <2>6, Went DEF store
<1>5. CASE Finish(c) /\ UNCHANGED <<kek, tab>>
  <2>1. UNCHANGED store /\ saved' = saved /\ RestOK'
    BY <1>1, <1>5, RestSame DEF store, IInv, hist, Hist
  <2> QED
    BY <1>2, <1>5, <2>1, Finished
<1> QED
  BY <1>4, <1>5 DEF RecoverKeyLoaded, Unreadable

LEMMA RecoverSeedLoadedStep ==
    ASSUME IInv, NEW c \in Call, RecoverSeedLoaded(c)
    PROVE  IInv'
<1>1. UNCHANGED <<legacy, row, Env, hist>> /\ call[c].pc = "recoverSeed"
  BY DEF RecoverSeedLoaded
<1>2. ~Ended(call[c]) /\ call[c].kind = "identity"
  BY <1>1, IdentityCall DEF IdentityPc
<1>3. call[c] \in CallType /\ PairSane(c, call[c], saved) /\ Shape(call[c])
  BY <1>2, Suspended
<1>4. CASE call[c].got = NoRow \/ SeedFits(c)
  <2> DEFINE k == [call[c] EXCEPT !.pc = "recovered"]
  <2>1. /\ tab' = [tab EXCEPT ![call[c].tab].kek = call[c].kek]
        /\ kek' \in {kek, call[c].kek} /\ Goto(c, "recovered") /\ UNCHANGED lock
    BY <1>4 DEF RecoverSeedLoaded
  <2>2. /\ k \in CallType /\ k.pc = "recovered" /\ k.kind = "identity" /\ k.kind = call[c].kind
        /\ k.tab = call[c].tab /\ k.owner = call[c].owner /\ k.stored = call[c].stored /\ k.got = call[c].got
    BY <1>2, <1>3 DEF CallType, Pc
  <2>3. call' = [call EXCEPT ![c] = k]
    BY <2>1 DEF Goto, IInv, CallInv
  <2> HIDE DEF k
  <2>4. ~Ended(k) /\ Shape(k)
    BY <1>1, <1>3, <2>2 DEF Shape, Ended, PcOf
  <2>5. PairSane(c, k, saved) /\ SealedSane(call, k)
    BY <1>1, <1>3, <1>4, <2>2 DEF PairSane, SealedSane, SeedFits
  <2>6. FlightSame
    BY <2>1 DEF FlightSame, IInv, TabInv, TabType
  <2>7. OwnersKept /\ CallInv' /\ FlightInv'
    BY <1>1, <1>2, <2>1, <2>2, <2>3, <2>4, <2>5, <2>6, GoesOn DEF hist
  <2>8. call[c].kek \in Key /\ kek' \in Key
    BY <1>3, <2>1 DEF CallType, IInv, StoreInv
  <2>9. TabInv'
    BY <1>1, <1>2, <2>1, <2>7, <2>8, KekTab DEF hist
  <2> QED
    BY <1>1, <2>7, <2>8, <2>9, KekStored, RestSame DEF IInv, hist, Hist
<1>5. CASE Finish(c) /\ UNCHANGED <<kek, tab>>
  <2>1. UNCHANGED store /\ saved' = saved /\ RestOK'
    BY <1>1, <1>5, RestSame DEF store, IInv, hist, Hist
  <2> QED
    BY <1>2, <1>5, <2>1, Finished
<1> QED
  BY <1>4, <1>5 DEF RecoverSeedLoaded, Unreadable

LEMMA RecoveredStep ==
    ASSUME IInv, NEW c \in Call, Recovered(c)
    PROVE  IInv'
<1>1. UNCHANGED <<store, Env, hist>> /\ call[c].pc = "recovered"
  BY DEF Recovered
<1>2. ~Ended(call[c]) /\ call[c].kind = "identity"
  BY <1>1, IdentityCall DEF IdentityPc
<1>3. CASE call[c].got = NoRow
  BY <1>1, <1>2, <1>3, Generates DEF Recovered
<1>4. CASE call[c].got # NoRow
  <2>1. PairSane(c, call[c], saved)
    BY <1>2, Suspended
  <2>2. call[c].stored.id \in saved /\ call[c].stored.id # None
    BY <1>1, <1>4, <2>1 DEF PairSane
  <2> QED
    BY <1>1, <1>2, <1>4, <2>2, Resolved DEF Recovered
<1> QED
  BY <1>3, <1>4

LEMMA GeneratedStep ==
    ASSUME IInv, NEW c \in Call, Generated(c)
    PROVE  IInv'
<1> DEFINE k == [call[c] EXCEPT !.minting = TRUE]
<1>1. UNCHANGED <<store, lock, tab, Env, hist>> /\ call[c].pc = "generate"
  BY DEF Generated
<1>2. ~Ended(call[c]) /\ call[c].kind = "identity"
  BY <1>1, IdentityCall DEF IdentityPc
<1>3. call[c] \in CallType
  BY <1>2, Suspended
<1>4. /\ k \in CallType /\ k.kind = call[c].kind /\ k.tab = call[c].tab
      /\ k.owner = call[c].owner /\ k.stored = call[c].stored
  BY <1>3 DEF CallType
<1>5. call' = [call EXCEPT ![c] = AskKek(k, T(c).kek)]
  BY DEF Generated, IInv, CallInv
<1> HIDE DEF k
<1> QED
  BY <1>1, <1>2, <1>4, <1>5, AsksKek

\* A pair is stored: the rows of one identity under one KEK.
LEMMA PairStored ==
    ASSUME IInv, OwnersKept, NEW id \in Key, NEW k \in Key, id # None,
           row' = SavePair(id, k), saved' = saved \cup {id}, UNCHANGED <<kek, legacy>>
    PROVE  StoreInv'
<1>1. Wrapped(id, k, None) \in Row /\ Wrapped(id, k, None).id = id
  BY Numbers DEF Wrapped, Row
<1>2. /\ row' \in [RowName -> Row]
      /\ row'["device"] = Wrapped(id, k, None) /\ row'["seed"] = Wrapped(id, k, None)
      /\ row'["sealed"] = row["sealed"]
  BY <1>1 DEF SavePair, IInv, StoreInv, RowName
<1>3. \A v, o : Minted(call, v, o) => Minted(call', v, o)
  BY MintedKept
<1>4. row'["sealed"] # NoRow => Minted(call', row'["sealed"].id, row'["sealed"].owner)
  BY <1>2, <1>3 DEF IInv, StoreInv
<1> QED
  BY <1>1, <1>2, <1>4 DEF IInv, StoreInv, PairMatched

\* Rows are deleted, the pair's apart or together with the seed left behind.
LEMMA RowsDropped ==
    ASSUME IInv, OwnersKept, UNCHANGED saved, kek' \in Key, legacy' \in Key, row' \in [RowName -> Row],
           \A r \in RowName : row'[r] = row[r] \/ row'[r] = NoRow
    PROVE  StoreInv'
<1>1. \A v, o : Minted(call, v, o) => Minted(call', v, o)
  BY MintedKept
<1>2. row'["sealed"] # NoRow => Minted(call', row'["sealed"].id, row'["sealed"].owner)
  BY <1>1 DEF IInv, StoreInv, RowName
<1>3. row'["device"].id \in saved' \cup {None} /\ (row'["seed"] # NoRow => row'["seed"].id # None)
  BY DEF IInv, StoreInv, RowName, NoRow
<1>4. PairMatched'
  BY DEF IInv, StoreInv, PairMatched, RowName
<1> QED
  BY <1>2, <1>3, <1>4 DEF IInv, StoreInv

\* Call c goes on to a place where its own identity is stored.
LEMMA OwnStored ==
    ASSUME IInv, NEW c \in Call, call[c].kind = "identity", ~Ended(call[c]),
           NEW pc \in {"persisted", "residue", "replaced"}, Goto(c, pc),
           saved \subseteq saved', c \in saved', UNCHANGED lock, FlightSame
    PROVE  OwnersKept /\ CallInv' /\ FlightInv'
<1> DEFINE k == [call[c] EXCEPT !.pc = pc]
<1>1. call[c] \in CallType /\ PairSane(c, call[c], saved) /\ Shape(call[c])
  BY Suspended
<1>2. /\ k \in CallType /\ k.pc = pc /\ k.kind = "identity" /\ k.kind = call[c].kind
      /\ k.tab = call[c].tab /\ k.owner = call[c].owner /\ k.stored = call[c].stored
  BY <1>1 DEF CallType, Pc
<1>3. call' = [call EXCEPT ![c] = k]
  BY DEF Goto, IInv, CallInv
<1> HIDE DEF k
<1>4. ~Ended(k) /\ Shape(k)
  BY <1>1, <1>2 DEF Shape, Ended, PcOf
<1>5. PairSane(c, k, saved') /\ SealedSane(call, k) /\ k.pc # "sealedJoin"
  BY <1>1, <1>2 DEF PairSane, SealedSane
<1> QED
  BY <1>2, <1>3, <1>4, <1>5, GoesOn

LEMMA PersistStep ==
    ASSUME IInv, NEW c \in Call, Persist(c)
    PROVE  IInv'
<1>1. /\ UNCHANGED <<kek, legacy, lock, tab, Env, Hist, overtaken>> /\ call[c].pc = "persist"
      /\ row' = SavePair(c, call[c].kek) /\ saved' = saved \cup {c} /\ Goto(c, "persisted")
  BY DEF Persist
<1>2. ~Ended(call[c]) /\ call[c].kind = "identity"
  BY <1>1, IdentityCall DEF IdentityPc
<1>3. OwnersKept /\ CallInv' /\ FlightInv'
  BY <1>1, <1>2, OwnStored DEF FlightSame
<1>4. c \in Key /\ c # None /\ call[c].kek \in Key
  BY <1>2, Suspended, Numbers DEF CallType
<1>5. StoreInv'
  BY <1>1, <1>3, <1>4, PairStored
<1> QED
  BY <1>1, <1>3, <1>5, TabsSame, RestSame DEF IInv

LEMMA NoSealedScalar == NoSealed \in Scalar /\ NoRow \in Row
  BY Numbers DEF NoSealed, Scalar, Epoch, NoRow, Row

LEMMA PersistedStep ==
    ASSUME IInv, NEW c \in Call, Persisted(c)
    PROVE  IInv'
<1>1. UNCHANGED <<kek, legacy, Env, hist>> /\ call[c].pc = "persisted"
  BY DEF Persisted
<1>2. ~Ended(call[c]) /\ call[c].kind = "identity"
  BY <1>1, IdentityCall DEF IdentityPc
<1>3. PairSane(c, call[c], saved)
  BY <1>2, Suspended
<1>4. c \in saved
  BY <1>1, <1>3 DEF PairSane
<1>5. CASE call[c].stored = NoRow
  <2>1. Resolve(c, c) /\ UNCHANGED store
    BY <1>1, <1>5 DEF Persisted, store
  <2> QED
    BY <1>1, <1>2, <1>4, <2>1, Numbers, Resolved
<1>6. CASE call[c].stored # NoRow
  <2> DEFINE x == [T(c) EXCEPT !.noise = None, !.sealed = NoSealed, !.epoch = @ + 1]
  <2>1. T(c) \in TabType /\ call[c].tab \in Tab /\ T(c) = tab[call[c].tab] /\ TabSane(call, T(c), saved)
    BY <1>2, Suspended
  <2>2. x \in TabType /\ TabSane(call, x, saved) /\ x.inflight = T(c).inflight
    <3>1. T(c).epoch + 1 \in Epoch
      BY <2>1 DEF TabType, Epoch
    <3> QED
      BY <2>1, <3>1, Numbers, NoSealedScalar DEF TabType, TabSane
  <2>3. /\ tab' = [tab EXCEPT ![call[c].tab] = x]
        /\ row' = [row EXCEPT !["noise"] = NoRow] /\ Goto(c, "residue") /\ UNCHANGED lock
    BY <1>6, <2>1 DEF Persisted, IInv, TabInv
  <2> HIDE DEF x
  <2>4. FlightSame
    BY <2>1, <2>2, <2>3 DEF FlightSame, IInv, TabInv
  <2>5. OwnersKept /\ CallInv' /\ FlightInv'
    BY <1>1, <1>2, <1>4, <2>3, <2>4, OwnStored DEF hist
  <2>6. TabSane(call', x, saved')
    BY <1>1, <2>2, <2>5, TabSaneKept DEF hist
  <2>7. TabInv'
    BY <1>1, <2>1, <2>2, <2>3, <2>5, <2>6, TabSet DEF hist
  <2>8. row' \in [RowName -> Row] /\ \A r \in RowName : row'[r] = row[r] \/ row'[r] = NoRow
    BY <2>3, NoSealedScalar DEF IInv, StoreInv
  <2>9. StoreInv'
    BY <1>1, <2>5, <2>8, RowsDropped DEF IInv, StoreInv, hist
  <2> QED
    BY <1>1, <2>5, <2>7, <2>9, RestSame DEF IInv, hist, Hist
<1> QED
  BY <1>5, <1>6

LEMMA ResidueSealedStep ==
    ASSUME IInv, NEW c \in Call, ResidueSealed(c)
    PROVE  IInv'
<1>1. /\ UNCHANGED <<kek, legacy, lock, tab, Env, hist>> /\ call[c].pc = "residue"
      /\ row' = [row EXCEPT !["sealed"] = NoRow] /\ Goto(c, "replaced")
  BY DEF ResidueSealed
<1>2. ~Ended(call[c]) /\ call[c].kind = "identity"
  BY <1>1, IdentityCall DEF IdentityPc
<1>3. c \in saved
  BY <1>1, <1>2, Suspended DEF PairSane
<1>4. OwnersKept /\ CallInv' /\ FlightInv'
  BY <1>1, <1>2, <1>3, OwnStored DEF FlightSame, hist
<1>5. row' \in [RowName -> Row] /\ \A r \in RowName : row'[r] = row[r] \/ row'[r] = NoRow
  BY <1>1, NoSealedScalar DEF IInv, StoreInv
<1>6. StoreInv'
  BY <1>1, <1>4, <1>5, RowsDropped DEF IInv, StoreInv, hist
<1> QED
  BY <1>1, <1>4, <1>6, TabsSame, RestSame DEF IInv, hist, Hist

LEMMA ReplacedStep ==
    ASSUME IInv, NEW c \in Call, Replaced(c)
    PROVE  IInv'
<1>1. UNCHANGED <<store, Env, hist>> /\ call[c].pc = "replaced" /\ Resolve(c, c)
  BY DEF Replaced
<1>2. ~Ended(call[c]) /\ call[c].kind = "identity"
  BY <1>1, IdentityCall DEF IdentityPc
<1>3. c \in saved
  BY <1>1, <1>2, Suspended DEF PairSane
<1> QED
  BY <1>1, <1>2, <1>3, Numbers, Resolved

-----------------------------------------------------------------------------
(* Calls are made *)

LEMMA MadeShape ==
    ASSUME IInv, NEW c \in Call, NEW kind \in Kind, NEW t \in Tab, NEW o \in Key
    PROVE  LET k == Made(c, kind, t, o)
           IN /\ k \in CallType /\ k.kind = kind /\ k.tab = t /\ k.owner = o
              /\ k.stored = NoRow /\ k.got = NoRow
<1> DEFINE k == Made(c, kind, t, o)
<1>1. tab[t].epoch \in Nat
  BY DEF IInv, TabInv, TabType, Epoch
<1>2. /\ IdleCall \in [kind : Kind, tab : Tab \cup {"none"}, pc : Pc, epoch : Epoch, mark : Epoch, owner : Key,
                       kek : Key, stored : Row, got : Row, minting : BOOLEAN]
      /\ IdleCall.stored = NoRow /\ IdleCall.got = NoRow
  BY Numbers, NoSealedScalar DEF IdleCall, Pc, Epoch, Kind
<1>3. k \in CallType /\ k.kind = kind /\ k.tab = t /\ k.owner = o /\ k.stored = NoRow /\ k.got = NoRow
  BY <1>1, <1>2 DEF CallType, Made, Epoch
<1> QED
  BY <1>3 DEF k

LEMMA BeginsPlainly ==
    ASSUME IInv, NEW c \in Call, Next1(c), NEW k \in CallType, call' = [call EXCEPT ![c] = k],
           k.tab \in Tab, k.pc \in PcOf(k.kind), Plain(k.pc), k.stored = NoRow,
           k.kind \in {"sealed", "replace"} => k.owner # None,
           UNCHANGED <<saved, lock>>,
           \A t \in Tab : \/ tab'[t].inflight = tab[t].inflight
                          \/ tab'[t].inflight = c /\ k.kind = "sealed" /\ k.tab = t
    PROVE  OwnersKept /\ CallInv' /\ FlightInv'
<1>1. k.tab # "none" /\ call[c].pc = "idle"
  BY IdentityAssumption DEF Next1
<1>2. Shape(k) /\ ~Ended(k) /\ k.pc # "sealedJoin"
  BY <1>1 DEF Shape, Plain, Ended
<1>3. PairSane(c, k, saved) /\ SealedSane(call, k)
  BY DEF PairSane, SealedSane, Plain, NoRow
<1> QED
  BY <1>1, <1>2, <1>3, Begins

LEMMA StartRest ==
    ASSUME IInv, HistoryOK', UNCHANGED Env
    PROVE  RestOK'
  BY DEF IInv, RestOK, HistoryOK, Env

LEMMA IdentityStartStep ==
    ASSUME IInv, NEW c \in Call, NEW t \in Tab, IdentityStart(c, t)
    PROVE  IInv'
<1> DEFINE m == Made(c, "identity", t, None)
           k == [m EXCEPT !.pc = "lock"]
<1>1. /\ UNCHANGED <<store, lock, tab, Env, saved>> /\ Next1(c)
      /\ call' = [call EXCEPT ![c] = k] /\ HistoryOK'
  BY DEF IdentityStart, BesideClear, IInv, RestOK, HistoryOK
<1>2. m \in CallType /\ m.kind = "identity" /\ m.tab = t /\ m.owner = None /\ m.stored = NoRow
  BY MadeShape, Numbers DEF Kind
<1> HIDE DEF m
<1>3. k \in CallType /\ k.kind = "identity" /\ k.tab = t /\ k.pc = "lock" /\ k.stored = NoRow
  BY <1>2 DEF CallType, Pc
<1> HIDE DEF k
<1>4. "lock" \in PcOf("identity") /\ Plain("lock")
  BY DEF PcOf, Plain
<1>5. OwnersKept /\ CallInv' /\ FlightInv'
  BY <1>1, <1>3, <1>4, BeginsPlainly
<1>6. RestOK'
  BY <1>1, StartRest
<1> QED
  BY <1>1, <1>5, <1>6, TabsSame, StoreKept DEF IInv

\* What a page changes when it forgets or learns does not make it insane.
LEMMA PageForgets ==
    ASSUME NEW x, NEW y, NEW cl, NEW S, TabSane(cl, x, S), y.id \in {x.id, None},
           y.sealed \in {x.sealed, NoSealed}, y.memo = x.memo, y.held = x.held
    PROVE  TabSane(cl, y, S)
  BY DEF TabSane

LEMMA Started ==
    ASSUME IInv, OwnersKept, CallInv', FlightInv', TabInv', HistoryOK', UNCHANGED <<store, Env, saved>>
    PROVE  IInv'
  BY StoreKept, StartRest DEF IInv

LEMMA SealedStartStep ==
    ASSUME IInv, NEW c \in Call, NEW t \in Tab, NEW o \in Key, SealedStart(c, t, o)
    PROVE  IInv'
<1> DEFINE m == Made(c, "sealed", t, o)
           f == tab[t].inflight
<1>1. /\ UNCHANGED <<store, lock, Env, saved>> /\ Next1(c) /\ o \in tab[t].held
      /\ HistoryOK'
  BY DEF SealedStart, BesideClear, IInv, RestOK, HistoryOK
<1>2. /\ m \in CallType /\ m.kind = "sealed" /\ m.tab = t /\ m.owner = o /\ m.stored = NoRow /\ m.got = NoRow
  BY MadeShape DEF Kind
<1>3. tab[t] \in TabType /\ TabSane(call, tab[t], saved) /\ o # None /\ call[c].pc = "idle" /\ t # "none"
  BY <1>1, IdentityAssumption DEF IInv, TabInv, TabSane, Next1
<1>4. SUFFICES OwnersKept /\ CallInv' /\ FlightInv' /\ TabInv'
  BY <1>1, Started
<1>5. ASSUME NEW k \in CallType, k.kind = "sealed", k.tab = t, k.owner = o, k.stored = NoRow,
             k.pc \in {"sealedGot", "sealedJoin"}, SealedSane(call, k),
             call' = [call EXCEPT ![c] = k], UNCHANGED tab
      PROVE  OwnersKept /\ CallInv' /\ FlightInv' /\ TabInv'
  <2>1. ~Ended(k) /\ Shape(k)
    BY <1>3, <1>5 DEF Ended, Shape, PcOf
  <2>2. PairSane(c, k, saved)
    BY <1>3, <1>5 DEF PairSane, NoRow
  <2>3. OwnersKept /\ CallInv' /\ FlightInv'
    BY <1>1, <1>3, <1>5, <2>1, <2>2, Begins
  <2> QED
    BY <1>1, <1>5, <2>3, TabsSame
<1>6. CASE CachedFor(t, o)
  <2> DEFINE k == [m EXCEPT !.pc = "sealedGot", !.got.id = tab[t].sealed.id]
  <2>1. call' = [call EXCEPT ![c] = k] /\ UNCHANGED tab
    BY <1>6 DEF SealedStart
  <2>2. tab[t].sealed.id \in Key /\ Minted(call, tab[t].sealed.id, o)
    BY <1>3, <1>6, NoSealedScalar DEF CachedFor, TabType, Scalar, TabSane, NoSealed
  <2> HIDE DEF m
  <2>3. /\ k \in CallType /\ k.kind = "sealed" /\ k.tab = t /\ k.owner = o /\ k.stored = NoRow
        /\ k.pc = "sealedGot" /\ k.got.id = tab[t].sealed.id
    BY <1>2, <2>2 DEF CallType, Row, Pc
  <2> HIDE DEF k
  <2>4. SealedSane(call, k)
    BY <2>2, <2>3 DEF SealedSane
  <2> QED
    BY <1>5, <2>1, <2>3, <2>4
<1>7. CASE ~CachedFor(t, o) /\ InflightFor(t, o)
  <2>1. f # None /\ f \in Call /\ call[f].owner = o /\ call[f].tab = t /\ UNCHANGED tab
    BY <1>3, <1>7 DEF InflightFor, TabType, IInv, FlightInv, SealedStart
  <2>2. call[f] \in CallType /\ Shape(call[f]) /\ SealedSane(call, call[f])
    BY <2>1 DEF IInv, CallInv
  <2>3. CASE call[f].pc = "sealedGot"
    <3> DEFINE k == [m EXCEPT !.pc = "sealedGot", !.got.id = call[f].got.id]
    <3>1. call' = [call EXCEPT ![c] = k]
      BY <1>7, <2>3 DEF SealedStart
    <3>2. call[f].got.id \in Key /\ Minted(call, call[f].got.id, o)
      BY <2>1, <2>2, <2>3 DEF CallType, Row, SealedSane
    <3> HIDE DEF m
    <3>3. /\ k \in CallType /\ k.kind = "sealed" /\ k.tab = t /\ k.owner = o /\ k.stored = NoRow
          /\ k.pc = "sealedGot" /\ k.got.id = call[f].got.id
      BY <1>2, <3>2 DEF CallType, Row, Pc
    <3> HIDE DEF k
    <3>4. SealedSane(call, k)
      BY <3>2, <3>3 DEF SealedSane
    <3> QED
      BY <1>5, <2>1, <3>1, <3>3, <3>4
  <2>4. CASE call[f].pc # "sealedGot"
    <3> DEFINE k == [m EXCEPT !.pc = "sealedJoin", !.mark = f]
    <3>1. call' = [call EXCEPT ![c] = k]
      BY <1>7, <2>4 DEF SealedStart
    <3>2. f \in Epoch /\ call[f].pc # "idle"
      BY <1>3, <2>1, <2>2, Numbers DEF Epoch, Shape, Ended
    <3> HIDE DEF m
    <3>3. /\ k \in CallType /\ k.kind = "sealed" /\ k.tab = t /\ k.owner = o /\ k.stored = NoRow
          /\ k.pc = "sealedJoin" /\ k.mark = f
      BY <1>2, <3>2 DEF CallType, Pc
    <3> HIDE DEF k
    <3>4. SealedSane(call, k)
      BY <2>1, <3>2, <3>3 DEF SealedSane
    <3> QED
      BY <1>5, <2>1, <3>1, <3>3, <3>4
  <2> QED
    BY <2>3, <2>4
<1>8. CASE ~CachedFor(t, o) /\ ~InflightFor(t, o)
  <2> DEFINE k == [m EXCEPT !.pc = "lock"]
             x == [tab[t] EXCEPT !.inflight = c]
  <2>1. call' = [call EXCEPT ![c] = k] /\ tab' = [tab EXCEPT ![t] = x]
    BY <1>8 DEF SealedStart
  <2> HIDE DEF m
  <2>2. /\ k \in CallType /\ k.kind = "sealed" /\ k.tab = t /\ k.owner = o /\ k.stored = NoRow /\ k.pc = "lock"
    BY <1>2 DEF CallType, Pc
  <2>3. x \in TabType /\ x.inflight = c /\ TabSane(call, x, saved)
    BY <1>3 DEF TabType, TabSane
  <2> HIDE DEF k, x
  <2>4. "lock" \in PcOf("sealed") /\ Plain("lock")
    BY DEF PcOf, Plain
  <2>5. \A u \in Tab : \/ tab'[u].inflight = tab[u].inflight
                       \/ tab'[u].inflight = c /\ k.kind = "sealed" /\ k.tab = u
    BY <2>1, <2>2, <2>3 DEF IInv, TabInv
  <2>6. OwnersKept /\ CallInv' /\ FlightInv'
    <3>1. /\ IInv /\ Next1(c) /\ k \in CallType /\ call' = [call EXCEPT ![c] = k] /\ UNCHANGED <<saved, lock>>
          /\ k.tab \in Tab /\ k.pc \in PcOf(k.kind) /\ Plain(k.pc) /\ k.stored = NoRow /\ k.owner # None
      BY <1>1, <1>3, <2>1, <2>2, <2>4
    <3> HIDE DEF f, m
    <3> QED
      BY ONLY <2>5, <3>1, c \in Call, BeginsPlainly
  <2>7. TabSane(call', x, saved')
    BY <1>1, <2>3, <2>6, TabSaneKept
  <2> QED
    BY <1>1, <2>1, <2>3, <2>6, <2>7, TabSet
<1> QED
  BY <1>6, <1>7, <1>8

-----------------------------------------------------------------------------
(* The sealed scalar *)

SealedPc == {"sealedRow", "sealedRead", "sealedSaved", "sealedGot"}

LEMMA SealedCall ==
    ASSUME IInv, NEW c \in Call, call[c].pc \in SealedPc \/ (call[c].kind = "sealed" /\ ~Ended(call[c]))
    PROVE  /\ ~Ended(call[c]) /\ call[c].kind = "sealed" /\ call[c] \in CallType
           /\ call[c].owner # None /\ call[c].tab \in Tab
<1>1. ~Ended(call[c])
  BY DEF SealedPc, Ended
<1>2. call[c].pc \in PcOf(call[c].kind) /\ call[c] \in CallType /\ PairSane(c, call[c], saved) /\ call[c].tab \in Tab
  BY <1>1, Suspended
<1>3. call[c].kind = "sealed"
  BY <1>2 DEF SealedPc, PcOf, KekPc, CallType, Kind, ClearNext
<1> QED
  BY <1>1, <1>2, <1>3 DEF PairSane

\* The calls that wait for c's promise ask for the scalar of the same identity.
LEMMA SettledCalls ==
    ASSUME IInv, NEW c \in Call, call[c].kind = "sealed", ~Ended(call[c]), NEW d \in Call, Settles(c, d)
    PROVE  /\ ~Ended(call[d]) /\ call[d].kind = "sealed" /\ call[d] \in CallType /\ Shape(call[d])
           /\ call[d].owner = call[c].owner /\ PairSane(d, call[d], saved)
<1>1. ~Ended(call[d]) /\ call[d].owner = call[c].owner
  BY DEF Settles, Ended, IInv, CallInv, SealedSane
<1>2. call[d].pc \in PcOf(call[d].kind) /\ call[d] \in CallType /\ PairSane(d, call[d], saved) /\ Shape(call[d])
  BY <1>1, Suspended
<1>3. call[d].kind = "sealed"
  BY <1>2 DEF Settles, PcOf, KekPc, CallType, Kind, ClearNext
<1> QED
  BY <1>1, <1>2, <1>3

LEMMA Fulfilled ==
    ASSUME IInv, NEW c \in Call, call[c].kind = "sealed", ~Ended(call[c]), NEW key \in Key,
           Fulfil(c, key), Minted(call, key, call[c].owner), UNCHANGED saved, FlightSame
    PROVE  OwnersKept /\ CallInv' /\ FlightInv'
<1> DEFINE k(d) == [call[d] EXCEPT !.pc = "sealedGot", !.got = Wrapped(key, None, None)]
<1>1. Wrapped(key, None, None) \in Row /\ Wrapped(key, None, None).id = key
  BY Numbers DEF Wrapped, Row
<1>2. /\ call' = [d \in Call |-> IF Settles(c, d) THEN k(d) ELSE call[d]]
      /\ lock' = IF lock = c THEN None ELSE lock
  BY DEF Fulfil
<1>3. ASSUME NEW d \in Call, Settles(c, d)
      PROVE  /\ k(d) \in CallType /\ k(d).pc = "sealedGot" /\ k(d).got.id = key
             /\ k(d).kind = "sealed" /\ k(d).tab = call[d].tab /\ k(d).owner = call[d].owner
             /\ k(d).stored = call[d].stored
  <2>1. call[d] \in CallType /\ call[d].kind = "sealed"
    BY <1>3, SettledCalls
  <2> QED
    BY <1>1, <2>1 DEF CallType, Pc
<1> HIDE DEF k
<1>4. ASSUME NEW d \in Call, Settles(c, d)
      PROVE  Shape(k(d)) /\ PairSane(d, k(d), saved) /\ Minted(call, k(d).got.id, k(d).owner) /\ call[d].pc # "idle"
  <2>1. /\ ~Ended(call[d]) /\ call[d].owner = call[c].owner /\ PairSane(d, call[d], saved) /\ Shape(call[d])
        /\ call[d].kind = "sealed"
    BY <1>4, SettledCalls
  <2>2. Shape(k(d))
    BY <1>3, <1>4, <2>1 DEF Shape, Ended, PcOf
  <2>3. PairSane(d, k(d), saved)
    BY <1>3, <1>4, <2>1 DEF PairSane, Ended
  <2> QED
    BY <1>3, <1>4, <2>1, <2>2, <2>3 DEF Ended
<1>5. OwnersKept
  BY <1>2, <1>3, <1>4 DEF OwnersKept
<1>6. call' \in [Call -> CallType]
  BY <1>2, <1>3 DEF IInv, CallInv
<1>7. ASSUME NEW d \in Call
      PROVE  \/ call'[d] = call[d]
             \/ Shape(call'[d]) /\ PairSane(d, call'[d], saved') /\ SealedSane(call', call'[d])
  <2>1. CASE Settles(c, d)
    <3>1. Minted(call', k(d).got.id, k(d).owner)
      BY <1>4, <1>5, <2>1, MintedKept
    <3>2. SealedSane(call', k(d))
      BY <1>3, <2>1, <3>1 DEF SealedSane
    <3> QED
      BY <1>2, <1>4, <2>1, <3>2
  <2>2. CASE ~Settles(c, d)
    BY <1>2, <2>2
  <2> QED
    BY <2>1, <2>2
<1>8. CallInv'
  BY <1>5, <1>6, <1>7, CallsKept DEF IInv
<1>9. \A d \in Call : \/ call'[d] = call[d]
                      \/ call'[d].pc = "sealedGot" /\ call'[d].kind = call[d].kind /\ call'[d].tab = call[d].tab
  <2>1. \A d \in Call : Settles(c, d) => call[d].kind = "sealed"
    BY SettledCalls
  <2> QED
    BY <1>2, <1>3, <2>1
<1>10. \A t \in Tab : tab[t].inflight # None => tab[t].inflight \in Call
  BY DEF IInv, TabInv, TabType
<1>11. FlightInv'
  BY <1>2, <1>9, <1>10 DEF IInv, FlightInv, FlightSame, Ended
<1> QED
  BY <1>5, <1>8, <1>11

LEMMA Thrown ==
    ASSUME IInv, NEW c \in Call, call[c].kind = "sealed", ~Ended(call[c]), call[c].pc # "sealedJoin",
           SealedThrows(c), UNCHANGED <<store, saved>>, RestOK'
    PROVE  IInv'
<1>1. /\ call' = [d \in Call |-> IF Settles(c, d) THEN Over(d) ELSE call[d]]
      /\ lock' = IF lock = c THEN None ELSE lock
      /\ tab' = [tab EXCEPT ![call[c].tab].inflight = IF @ = c THEN None ELSE @]
  BY DEF SealedThrows
<1>2. \A d \in Call : \A cl, S : /\ Over(d) \in CallType /\ Shape(Over(d)) /\ Ended(Over(d))
                                 /\ PairSane(d, Over(d), S) /\ SealedSane(cl, Over(d))
                                 /\ Over(d).pc = "done" /\ Over(d).owner = call[d].owner
  BY OverSane DEF IInv
<1>3. OwnersKept
  BY <1>1, <1>2 DEF OwnersKept
<1>4. call' \in [Call -> CallType]
  BY <1>1, <1>2 DEF IInv, CallInv
<1>5. CallInv'
  BY <1>1, <1>2, <1>3, <1>4, CallsKept DEF IInv
<1> DEFINE x == [T(c) EXCEPT !.inflight = IF @ = c THEN None ELSE @]
<1>6. T(c) \in TabType /\ call[c].tab \in Tab /\ T(c) = tab[call[c].tab] /\ TabSane(call, T(c), saved)
  BY Suspended
<1>7. /\ x \in TabType /\ TabSane(call, x, saved) /\ tab' = [tab EXCEPT ![call[c].tab] = x]
      /\ x.inflight = IF T(c).inflight = c THEN None ELSE T(c).inflight
  BY <1>1, <1>6 DEF TabType, TabSane
<1> HIDE DEF x
<1>8. TabSane(call', x, saved')
  BY <1>3, <1>7, TabSaneKept
<1>9. TabInv'
  BY <1>3, <1>6, <1>7, <1>8, TabSet
<1>10. \A t \in Tab : tab'[t].inflight # None =>
          tab'[t].inflight = tab[t].inflight /\ tab[t].inflight \in Call \ {c}
  <2> SUFFICES ASSUME NEW t \in Tab, tab'[t].inflight # None
               PROVE  tab'[t].inflight = tab[t].inflight /\ tab[t].inflight \in Call \ {c}
    OBVIOUS
  <2>1. tab \in [Tab -> TabType] /\ tab[t].inflight \in Call \cup {None}
    BY DEF IInv, TabInv, TabType
  <2>2. CASE t = call[c].tab
    BY <1>6, <1>7, <2>1, <2>2
  <2>3. CASE t # call[c].tab
    BY <1>7, <2>1, <2>3, Numbers DEF IInv, FlightInv
  <2> QED
    BY <2>2, <2>3
<1>11. \A d \in Call \ {c} : call[d].pc # "sealedJoin" => call'[d] = call[d]
  BY <1>1 DEF Settles
<1>12. lock' # None => lock' = lock /\ lock \in Call \ {c}
  BY <1>1 DEF IInv, FlightInv
<1>13. FlightInv'
  BY <1>10, <1>11, <1>12 DEF IInv, FlightInv
<1> QED
  BY <1>3, <1>5, <1>9, <1>13, StoreKept DEF IInv

LEMMA SealedCached ==
    ASSUME IInv, NEW c \in Call, ~Ended(call[c]), NEW key \in Key, CacheSealed(c, key)
    PROVE  /\ FlightSame
           /\ OwnersKept /\ UNCHANGED saved /\ Minted(call, key, call[c].owner) => TabInv'
<1> DEFINE s == [owner |-> call[c].owner, epoch |-> call[c].mark, id |-> key]
           x == [T(c) EXCEPT !.sealed = s]
<1>1. /\ T(c) \in TabType /\ call[c].tab \in Tab /\ T(c) = tab[call[c].tab] /\ TabSane(call, T(c), saved)
      /\ call[c] \in CallType
  BY Suspended
<1>2. s \in Scalar /\ s.owner = call[c].owner /\ s.id = key
  BY <1>1 DEF Scalar, CallType
<1> HIDE DEF s
<1>3. tab' = [tab EXCEPT ![call[c].tab] = x]
  BY <1>1 DEF CacheSealed, s
<1>4. /\ x \in TabType /\ x.inflight = T(c).inflight /\ x.sealed = s /\ x.id = T(c).id
      /\ x.memo = T(c).memo /\ x.held = T(c).held
  BY <1>1, <1>2 DEF TabType
<1> HIDE DEF x
<1>5. FlightSame
  BY <1>1, <1>3, <1>4 DEF FlightSame, IInv, TabInv
<1>6. ASSUME OwnersKept, UNCHANGED saved, Minted(call, key, call[c].owner)
      PROVE  TabInv'
  <2>1. TabSane(call, x, saved)
    BY <1>1, <1>2, <1>4, <1>6 DEF TabSane
  <2>2. TabSane(call', x, saved')
    BY <1>6, <2>1, TabSaneKept
  <2> QED
    BY <1>1, <1>3, <1>4, <1>6, <2>2, TabSet
<1> QED
  BY <1>5, <1>6

LEMMA SealedLockedStep ==
    ASSUME IInv, NEW c \in Call, SealedLocked(c)
    PROVE  IInv'
<1>1. UNCHANGED <<store, tab, Env, hist>> /\ call[c].kind = "sealed" /\ call[c].pc = "lock" /\ ~Ended(call[c])
  BY DEF SealedLocked, Ended
<1>2. call[c] \in CallType /\ call[c].owner # None
  BY <1>1, SealedCall
<1>3. T(c) \in TabType /\ T(c) = tab[call[c].tab] /\ TabSane(call, T(c), saved)
  BY <1>1, Suspended
<1>4. CASE CachedFor(call[c].tab, call[c].owner)
  <2>1. Fulfil(c, T(c).sealed.id)
    BY <1>4 DEF SealedLocked
  <2>2. T(c).sealed.id \in Key /\ Minted(call, T(c).sealed.id, call[c].owner)
    BY <1>2, <1>3, <1>4 DEF CachedFor, NoSealed, TabSane, TabType, Scalar
  <2>3. OwnersKept /\ CallInv' /\ FlightInv'
    BY <1>1, <2>1, <2>2, Fulfilled DEF hist, FlightSame
  <2> QED
    BY <1>1, <2>3, Went
<1>5. CASE ~CachedFor(call[c].tab, call[c].owner)
  <2> DEFINE k == [call[c] EXCEPT !.mark = T(c).epoch]
  <2>1. lock' = c /\ call' = [call EXCEPT ![c] = AskKek(k, T(c).kek)]
    BY <1>5 DEF SealedLocked, IInv, CallInv
  <2>2. /\ k \in CallType /\ k.kind = "sealed" /\ k.kind = call[c].kind
        /\ k.tab = call[c].tab /\ k.owner = call[c].owner /\ k.stored = call[c].stored
    BY <1>1, <1>2, <1>3 DEF CallType, TabType
  <2> HIDE DEF k
  <2> QED
    BY <1>1, <2>1, <2>2, AsksKek
<1> QED
  BY <1>4, <1>5

LEMMA SealedRowStep ==
    ASSUME IInv, NEW c \in Call, SealedRow(c)
    PROVE  IInv'
<1> DEFINE k == [call[c] EXCEPT !.pc = "sealedRead", !.got = row["sealed"]]
<1>1. UNCHANGED <<store, lock, tab, Env, hist>> /\ call[c].pc = "sealedRow" /\ call[c].pc \in SealedPc
  BY DEF SealedRow, SealedPc
<1>2. ~Ended(call[c]) /\ call[c].kind = "sealed"
  BY <1>1, SealedCall
<1>3. call[c] \in CallType /\ Shape(call[c]) /\ PairSane(c, call[c], saved)
  BY <1>2, Suspended
<1>4. row["sealed"] \in Row /\ (row["sealed"] # NoRow => Minted(call, row["sealed"].id, row["sealed"].owner))
  BY DEF IInv, StoreInv, RowName
<1>5. /\ k \in CallType /\ k.pc = "sealedRead" /\ k.kind = "sealed" /\ k.kind = call[c].kind
      /\ k.tab = call[c].tab /\ k.owner = call[c].owner /\ k.stored = call[c].stored /\ k.got = row["sealed"]
  BY <1>2, <1>3, <1>4 DEF CallType, Pc
<1>6. call' = [call EXCEPT ![c] = k]
  BY DEF SealedRow, Read, IInv, CallInv
<1> HIDE DEF k
<1>7. ~Ended(k) /\ Shape(k)
  BY <1>2, <1>3, <1>5 DEF Shape, Ended, PcOf
<1>8. PairSane(c, k, saved) /\ SealedSane(call, k)
  BY <1>2, <1>3, <1>4, <1>5, <1>7 DEF PairSane, SealedSane
<1>9. OwnersKept /\ CallInv' /\ FlightInv'
  BY <1>1, <1>2, <1>5, <1>6, <1>7, <1>8, GoesOn DEF hist, FlightSame
<1> QED
  BY <1>1, <1>9, Went

LEMMA SealedLoadedStep ==
    ASSUME IInv, NEW c \in Call, SealedLoaded(c)
    PROVE  IInv'
<1>1. /\ UNCHANGED <<store, Env, hist>> /\ call[c].pc = "sealedRead" /\ call[c].pc \in SealedPc
      /\ call[c].got.owner = call[c].owner
  BY DEF SealedLoaded, SealedPc, Usable
<1>2. ~Ended(call[c]) /\ call[c].kind = "sealed" /\ call[c] \in CallType /\ call[c].owner # None
  BY <1>1, SealedCall
<1>3. SealedSane(call, call[c])
  BY <1>2, Suspended
<1>4. call[c].got.id \in Key /\ Minted(call, call[c].got.id, call[c].owner)
  BY <1>1, <1>2, <1>3 DEF SealedSane, NoRow, CallType, Row
<1>5. CASE CacheSealed(c, call[c].got.id) /\ Fulfil(c, call[c].got.id)
  <2>1. OwnersKept /\ CallInv' /\ FlightInv'
    BY <1>1, <1>2, <1>4, <1>5, SealedCached, Fulfilled DEF hist
  <2>2. TabInv'
    BY <1>1, <1>2, <1>4, <1>5, <2>1, SealedCached DEF hist
  <2> QED
    BY <1>1, <2>1, <2>2, StoreKept, RestSame DEF IInv, hist, Hist
<1>6. CASE SealedThrows(c)
  <2>1. RestOK' /\ UNCHANGED saved
    BY <1>1, RestSame DEF IInv, hist, Hist
  <2> QED
    BY <1>1, <1>2, <1>6, <2>1, Thrown
<1> QED
  BY <1>5, <1>6 DEF SealedLoaded

LEMMA SealedMintStep ==
    ASSUME IInv, NEW c \in Call, SealedMint(c)
    PROVE  IInv'
<1>1. /\ UNCHANGED <<kek, legacy, tab, Env, saved, raced, sealers, restored>>
      /\ call[c].pc = "sealedRead" /\ call[c].pc \in SealedPc
  BY DEF SealedMint, SealedPc
<1>2. ~Ended(call[c]) /\ call[c].kind = "sealed" /\ call[c] \in CallType
  BY <1>1, SealedCall
<1>3. c \in Key /\ Minted(call, c, call[c].owner)
  BY <1>1, Numbers DEF Minted
<1> RestOK'
  BY DEF SealedMint, IInv, RestOK, HistoryOK, Env
<1>4. CASE Fulfil(c, c) /\ UNCHANGED row
  <2>1. OwnersKept /\ CallInv' /\ FlightInv'
    BY <1>1, <1>2, <1>3, <1>4, Fulfilled DEF FlightSame
  <2> QED
    BY <1>1, <1>4, <2>1, TabsSame, StoreKept DEF IInv, store
<1>5. CASE /\ row' = [row EXCEPT !["sealed"] = Wrapped(c, call[c].kek, call[c].owner)]
           /\ Goto(c, "sealedSaved") /\ UNCHANGED lock
  <2> DEFINE w == Wrapped(c, call[c].kek, call[c].owner)
  <2>1. "sealedSaved" \in PcOf("sealed") /\ Plain("sealedSaved")
    BY DEF PcOf, Plain
  <2>2. OwnersKept /\ CallInv' /\ FlightInv'
    BY <1>1, <1>2, <1>5, <2>1, GotoGoesOn DEF FlightSame
  <2>3. w \in Row /\ w.id = c /\ w.owner = call[c].owner
    BY <1>2, <1>3 DEF CallType, Row, Wrapped
  <2> HIDE DEF w
  <2>4. row' = [row EXCEPT !["sealed"] = w]
    BY <1>5 DEF w
  <2>5. /\ row' \in [RowName -> Row] /\ row'["device"] = row["device"] /\ row'["seed"] = row["seed"]
        /\ row'["sealed"] = w
    BY <2>3, <2>4 DEF IInv, StoreInv, RowName
  <2>6. Minted(call', w.id, w.owner)
    BY <1>3, <2>2, <2>3, MintedKept
  <2>7. StoreInv'
    BY <1>1, <2>5, <2>6 DEF IInv, StoreInv, PairMatched
  <2> QED
    BY <1>1, <2>2, <2>7, TabsSame DEF IInv
<1> QED
  BY <1>4, <1>5 DEF SealedMint

LEMMA SealedSavedStep ==
    ASSUME IInv, NEW c \in Call, SealedSaved(c)
    PROVE  IInv'
<1>1. /\ UNCHANGED <<store, Env, hist>> /\ call[c].pc \in SealedPc /\ call[c].pc # "idle"
      /\ CacheSealed(c, c) /\ Fulfil(c, c)
  BY DEF SealedSaved, SealedPc
<1>2. ~Ended(call[c]) /\ call[c].kind = "sealed"
  BY <1>1, SealedCall
<1>3. c \in Key /\ Minted(call, c, call[c].owner)
  BY <1>1, Numbers DEF Minted
<1>4. OwnersKept /\ CallInv' /\ FlightInv'
  BY <1>1, <1>2, <1>3, SealedCached, Fulfilled DEF hist
<1>5. TabInv'
  BY <1>1, <1>2, <1>3, <1>4, SealedCached DEF hist
<1> QED
  BY <1>1, <1>4, <1>5, StoreKept, RestSame DEF IInv, hist, Hist

LEMMA SealedGotStep ==
    ASSUME IInv, NEW c \in Call, SealedGot(c)
    PROVE  IInv'
<1>1. /\ UNCHANGED <<store, Env, hist>> /\ call[c].pc = "sealedGot" /\ call[c].pc \in SealedPc
      /\ Finish(c)
  BY DEF SealedGot, SealedPc
<1>2. ~Ended(call[c]) /\ call[c] \in CallType
  BY <1>1, SealedCall
<1>3. /\ T(c) \in TabType /\ call[c].tab \in Tab /\ T(c) = tab[call[c].tab] /\ TabSane(call, T(c), saved)
      /\ SealedSane(call, call[c])
  BY <1>2, Suspended
<1> DEFINE e == [owner |-> call[c].owner, epoch |-> call[c].epoch, id |-> call[c].got.id]
           x == [T(c) EXCEPT !.memo = Memoised(c), !.inflight = IF @ = c THEN None ELSE @]
<1>4. e \in Scalar /\ Minted(call, e.id, e.owner)
  BY <1>1, <1>2, <1>3 DEF Scalar, CallType, Row, SealedSane
<1>5. Memoised(c) \in SUBSET Scalar /\ \A m \in Memoised(c) : Minted(call, m.id, m.owner)
  <2>1. T(c).memo \in SUBSET Scalar /\ \A m \in T(c).memo : Minted(call, m.id, m.owner)
    BY <1>3 DEF TabType, TabSane
  <2>2. Memoised(c) = T(c).memo \/ Memoised(c) = T(c).memo \cup {e}
    BY DEF Memoised
  <2> HIDE DEF e
  <2> QED
    BY <1>4, <2>1, <2>2
<1>6. tab' = [tab EXCEPT ![call[c].tab] = x]
  BY <1>3 DEF SealedGot, IInv, TabInv
<1>7. /\ x \in TabType /\ TabSane(call, x, saved)
      /\ x.inflight = IF T(c).inflight = c THEN None ELSE T(c).inflight
  BY <1>3, <1>5 DEF TabType, TabSane
<1> HIDE DEF x, e
<1>8. ASSUME NEW t \in Tab
      PROVE  tab'[t].inflight \in {None, tab[t].inflight} \ {c}
  <2>1. tab \in [Tab -> TabType]
    BY DEF IInv, TabInv
  <2>2. CASE t = call[c].tab
    BY <1>3, <1>6, <1>7, <2>1, <2>2, Numbers
  <2>3. CASE t # call[c].tab
    BY <1>6, <2>1, <2>3, Numbers DEF IInv, FlightInv
  <2> QED
    BY <2>2, <2>3
<1>9. OwnersKept /\ CallInv' /\ FlightInv'
  BY <1>1, <1>2, <1>8, EndsAnyhow DEF hist
<1>10. TabSane(call', x, saved')
  BY <1>1, <1>7, <1>9, TabSaneKept DEF hist
<1>11. TabInv'
  BY <1>1, <1>3, <1>6, <1>7, <1>9, <1>10, TabSet DEF hist
<1> QED
  BY <1>1, <1>9, <1>11, StoreKept, RestSame DEF IInv, hist, Hist

-----------------------------------------------------------------------------
(* The Noise keypair, a restore, a forget *)

LEMMA KindOf ==
    ASSUME IInv, NEW c \in Call, ~Ended(call[c])
    PROVE  /\ call[c].pc \in {"noiseRow", "noiseRead", "noiseSaved"} => call[c].kind = "noise"
           /\ call[c].pc \in {"pairSave", "pairSaved", "restoreSealed", "restoreEnd"} => call[c].kind = "replace"
           /\ call[c].pc \in DOMAIN ClearNext => call[c].kind = "clear"
<1>1. call[c].pc \in PcOf(call[c].kind) /\ call[c].kind \in Kind
  BY Suspended DEF CallType
<1> QED
  BY <1>1 DEF PcOf, KekPc, Kind, ClearNext

LEMMA NoiseStartStep ==
    ASSUME IInv, NEW c \in Call, NEW t \in Tab, NoiseStart(c, t)
    PROVE  IInv'
<1> DEFINE m == Made(c, "noise", t, None)
           k == AskKek(m, tab[t].kek)
<1>1. /\ UNCHANGED <<store, lock, tab, Env, saved>> /\ Next1(c)
      /\ call' = [call EXCEPT ![c] = k] /\ HistoryOK'
  BY DEF NoiseStart, BesideClear, IInv, RestOK, HistoryOK
<1>2. m \in CallType /\ m.kind = "noise" /\ m.tab = t /\ m.owner = None /\ m.stored = NoRow
  BY MadeShape, Numbers DEF Kind
<1>3. tab[t].kek \in Key
  BY DEF IInv, TabInv, TabType
<1> HIDE DEF m
<1>4. k \in CallType /\ k.pc \in PcOf(k.kind) /\ Plain(k.pc) /\ k.kind = "noise" /\ k.tab = t /\ k.stored = NoRow
  BY <1>2, <1>3, AskKekPlain
<1> HIDE DEF k
<1>5. OwnersKept /\ CallInv' /\ FlightInv'
  BY <1>1, <1>4, BeginsPlainly
<1>6. TabInv'
  BY <1>1, <1>5, TabsSame
<1> QED
  BY <1>1, <1>5, <1>6, Started

LEMMA NoiseRowStep ==
    ASSUME IInv, NEW c \in Call, NoiseRow(c)
    PROVE  IInv'
<1>1. /\ UNCHANGED <<store, lock, tab, Env, hist>> /\ call[c].pc = "noiseRow" /\ ~Ended(call[c])
      /\ Read(c, "noiseRead", row["noise"])
  BY DEF NoiseRow, Ended
<1>2. row["noise"] \in Row /\ "noiseRead" \in PcOf("noise") /\ Plain("noiseRead")
  BY DEF IInv, StoreInv, RowName, PcOf, Plain
<1>3. OwnersKept /\ CallInv' /\ FlightInv'
  BY <1>1, <1>2, KindOf, ReadGoesOn DEF hist, FlightSame
<1> QED
  BY <1>1, <1>3, Went

\* A page caches a Noise keypair, or none.
LEMMA NoiseTab ==
    ASSUME IInv, OwnersKept, NEW c \in Call, ~Ended(call[c]), NEW key \in Key, saved' = saved,
           tab' = [tab EXCEPT ![call[c].tab].noise = key]
    PROVE  TabInv'
<1> DEFINE x == [T(c) EXCEPT !.noise = key]
<1>1. T(c) \in TabType /\ call[c].tab \in Tab /\ T(c) = tab[call[c].tab] /\ TabSane(call, T(c), saved)
  BY Suspended
<1>2. x \in TabType /\ TabSane(call, x, saved)
  BY <1>1 DEF TabType, TabSane
<1>3. tab' = [tab EXCEPT ![call[c].tab] = x]
  BY <1>1
<1> HIDE DEF x
<1>4. TabSane(call', x, saved')
  BY <1>2, TabSaneKept
<1> QED
  BY <1>1, <1>2, <1>3, <1>4, TabSet

LEMMA NoiseKept ==
    ASSUME IInv, NEW c \in Call, call[c].kind = "noise", ~Ended(call[c]), Finish(c), NEW key \in Key,
           tab' \in {tab, [tab EXCEPT ![call[c].tab].noise = key]}, UNCHANGED <<store, Env, hist>>
    PROVE  IInv'
<1>1. FlightSame
  BY DEF FlightSame, IInv, TabInv, TabType
<1>2. OwnersKept /\ CallInv' /\ FlightInv'
  BY <1>1, Ends DEF hist
<1>3. TabInv'
  <2>1. CASE UNCHANGED tab
    BY <1>2, <2>1, TabsSame DEF hist
  <2>2. CASE tab' = [tab EXCEPT ![call[c].tab].noise = key]
    BY <1>2, <2>2, NoiseTab DEF hist
  <2> QED
    BY <2>1, <2>2
<1> QED
  BY <1>2, <1>3, StoreKept, RestSame DEF IInv, hist, Hist

LEMMA NoiseLoadedStep ==
    ASSUME IInv, NEW c \in Call, NoiseLoaded(c)
    PROVE  IInv'
<1>1. UNCHANGED <<kek, legacy, Env, hist>> /\ call[c].pc = "noiseRead" /\ ~Ended(call[c])
  BY DEF NoiseLoaded, Ended
<1>2. call[c] \in CallType /\ call[c].kind = "noise"
  BY <1>1, KindOf, Suspended
<1>3. CASE /\ row' = [row EXCEPT !["noise"] = Wrapped(c, call[c].kek, None)]
           /\ Goto(c, "noiseSaved") /\ UNCHANGED <<lock, tab>>
  <2>1. "noiseSaved" \in PcOf("noise") /\ Plain("noiseSaved")
    BY DEF PcOf, Plain
  <2>2. OwnersKept /\ CallInv' /\ FlightInv'
    BY <1>1, <1>2, <1>3, <2>1, GotoGoesOn DEF hist, FlightSame
  <2>3. Wrapped(c, call[c].kek, None) \in Row
    BY <1>2, Numbers DEF Wrapped, Row, CallType
  <2>4. /\ row' \in [RowName -> Row] /\ row'["device"] = row["device"]
        /\ row'["seed"] = row["seed"] /\ row'["sealed"] = row["sealed"]
    BY <1>3, <2>3 DEF IInv, StoreInv, RowName
  <2>5. \A v, o : Minted(call, v, o) => Minted(call', v, o)
    BY <2>2, MintedKept
  <2>6. StoreInv'
    BY <1>1, <2>4, <2>5 DEF IInv, StoreInv, PairMatched, hist
  <2> QED
    BY <1>1, <1>3, <2>2, <2>6, TabsSame, RestSame DEF IInv, hist, Hist
<1>4. CASE /\ tab' = IF call[c].got.kek = call[c].kek
                     THEN [tab EXCEPT ![call[c].tab].noise = call[c].got.id] ELSE tab
           /\ Finish(c) /\ UNCHANGED row
  <2>1. call[c].got.id \in Key /\ UNCHANGED store
    BY <1>1, <1>2, <1>4 DEF CallType, Row, store
  <2> QED
    BY <1>1, <1>2, <1>4, <2>1, NoiseKept
<1> QED
  BY <1>3, <1>4 DEF NoiseLoaded

LEMMA NoiseSavedStep ==
    ASSUME IInv, NEW c \in Call, NoiseSaved(c)
    PROVE  IInv'
<1>1. UNCHANGED <<store, Env, hist>> /\ call[c].pc = "noiseSaved" /\ ~Ended(call[c]) /\ Finish(c)
  BY DEF NoiseSaved, Ended
<1>2. tab' = [tab EXCEPT ![call[c].tab].noise = c] /\ c \in Key
  BY Numbers DEF NoiseSaved
<1> QED
  BY <1>1, <1>2, KindOf, NoiseKept

LEMMA ReplaceStartStep ==
    ASSUME IInv, NEW c \in Call, NEW t \in Tab, NEW o \in {Old, c}, ReplaceStart(c, t, o)
    PROVE  IInv'
<1> DEFINE m == Made(c, "replace", t, o)
           k == AskKek(m, None)
           x == [tab[t] EXCEPT !.id = None, !.kek = None]
<1>1. /\ UNCHANGED <<store, lock, Env, saved>> /\ Next1(c)
      /\ call' = [call EXCEPT ![c] = k] /\ HistoryOK'
  BY DEF ReplaceStart, BesideClear, IInv, RestOK, HistoryOK
<1>2. o \in Key /\ o # None
  BY Numbers
<1>3. m \in CallType /\ m.kind = "replace" /\ m.tab = t /\ m.owner = o /\ m.stored = NoRow
  BY <1>2, MadeShape DEF Kind
<1> HIDE DEF m
<1>4. /\ k \in CallType /\ k.pc \in PcOf(k.kind) /\ Plain(k.pc) /\ k.kind = "replace" /\ k.tab = t
      /\ k.owner = o /\ k.stored = NoRow
  BY <1>3, Numbers, AskKekPlain
<1> HIDE DEF k
<1>5. tab \in [Tab -> TabType] /\ tab[t] \in TabType /\ TabSane(call, tab[t], saved)
  BY DEF IInv, TabInv
<1>6. tab' = [tab EXCEPT ![t] = x]
  BY <1>5 DEF ReplaceStart
<1>7. /\ x \in TabType /\ x.inflight = tab[t].inflight /\ x.id = None /\ x.sealed = tab[t].sealed
      /\ x.memo = tab[t].memo /\ x.held = tab[t].held
  BY <1>5, Numbers DEF TabType
<1> HIDE DEF x
<1>8. FlightSame
  BY <1>5, <1>6, <1>7 DEF FlightSame
<1>9. OwnersKept /\ CallInv' /\ FlightInv'
  BY <1>1, <1>2, <1>4, <1>8, BeginsPlainly DEF FlightSame
<1>10. TabSane(call', x, saved')
  BY <1>1, <1>5, <1>7, <1>9, PageForgets, TabSaneKept
<1>11. TabInv'
  BY <1>1, <1>6, <1>7, <1>9, <1>10, TabSet
<1> QED
  BY <1>1, <1>9, <1>11, Started

LEMMA PairSaveStep ==
    ASSUME IInv, NEW c \in Call, PairSave(c)
    PROVE  IInv'
<1>1. /\ UNCHANGED <<kek, legacy, lock, tab>> /\ call[c].pc = "pairSave" /\ ~Ended(call[c])
      /\ row' = SavePair(call[c].owner, call[c].kek) /\ saved' = saved \cup {call[c].owner} /\ Goto(c, "pairSaved")
  BY DEF PairSave, Ended
<1>2. call[c].kind = "replace" /\ call[c].owner \in Key /\ call[c].owner # None /\ call[c].kek \in Key
  BY <1>1, KindOf, Suspended DEF CallType, PairSane
<1>3. "pairSaved" \in PcOf("replace") /\ Plain("pairSaved")
  BY DEF PcOf, Plain
<1>4. OwnersKept /\ CallInv' /\ FlightInv'
  BY <1>1, <1>2, <1>3, GotoGoesOn DEF FlightSame
<1>5. StoreInv'
  BY <1>1, <1>2, <1>4, PairStored
<1>6. RestOK'
  BY DEF PairSave, Env, Hist, IInv, RestOK, HistoryOK
<1> QED
  BY <1>1, <1>4, <1>5, <1>6, TabsSame DEF IInv

LEMMA PairSavedStep ==
    ASSUME IInv, NEW c \in Call, PairSaved(c)
    PROVE  IInv'
<1>1. /\ UNCHANGED <<store, lock, tab, Env, hist>> /\ call[c].pc = "pairSaved" /\ ~Ended(call[c])
      /\ Read(c, "restoreSealed", row["sealed"])
  BY DEF PairSaved, Ended
<1>2. row["sealed"] \in Row /\ "restoreSealed" \in PcOf("replace") /\ Plain("restoreSealed")
  BY DEF IInv, StoreInv, RowName, PcOf, Plain
<1>3. OwnersKept /\ CallInv' /\ FlightInv'
  BY <1>1, <1>2, KindOf, ReadGoesOn DEF hist, FlightSame
<1> QED
  BY <1>1, <1>3, Went

LEMMA RestoreSealedStep ==
    ASSUME IInv, NEW c \in Call, RestoreSealed(c)
    PROVE  IInv'
<1>1. /\ UNCHANGED <<kek, legacy, lock, tab, Env, hist>> /\ call[c].pc = "restoreSealed" /\ ~Ended(call[c])
      /\ Goto(c, "restoreEnd") /\ row' \in {row, [row EXCEPT !["sealed"] = NoRow]}
  BY DEF RestoreSealed, Ended
<1>2. "restoreEnd" \in PcOf("replace") /\ Plain("restoreEnd")
  BY DEF PcOf, Plain
<1>3. OwnersKept /\ CallInv' /\ FlightInv'
  BY <1>1, <1>2, KindOf, GotoGoesOn DEF hist, FlightSame
<1>4. row' \in [RowName -> Row] /\ \A r \in RowName : row'[r] = row[r] \/ row'[r] = NoRow
  BY <1>1, NoSealedScalar DEF IInv, StoreInv
<1>5. StoreInv'
  BY <1>1, <1>3, <1>4, RowsDropped DEF IInv, StoreInv, hist
<1> QED
  BY <1>1, <1>3, <1>5, TabsSame, RestSame DEF IInv, hist, Hist

LEMMA RestoreEndStep ==
    ASSUME IInv, NEW c \in Call, RestoreEnd(c)
    PROVE  IInv'
<1> DEFINE x == [T(c) EXCEPT !.id = None, !.sealed = NoSealed, !.epoch = @ + 1]
<1>1. UNCHANGED <<store, Env, hist>> /\ call[c].pc = "restoreEnd" /\ ~Ended(call[c]) /\ Finish(c)
  BY DEF RestoreEnd, Ended
<1>2. T(c) \in TabType /\ call[c].tab \in Tab /\ T(c) = tab[call[c].tab] /\ TabSane(call, T(c), saved)
  BY <1>1, Suspended
<1>3. T(c).epoch + 1 \in Epoch
  BY <1>2 DEF TabType, Epoch
<1>4. tab' = [tab EXCEPT ![call[c].tab] = x]
  BY DEF RestoreEnd
<1>5. /\ x \in TabType /\ x.inflight = T(c).inflight /\ x.id = None /\ x.sealed = NoSealed
      /\ x.memo = T(c).memo /\ x.held = T(c).held
  BY <1>2, <1>3, Numbers, NoSealedScalar DEF TabType
<1> HIDE DEF x
<1>6. FlightSame
  BY <1>2, <1>4, <1>5 DEF FlightSame, IInv, TabInv
<1>7. OwnersKept /\ CallInv' /\ FlightInv'
  BY <1>1, <1>6, KindOf, Ends DEF hist
<1>8. TabSane(call', x, saved')
  BY <1>1, <1>2, <1>5, <1>7, PageForgets, TabSaneKept DEF hist
<1>9. TabInv'
  BY <1>1, <1>2, <1>4, <1>5, <1>7, <1>8, TabSet DEF hist
<1> QED
  BY <1>1, <1>7, <1>9, StoreKept, RestSame DEF IInv, hist, Hist

LEMMA ClearStartStep ==
    ASSUME IInv, NEW c \in Call, NEW t \in Tab, ClearStart(c, t)
    PROVE  IInv'
<1> DEFINE m == Made(c, "clear", t, None)
           k == [m EXCEPT !.pc = "clearSeed"]
           x == [tab[t] EXCEPT !.id = None, !.kek = None, !.noise = None, !.sealed = NoSealed, !.epoch = @ + 1]
<1>1. /\ UNCHANGED <<kek, legacy, lock, Env, saved>> /\ Next1(c)
      /\ call' = [call EXCEPT ![c] = k] /\ row' = [row EXCEPT !["device"] = NoRow]
      /\ HistoryOK'
      /\ tab' = [tab EXCEPT ![t] = x]
  BY DEF ClearStart, IInv, RestOK, HistoryOK
<1>2. m \in CallType /\ m.kind = "clear" /\ m.tab = t /\ m.stored = NoRow
  BY MadeShape, Numbers DEF Kind
<1> HIDE DEF m
<1>3. k \in CallType /\ k.kind = "clear" /\ k.tab = t /\ k.pc = "clearSeed" /\ k.stored = NoRow
  BY <1>2 DEF CallType, Pc
<1> HIDE DEF k
<1>4. tab \in [Tab -> TabType] /\ tab[t] \in TabType /\ TabSane(call, tab[t], saved)
  BY DEF IInv, TabInv
<1>5. tab[t].epoch + 1 \in Epoch
  BY <1>4 DEF TabType, Epoch
<1>6. /\ x \in TabType /\ x.inflight = tab[t].inflight /\ x.id = None /\ x.sealed = NoSealed
      /\ x.memo = tab[t].memo /\ x.held = tab[t].held
  BY <1>4, <1>5, Numbers, NoSealedScalar DEF TabType
<1> HIDE DEF x
<1>7. FlightSame
  BY <1>1, <1>4, <1>6 DEF FlightSame
<1>8. "clearSeed" \in PcOf("clear") /\ Plain("clearSeed")
  BY DEF PcOf, Plain, ClearNext
<1>9. OwnersKept /\ CallInv' /\ FlightInv'
  BY <1>1, <1>3, <1>7, <1>8, BeginsPlainly DEF FlightSame
<1>10. TabSane(call', x, saved')
  BY <1>1, <1>4, <1>6, <1>9, PageForgets, TabSaneKept
<1>11. TabInv'
  BY <1>1, <1>6, <1>9, <1>10, TabSet
<1>12. row' \in [RowName -> Row] /\ \A r \in RowName : row'[r] = row[r] \/ row'[r] = NoRow
  BY <1>1, NoSealedScalar DEF IInv, StoreInv
<1>13. StoreInv'
  BY <1>1, <1>9, <1>12, RowsDropped DEF IInv, StoreInv
<1>14. RestOK'
  BY <1>1, StartRest
<1> QED
  BY <1>9, <1>11, <1>13, <1>14 DEF IInv

LEMMA ClearStepStep ==
    ASSUME IInv, NEW c \in Call, ClearStep(c)
    PROVE  IInv'
<1>1. UNCHANGED <<tab, Env, hist>> /\ call[c].pc \in DOMAIN ClearNext
  BY DEF ClearStep
<1>2. ~Ended(call[c]) /\ call[c].kind = "clear"
  BY <1>1, KindOf DEF Ended, ClearNext
<1>3. kek' \in Key /\ legacy' \in Key
  BY Numbers DEF ClearStep, IInv, StoreInv
<1>4. row' \in [RowName -> Row] /\ \A r \in RowName : row'[r] = row[r] \/ row'[r] = NoRow
  BY NoSealedScalar DEF ClearStep, IInv, StoreInv
<1>5. OwnersKept /\ CallInv' /\ FlightInv'
  <2>1. CASE Finish(c)
    BY <1>1, <1>2, <2>1, Ends DEF hist, FlightSame
  <2>2. CASE ClearNext[call[c].pc] # "done"
    <3>1. Goto(c, ClearNext[call[c].pc]) /\ UNCHANGED lock
      BY <2>2 DEF ClearStep
    <3>2. ClearNext[call[c].pc] \in PcOf("clear") /\ Plain(ClearNext[call[c].pc])
      BY <1>1, <2>2 DEF ClearNext, PcOf, Plain
    <3> QED
      BY <1>1, <1>2, <3>1, <3>2, GotoGoesOn DEF hist, FlightSame
  <2> QED
    BY <2>1, <2>2 DEF ClearStep
<1>6. StoreInv'
  BY <1>1, <1>3, <1>4, <1>5, RowsDropped DEF hist
<1> QED
  BY <1>1, <1>5, <1>6, TabsSame, RestSame DEF IInv, hist, Hist

-----------------------------------------------------------------------------
(* Faults and reloads *)

LEMMA FaultCounted ==
    ASSUME IInv, NEW c \in Call, Fault(c)
    PROVE  RestOK' /\ UNCHANGED <<store, saved>>
  BY DEF Fault, IInv, RestOK, HistoryOK, hist

LEMMA LegacyFaultStep ==
    ASSUME IInv, NEW c \in Call, LegacyFault(c), UNCHANGED <<store, saved>>, RestOK'
    PROVE  IInv'
<1>1. /\ call[c].pc = "legacyRow" /\ ~Ended(call[c]) /\ UNCHANGED <<lock, tab>> /\ Read(c, "legacyRow", NoRow)
  BY DEF LegacyFault, Ended
<1>2. "legacyRow" \in PcOf(call[c].kind)
  BY <1>1, Suspended
<1>3. OwnersKept /\ CallInv' /\ FlightInv'
  BY <1>1, <1>2, NoSealedScalar, ReadGoesOn DEF Plain, FlightSame
<1> QED
  BY <1>1, <1>3, TabsSame, StoreKept DEF IInv

LEMMA IdentityFaultStep ==
    ASSUME IInv, NEW c \in Call, IdentityFault(c), UNCHANGED <<store, saved>>, RestOK'
    PROVE  IInv'
<1>1. call[c].kind = "identity" /\ ~Ended(call[c])
  BY DEF IdentityFault, KekFails, Ended
<1>2. CASE Read(c, "recoverKey", Wrapped(legacy, None, None)) /\ UNCHANGED <<lock, tab>>
  BY <1>1, <1>2, Recovers
<1>3. CASE Finish(c) /\ UNCHANGED tab
  BY <1>1, <1>3, Finished
<1>4. CASE tab' \in {tab, [tab EXCEPT ![call[c].tab].held = @ \cup {c}]} /\ Finish(c)
  <2> DEFINE x == [T(c) EXCEPT !.held = @ \cup {c}]
  <2>1. T(c) \in TabType /\ call[c].tab \in Tab /\ T(c) = tab[call[c].tab] /\ TabSane(call, T(c), saved)
    BY <1>1, Suspended
  <2>2. x \in TabType /\ TabSane(call, x, saved) /\ x.inflight = T(c).inflight
    BY <2>1, Numbers DEF TabType, TabSane
  <2>3. tab' = tab \/ tab' = [tab EXCEPT ![call[c].tab] = x]
    BY <1>4, <2>1 DEF IInv, TabInv
  <2> HIDE DEF x
  <2>4. FlightSame
    BY <2>1, <2>2, <2>3 DEF FlightSame, IInv, TabInv
  <2>5. OwnersKept /\ CallInv' /\ FlightInv'
    BY <1>1, <1>4, <2>4, Ends
  <2>6. TabSane(call', x, saved')
    BY <2>2, <2>5, TabSaneKept
  <2>7. TabInv'
    BY <2>1, <2>2, <2>3, <2>5, <2>6, TabSet, TabsSame
  <2> QED
    BY <2>5, <2>7, StoreKept DEF IInv
<1>5. CASE call[c].pc = "residue" /\ Goto(c, "replaced") /\ UNCHANGED <<lock, tab>>
  <2>1. c \in saved
    BY <1>1, <1>5, Suspended DEF PairSane
  <2>2. OwnersKept /\ CallInv' /\ FlightInv'
    BY <1>1, <1>5, <2>1, OwnStored DEF FlightSame
  <2> QED
    BY <1>5, <2>2, TabsSame, StoreKept DEF IInv
<1> QED
  BY <1>2, <1>3, <1>4, <1>5 DEF IdentityFault

LEMMA SealedFaultStep ==
    ASSUME IInv, NEW c \in Call, SealedFault(c), UNCHANGED <<store, saved>>, RestOK'
    PROVE  IInv'
<1>1. call[c].kind = "sealed" /\ ~Ended(call[c]) /\ call[c].pc # "sealedJoin" /\ SealedThrows(c)
  BY DEF SealedFault, KekFails, Ended
<1> QED
  BY <1>1, Thrown

LEMMA OtherFaultStep ==
    ASSUME IInv, NEW c \in Call, OtherFault(c), UNCHANGED <<store, saved>>, RestOK'
    PROVE  IInv'
<1>1. call[c].kind # "sealed" /\ ~Ended(call[c]) /\ UNCHANGED tab
  BY DEF OtherFault, KekFails, Ended, ClearNext
<1>2. CASE Finish(c)
  BY <1>1, <1>2, Finished
<1>3. CASE call[c].pc \in {"pairSaved", "restoreSealed"} /\ Goto(c, "restoreEnd") /\ UNCHANGED lock
  <2>1. call[c].kind = "replace" /\ "restoreEnd" \in PcOf("replace") /\ Plain("restoreEnd")
    BY <1>1, <1>3, KindOf DEF PcOf, Plain
  <2>2. OwnersKept /\ CallInv' /\ FlightInv'
    BY <1>1, <1>3, <2>1, GotoGoesOn DEF FlightSame
  <2> QED
    BY <1>1, <2>2, TabsSame, StoreKept DEF IInv
<1> QED
  BY <1>2, <1>3 DEF OtherFault

LEMMA FaultStep ==
    ASSUME IInv, NEW c \in Call, Fault(c)
    PROVE  IInv'
<1>1. LegacyFault(c) \/ IdentityFault(c) \/ SealedFault(c) \/ OtherFault(c)
  BY DEF Fault
<1>2. UNCHANGED <<store, saved>> /\ RestOK'
  BY FaultCounted
<1> QED
  BY <1>1, <1>2, LegacyFaultStep, IdentityFaultStep, SealedFaultStep, OtherFaultStep

LEMMA FreshPage ==
    ASSUME NEW cl, NEW S
    PROVE  FreshTab \in TabType /\ TabSane(cl, FreshTab, S) /\ FreshTab.inflight = None
  BY Numbers, NoSealedScalar DEF FreshTab, TabType, TabSane, Epoch

LEMMA ReloadStep ==
    ASSUME IInv, NEW t \in Tab, Reload(t)
    PROVE  IInv'
<1> DEFINE dead == {c \in Call : Running(c) /\ call[c].tab = t}
<1>1. /\ UNCHANGED <<store, hist>> /\ mishaps' = mishaps + 1
      /\ tab' = [tab EXCEPT ![t] = FreshTab]
      /\ call' = [c \in Call |-> IF c \in dead THEN Over(c) ELSE call[c]]
      /\ lock' = IF lock \in dead THEN None ELSE lock
  BY DEF Reload
<1>2. \A d \in Call : \A cl, S : /\ Over(d) \in CallType /\ Shape(Over(d)) /\ Ended(Over(d))
                                 /\ PairSane(d, Over(d), S) /\ SealedSane(cl, Over(d))
                                 /\ Over(d).pc = "done" /\ Over(d).owner = call[d].owner
  BY OverSane DEF IInv
<1>3. OwnersKept
  BY <1>1, <1>2 DEF OwnersKept
<1>4. call' \in [Call -> CallType]
  BY <1>1, <1>2 DEF IInv, CallInv
<1>5. CallInv'
  BY <1>1, <1>2, <1>3, <1>4, CallsKept DEF IInv, hist
<1>6. FreshTab \in TabType /\ FreshTab.inflight = None /\ TabSane(call', FreshTab, saved')
  <2>1. \A cl, S : FreshTab \in TabType /\ TabSane(cl, FreshTab, S) /\ FreshTab.inflight = None
    BY FreshPage
  <2> QED
    BY <2>1
<1>7. TabInv'
  BY <1>1, <1>3, <1>6, TabSet DEF hist
<1>8. \A u \in Tab : tab'[u].inflight # None =>
          /\ tab'[u].inflight = tab[u].inflight /\ tab[u].inflight \in Call /\ u # t
  BY <1>1, <1>6 DEF IInv, TabInv, TabType
<1>9. \A d \in Call : call[d].tab # t => call'[d] = call[d]
  BY <1>1
<1>10. lock' # None => lock' = lock /\ lock \in Call /\ call'[lock] = call[lock]
  BY <1>1 DEF IInv, FlightInv
<1>11. FlightInv'
  BY <1>8, <1>9, <1>10 DEF IInv, FlightInv
<1>12. RestOK'
  BY <1>1 DEF IInv, RestOK, HistoryOK, hist
<1> QED
  BY <1>1, <1>3, <1>5, <1>7, <1>11, <1>12, StoreKept DEF IInv, hist

-----------------------------------------------------------------------------
(* The theorems *)

LEMMA InitRows ==
    ASSUME Init
    PROVE  /\ kek \in Key /\ legacy \in Key /\ row \in [RowName -> Row]
           /\ row["device"] \in {NoRow, Wrapped(Old, Old, None)}
           /\ row["seed"] \in {NoRow, Wrapped(Old, Old, None)}
           /\ row["sealed"] \in {NoRow, Wrapped(Old, Old, Old)}
           /\ tab \in [Tab -> {FreshTab, SettledTab}]
           /\ \A t \in Tab : tab[t] = SettledTab => row["device"].id = Old
<1> PICK name \in Layouts, settled \in SUBSET Tab : Layout(name, settled)
  BY DEF Init
<1>1. NoRow \in Row /\ Wrapped(Old, Old, None) \in Row /\ Wrapped(Old, Old, Old) \in Row
      /\ Wrapped(Old, Old, None).id = Old
  BY Numbers, NoSealedScalar DEF Wrapped, Row
<1>2. kek \in Key /\ legacy \in Key
  BY Numbers DEF Layout
<1>3. row \in [RowName -> Row]
  BY <1>1 DEF Layout
<1>4. /\ row["device"] \in {NoRow, Wrapped(Old, Old, None)}
      /\ row["seed"] \in {NoRow, Wrapped(Old, Old, None)}
      /\ row["sealed"] \in {NoRow, Wrapped(Old, Old, Old)}
      /\ name # "fresh" => row["device"] = Wrapped(Old, Old, None)
  BY DEF Layout, RowName
<1>5. /\ tab = [t \in Tab |-> IF t \in settled THEN SettledTab ELSE FreshTab]
      /\ settled # {} => name # "fresh"
  BY DEF Layout
<1>6. FreshTab # SettledTab
  <2>1. FreshTab.id = None /\ SettledTab.id = Old
    BY DEF FreshTab, SettledTab
  <2> QED
    BY <2>1, Numbers
<1>7. \A t \in Tab : tab[t] = SettledTab => row["device"].id = Old
  BY <1>1, <1>4, <1>5, <1>6
<1> QED
  BY <1>2, <1>3, <1>4, <1>5, <1>7

LEMMA InitIInv == ASSUME Init PROVE IInv
<1>1. /\ lock = None /\ call = [c \in Call |-> IdleCall] /\ mishaps = 0
      /\ saved = {row["device"].id} \ {None} /\ raced = FALSE /\ sealers = {} /\ restored = FALSE /\ mistaken = FALSE
      /\ overtaken = {} /\ early = FALSE
  BY DEF Init
<1>2. /\ IdleCall \in CallType /\ IdleCall.pc = "idle" /\ IdleCall.tab = "none"
      /\ IdleCall.stored = NoRow /\ IdleCall.got = NoRow
  BY Numbers, NoSealedScalar DEF IdleCall, CallType, Pc, Epoch, Kind
<1>3. CallInv
  BY <1>1, <1>2 DEF CallInv, Shape, Ended, PairSane, SealedSane, NoRow
<1>4. /\ SettledTab \in TabType /\ SettledTab.id = Old /\ SettledTab.held = {Old}
      /\ SettledTab.sealed = NoSealed /\ SettledTab.memo = {} /\ SettledTab.inflight = None
  BY Numbers, NoSealedScalar DEF SettledTab, FreshTab, TabType, Epoch
<1>5. FreshTab \in TabType /\ TabSane(call, FreshTab, saved) /\ FreshTab.inflight = None
  BY FreshPage
<1>6. TabInv
  <2>1. \A t \in Tab : TabSane(call, tab[t], saved)
    <3> SUFFICES ASSUME NEW t \in Tab, tab[t] = SettledTab
                 PROVE  TabSane(call, tab[t], saved)
      BY <1>5, InitRows
    <3>1. row["device"].id = Old
      BY InitRows
    <3> QED
      BY <1>1, <1>4, <3>1, Numbers DEF TabSane
  <2> QED
    BY <1>4, <1>5, <2>1, InitRows DEF TabInv
<1>7. FlightInv
  BY <1>1, <1>4, <1>5, InitRows DEF FlightInv
<1>8. StoreInv
  <2>1. Wrapped(Old, Old, None).id = Old /\ Wrapped(Old, Old, Old).id = Old /\ Wrapped(Old, Old, Old).owner = Old
    BY DEF Wrapped
  <2>2. Minted(call, Old, Old)
    BY DEF Minted
  <2>3. row["sealed"] # NoRow => Minted(call, row["sealed"].id, row["sealed"].owner)
    BY <2>1, <2>2, InitRows
  <2>4. row["device"].id \in Key /\ saved \subseteq Key
    BY <1>1, InitRows DEF RowName, Row
  <2>5. row["device"].id \in saved \cup {None} /\ (row["seed"] # NoRow => row["seed"].id # None)
    BY <1>1, <2>1, Numbers, InitRows
  <2>6. PairMatched
    BY InitRows DEF PairMatched
  <2> QED
    BY <2>3, <2>4, <2>5, <2>6, InitRows DEF StoreInv
<1>9. RestOK
  BY <1>1 DEF RestOK, HistoryOK
<1> QED
  BY <1>3, <1>6, <1>7, <1>8, <1>9 DEF IInv

LEMMA StepIInv ==
    ASSUME IInv, [Next]_vars
    PROVE  IInv'
<1>1. CASE UNCHANGED vars
  <2>1. UNCHANGED <<kek, legacy, row, lock, tab, call, mishaps, saved, raced, sealers, restored, mistaken, overtaken, early>>
    BY <1>1 DEF vars, store, hist
  <2>2. CallInv' /\ RestOK'
    BY <2>1 DEF IInv, CallInv, Shape, PairSane, SealedSane, Minted, RestOK, HistoryOK, Ended
  <2>3. TabInv'
    BY <2>1 DEF IInv, TabInv, TabSane, Minted
  <2>4. FlightInv'
    BY <2>1 DEF IInv, FlightInv, Ended
  <2>5. StoreInv'
    BY <2>1 DEF IInv, StoreInv, PairMatched, Minted
  <2> QED
    BY <2>2, <2>3, <2>4, <2>5 DEF IInv
<1>2. ASSUME NEW c \in Call, NEW t \in Tab, Starts(c, t)
      PROVE  IInv'
  BY <1>2, IdentityStartStep, SealedStartStep, NoiseStartStep, ReplaceStartStep, ClearStartStep DEF Starts
<1>3. ASSUME NEW c \in Call, Kek(c)
      PROVE  IInv'
  BY <1>3, KekLoadedStep, KekAdoptStep, KekMintStep, KekSavedStep DEF Kek
<1>4. ASSUME NEW c \in Call, Identity(c)
      PROVE  IInv'
  BY <1>4, IdentityLockedStep, DeviceLoadedStep, UnwrapStep, SeedLoadedStep, RecoverKeyLoadedStep,
     RecoverSeedLoadedStep, RecoveredStep, GeneratedStep, PersistStep, PersistedStep, ResidueSealedStep,
     ReplacedStep DEF Identity
<1>5. ASSUME NEW c \in Call, Sealed(c)
      PROVE  IInv'
  BY <1>5, SealedLockedStep, SealedRowStep, SealedLoadedStep, SealedMintStep, SealedSavedStep, SealedGotStep
     DEF Sealed
<1>6. ASSUME NEW c \in Call, Noise(c) \/ Restore(c)
      PROVE  IInv'
  BY <1>6, NoiseRowStep, NoiseLoadedStep, NoiseSavedStep, PairSaveStep, PairSavedStep, RestoreSealedStep,
     RestoreEndStep DEF Noise, Restore
<1> QED
  BY <1>1, <1>2, <1>3, <1>4, <1>5, <1>6, ClearStepStep, FaultStep, ReloadStep DEF Next

LEMMA Invariant == Spec => []IInv
<1>1. Init => IInv
  BY InitIInv
<1>2. IInv /\ [Next]_vars => IInv'
  BY StepIInv
<1> QED
  BY <1>1, <1>2, PTL DEF Spec

\* Type correctness: a call that runs is a call of a page, the lock is held
\* by a call that runs, and what a page has in flight runs there
\* (withIdentityLock, inflightSealed).
THEOREM TypeCorrect == Spec => []TypeOK
<1>1. ASSUME IInv PROVE TypeOK
  <2>1. \A c \in Call : Running(c) <=> call[c].tab \in Tab
    BY <1>1, IdentityAssumption DEF IInv, CallInv, Shape, Ended, Running, CallType
  <2>2. lock # None => Running(lock)
    BY <1>1 DEF IInv, FlightInv, Ended, Running
  <2> QED
    BY <1>1, <2>1, <2>2 DEF IInv, CallInv, TabInv, FlightInv, StoreInv, RestOK, HistoryOK, TypeOK
<1> QED
  BY <1>1, Invariant, PTL

\* SEC-CR-009: however many calls, tabs, faults and reloads interleave, the
\* seed and the public key stored together are one identity's under one KEK
\* (persistIdentity, replaceDeviceIdentity and clearDeviceIdentity).
THEOREM PairsWhole == Spec => []PairMatched
<1>1. IInv => PairMatched
  BY DEF IInv, StoreInv
<1> QED
  BY <1>1, Invariant, PTL

\* SEC-CR-001: an identity that a page caches was stored
\* (getOrCreateDeviceIdentity caches only after persistIdentity).
THEOREM CachedStored == Spec => []CachedWasSaved
<1>1. IInv => CachedWasSaved
  BY DEF IInv, TabInv, TabSane, CachedWasSaved
<1> QED
  BY <1>1, Invariant, PTL

\* A sealed scalar is never used for another identity than the one it was
\* minted for, in IndexedDB, in a page's memory or in a caller's hands
\* (getOrCreateSealedX25519Secret, replaceDeviceIdentity).
THEOREM SealedOwner == Spec => []SealedForOwner
<1>1. ASSUME IInv PROVE SealedForOwner
  <2>1. \A v, o : Minted(call, v, o) => OwnerOf(v) = o
    BY Numbers DEF Minted, OwnerOf
  <2>2. row["sealed"] # NoRow => OwnerOf(row["sealed"].id) = row["sealed"].owner
    BY <1>1, <2>1 DEF IInv, StoreInv
  <2>3. \A t \in Tab : /\ tab[t].sealed # NoSealed => OwnerOf(tab[t].sealed.id) = tab[t].sealed.owner
                       /\ \A m \in tab[t].memo : OwnerOf(m.id) = m.owner
    BY <1>1, <2>1 DEF IInv, TabInv, TabSane
  <2>4. \A c \in Call : call[c].pc = "sealedGot" => OwnerOf(call[c].got.id) = call[c].owner
    BY <1>1, <2>1 DEF IInv, CallInv, SealedSane
  <2> QED
    BY <2>2, <2>3, <2>4 DEF SealedForOwner
<1> QED
  BY <1>1, Invariant, PTL

=============================================================================
