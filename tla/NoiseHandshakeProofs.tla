------------------------- MODULE NoiseHandshakeProofs -------------------------
(***************************************************************************)
(* Safety of a Noise handshake for any number of calls and frames, over a  *)
(* link that loses, repeats, reorders and damages frames, whatever calls   *)
(* of a node overlap.                                                      *)
(***************************************************************************)
EXTENDS NoiseHandshake, SequenceTheorems, TLAPS

-----------------------------------------------------------------------------
(* Symmetric states as sequences *)

IsState(s) == \E S : s \in Seq(S)

\* s is what t was at some time: a symmetric state only grows.
Begins(s, t) == Len(s) <= Len(t) /\ \A i \in 1 .. Len(s) : t[i] = s[i]

LEMMA Appended ==
    ASSUME NEW s, IsState(s), NEW x
    PROVE  /\ IsState(Append(s, x)) /\ Len(s) \in Nat /\ DOMAIN s = 1 .. Len(s)
           /\ Len(Append(s, x)) = Len(s) + 1
           /\ \A i \in 1 .. Len(s) : Append(s, x)[i] = s[i]
           /\ Append(s, x) # <<>>
           /\ Begins(s, Append(s, x))
<1> PICK S : s \in Seq(S)
  BY DEF IsState
<1>1. s \in Seq(S \cup {x}) /\ x \in S \cup {x}
  OBVIOUS
<1>2. Append(s, x) \in Seq(S \cup {x})
  BY <1>1
<1>3. Len(s) \in Nat /\ Len(Append(s, x)) = Len(s) + 1 /\ \A i \in 1 .. Len(s) : Append(s, x)[i] = s[i]
  BY <1>1, AppendProperties
<1> QED
  BY <1>1, <1>2, <1>3, AppendProperties DEF IsState, Begins

LEMMA BeginsOrder ==
    /\ \A s : IsState(s) => Begins(s, s)
    /\ \A s, t, u : IsState(s) /\ IsState(t) /\ IsState(u) /\ Begins(s, t) /\ Begins(t, u) => Begins(s, u)
<1>1. \A s : IsState(s) => Len(s) \in Nat
  BY Appended
<1> QED
  BY <1>1 DEF Begins

\* The first four items of a state that begins with four are those.
LEMMA FirstFour ==
    ASSUME NEW s, NEW t, IsState(s), IsState(t), Begins(s, t), Len(s) = 4
    PROVE  SubSeq(t, 1, 4) = s
<1> PICK S : s \in Seq(S)
  BY DEF IsState
<1> PICK T : t \in Seq(T)
  BY DEF IsState
<1>1. s \in Seq(S \cup T) /\ t \in Seq(S \cup T) /\ Len(t) >= 4
  BY DEF Begins
<1> QED
  BY <1>1 DEF Begins

LEMMA FourKept ==
    ASSUME NEW s, NEW t, IsState(s), IsState(t), Begins(s, t), Len(s) >= 4
    PROVE  SubSeq(t, 1, 4) = SubSeq(s, 1, 4)
<1> PICK S : s \in Seq(S)
  BY DEF IsState
<1> PICK T : t \in Seq(T)
  BY DEF IsState
<1>1. s \in Seq(S \cup T) /\ t \in Seq(S \cup T) /\ Len(t) >= 4
  BY DEF Begins
<1> QED
  BY <1>1 DEF Begins

LEMMA Triple ==
    ASSUME NEW s, IsState(s), NEW a, NEW b, NEW c
    PROVE  /\ IsState(s \o <<a, b, c>>) /\ Len(s \o <<a, b, c>>) = Len(s) + 3
           /\ Begins(s, s \o <<a, b, c>>)
<1> PICK S : s \in Seq(S)
  BY DEF IsState
<1> DEFINE U == S \cup {a, b, c}
<1>1. s \in Seq(U) /\ <<a, b, c>> \in Seq(U)
  OBVIOUS
<1> HIDE DEF U
<1>2. s \o <<a, b, c>> \in Seq(U)
  BY <1>1
<1> QED
  BY <1>1, <1>2, ConcatProperties DEF IsState, Begins

LEMMA Pair ==
    ASSUME NEW s, IsState(s), NEW a, NEW b
    PROVE  /\ IsState(s \o <<a, b>>) /\ Len(s \o <<a, b>>) = Len(s) + 2
           /\ Begins(s, s \o <<a, b>>)
           /\ (s \o <<a, b>>)[Len(s) + 2] = b
<1> PICK S : s \in Seq(S)
  BY DEF IsState
<1> DEFINE U == S \cup {a, b}
<1>1. s \in Seq(U) /\ <<a, b>> \in Seq(U)
  OBVIOUS
<1> HIDE DEF U
<1>2. s \o <<a, b>> \in Seq(U)
  BY <1>1
<1> QED
  BY <1>1, <1>2, ConcatProperties DEF IsState, Begins

LEMMA Items ==
    /\ \A u, v : Sealed(u) = Sealed(v) => u = v
    /\ \A u : Sealed(u) # Bad /\ Sealed(u) # Nothing /\ Sealed(u) # K1
    /\ K1 # Bad /\ IsState(NoState) /\ Len(NoState) = 0
<1>1. /\ \A u, v : Sealed(u) = Sealed(v) => u = v
      /\ \A u : Sealed(u) # Bad /\ Sealed(u) # Nothing /\ Sealed(u) # K1
  BY DEF Sealed, Bad, Nothing, K1
<1>2. K1 # Bad
  BY DEF K1, Bad
<1>3. <<>> \in Seq({})
  OBVIOUS
<1> QED
  BY <1>1, <1>2, <1>3 DEF IsState, NoState

-----------------------------------------------------------------------------
(* The inductive invariant *)

\* The call of a node, as a record.
IsCall(c) == /\ c = [pc |-> c.pc, msg |-> c.msg, under |-> c.under, part |-> c.part]
             /\ c.pc \in Pc
             /\ IsState(c.under)

IsFrame(m) == m = Frame(m.type, m.e, m.s, m.p)

TypeInv ==
    /\ idx \in [Role -> 0 .. 3]
    /\ sym = [r \in Role |-> sym[r]]
    /\ \A r \in Role : IsState(sym[r])
    /\ call = [r \in Role |-> [k \in Slot |-> call[r][k]]]
    /\ \A r \in Role : \A k \in Slot : IsCall(call[r][k])
    /\ strikes \in [Role -> 0 .. 3]
    /\ verdict \in [Role -> {"pending", "rejected"}]
    /\ session = [r \in Role |-> session[r]]
    /\ built \in [Role -> 0 .. 2]
    /\ handed \in [Role -> 0 .. MaxFrames]
    /\ mixed \subseteq Role

\* The states a responder can write msg-2 under: what msg-1 brought, or after
\* a damaged one something no initiator will ever be in.
Good(u) == IsState(u) /\ (Len(u) = 3 \/ (Len(u) >= 2 /\ u[2] = Bad))

\* A frame on the wire tells how far its writer has come, and what it held.
Written(w) ==
    /\ IsFrame(w)
    /\ \/ w.type = 1 /\ w = Msg1
       \/ /\ w.type = 2 /\ idx["responder"] >= 2
          /\ \E u : Good(u) /\ w.s = Sealed(u) /\ w.p = Sealed(Append(u, Sealed(u)))
       \/ /\ w.type = 3 /\ idx["initiator"] = 3
          /\ \E u : /\ IsState(u)
                    /\ w.s = Sealed(u) /\ w.p = Sealed(Append(u, w.s))
                    /\ sym["initiator"] = Append(Append(u, w.s), w.p)

WireInv == \A w \in wire : Written(w)

\* A frame that a call has read is one of the wire, damaged perhaps.
From(m, w) == /\ IsFrame(m)
              /\ m.type = w.type
              /\ m.s \in {w.s, Bad}
              /\ m.p \in {w.p, Bad}

Opening(c) == c.pc \in {"openS", "openP"}

ReadInv ==
    \A r \in Role : \A k \in Slot :
        Opening(call[r][k]) => \E w \in FrameTo(r) : From(call[r][k].msg, w)

Answered == /\ Len(sym["initiator"]) >= 4
            /\ \E w \in wire : w.type = 2 /\ w.p = Sealed(SubSeq(sym["initiator"], 1, 4))

\* The initiator's call that read the first msg-2, while no other had mixed
\* anything in: the only one that can open it and go on.
Leading(c) == \/ c.pc = "openS" /\ Len(c.under) = 3
              \/ c.pc \in {"openP", "sealS", "sealP", "sending"}

InitiatorCall(c) ==
    /\ c.pc # "idle" => idx["initiator"] >= 1
    /\ Opening(c) => Begins(c.under, sym["initiator"])
    /\ c.pc = "openS" => Len(c.under) >= 3 /\ (Len(c.under) = 3 => idx["initiator"] = 1)
    /\ c.pc = "openP" => Len(c.under) >= 4 /\ idx["initiator"] = 1
    /\ c.pc \in {"sealS", "sealP"} => idx["initiator"] = 2 /\ c.under = sym["initiator"]
    /\ c.pc = "sealP" => /\ Len(sym["initiator"]) >= 6
                          /\ \E u : IsState(u) /\ c.part = Sealed(u) /\ c.under = Append(u, c.part)
    /\ c.pc = "sending" => idx["initiator"] = 3 /\ session["initiator"] = NoState

InitiatorInv ==
    /\ \A j, k \in Slot : Leading(call["initiator"][j]) /\ Leading(call["initiator"][k]) => j = k
    /\ idx["initiator"] >= 1 => Len(sym["initiator"]) >= 2 /\ sym["initiator"][2] = K1
    /\ idx["initiator"] >= 2 => Answered /\ Len(sym["initiator"]) >= 5
    /\ idx["initiator"] = 3 => Len(sym["initiator"]) >= 7
    /\ \A k \in Slot : InitiatorCall(call["initiator"][k])
    /\ \/ session["initiator"] = NoState /\ built["initiator"] = 0
       \/ idx["initiator"] = 3 /\ session["initiator"] = sym["initiator"]

\* The responder's call that read msg-1.
Answering(c) == c.pc \in {"sealS", "sealP", "sending"}

ResponderCall(c) ==
    /\ c.pc # "opening"
    /\ c.pc # "idle" => idx["responder"] >= 1
    /\ Opening(c) => idx["responder"] >= 2 /\ Begins(c.under, sym["responder"])
    /\ c.pc = "sealS" => idx["responder"] = 1 /\ c.under = sym["responder"] /\ Good(c.under)
    /\ c.pc = "sealP" => /\ idx["responder"] = 1 /\ c.under = sym["responder"]
                          /\ \E u : Good(u) /\ c.part = Sealed(u) /\ c.under = Append(u, Sealed(u))
    /\ c.pc = "sending" => idx["responder"] >= 2

\* No two calls of the responder try a payload under the same state.
ResponderInv ==
    /\ idx["responder"] = 0 => \/ sym["responder"] = NoState
                               \/ Len(sym["responder"]) >= 2 /\ sym["responder"][2] = Bad
    /\ \A k \in Slot : ResponderCall(call["responder"][k])
    /\ \A j, k \in Slot : Answering(call["responder"][j]) /\ Answering(call["responder"][k]) => j = k
    /\ \A j, k \in Slot : /\ call["responder"][j].pc = "openP" /\ call["responder"][k].pc = "openP"
                          /\ Len(call["responder"][j].under) = Len(call["responder"][k].under)
                          => j = k
    /\ idx["responder"] # 3 => session["responder"] = NoState /\ built["responder"] = 0

\* s has all of the items of t but perhaps the last one, which msg-3's payload is.
AllButLast(t, s) == Len(t) <= Len(s) /\ \A i \in 1 .. Len(t) - 1 : s[i] = t[i]

\* A responder is done with an initiator that was done before.  It has the
\* initiator's state, unless a second read of msg-3 mixed into it; no other
\* read of msg-3 can be done, and only the write of msg-2 can derive anew.
DoneInv ==
    idx["responder"] = 3 =>
        /\ idx["initiator"] = 3
        /\ AllButLast(sym["initiator"], sym["responder"])
        /\ AllButLast(sym["initiator"], session["responder"])
        /\ "responder" \notin mixed => /\ sym["responder"] = sym["initiator"]
                                       /\ session["responder"] = sym["initiator"]
        /\ built["responder"] >= 1
        /\ \A k \in Slot : call["responder"][k].pc = "sending" => built["responder"] = 1
        /\ \A k \in Slot : call["responder"][k].pc = "openP"
                              => Len(call["responder"][k].under) # Len(sym["initiator"]) - 1

IInv == TypeInv /\ WireInv /\ ReadInv /\ InitiatorInv /\ ResponderInv /\ DoneInv

-----------------------------------------------------------------------------
(* Frames and calls *)

LEMMA FramePart ==
    ASSUME NEW a, NEW b, NEW c, NEW d
    PROVE  LET m == Frame(a, b, c, d) IN IsFrame(m) /\ m.type = a /\ m.e = b /\ m.s = c /\ m.p = d
  BY DEF IsFrame, Frame

LEMMA DamagedFrom ==
    ASSUME NEW w, IsFrame(w), NEW m \in Damaged(w)
    PROVE  From(m, w)
<1>1. /\ w = [type |-> w.type, e |-> w.e, s |-> w.s, p |-> w.p]
  BY DEF IsFrame, Frame
<1>2. CASE m = [w EXCEPT !.e = Bad]
  <2>1. m = [type |-> w.type, e |-> Bad, s |-> w.s, p |-> w.p]
    BY <1>1, <1>2
  <2> QED
    BY <2>1 DEF From, IsFrame, Frame
<1>3. CASE m = [w EXCEPT !.s = Bad]
  <2>1. m = [type |-> w.type, e |-> w.e, s |-> Bad, p |-> w.p]
    BY <1>1, <1>3
  <2> QED
    BY <2>1 DEF From, IsFrame, Frame
<1>4. CASE m = [w EXCEPT !.p = Bad]
  <2>1. m = [type |-> w.type, e |-> w.e, s |-> w.s, p |-> Bad]
    BY <1>1, <1>4
  <2> QED
    BY <2>1 DEF From, IsFrame, Frame
<1> QED
  BY <1>2, <1>3, <1>4 DEF Damaged

LEMMA ReceivedFrom ==
    ASSUME WireInv, NEW r \in Role, NEW m \in Received(r)
    PROVE  \E w \in FrameTo(r) : From(m, w)
<1>1. \A w \in FrameTo(r) : IsFrame(w)
  BY DEF WireInv, Written, FrameTo
<1>2. CASE m \in FrameTo(r)
  BY <1>1, <1>2 DEF From
<1>3. ASSUME NEW w \in FrameTo(r), m \in Damaged(w)
      PROVE  From(m, w)
  BY <1>1, <1>3, DamagedFrom
<1> QED
  BY <1>2, <1>3 DEF Received

\* A step of node r with its call k: the call is left as c, msgIdx as i, the
\* symmetric state as s, the session as z, the count of sessions as b.
Moved(r, k, c, i, s, z, b) ==
    /\ call'[r][k] = c /\ \A j \in Slot \ {k} : call'[r][j] = call[r][j]
    /\ idx'[r] = i /\ sym'[r] = s /\ session'[r] = z /\ built'[r] = b
    /\ \A q \in Role \ {r} : /\ call'[q] = call[q] /\ idx'[q] = idx[q] /\ sym'[q] = sym[q]
                             /\ session'[q] = session[q] /\ built'[q] = built[q]
    /\ call' = [q \in Role |-> [j \in Slot |-> call'[q][j]]]
    /\ sym' = [q \in Role |-> sym'[q]]
    /\ session' = [q \in Role |-> session'[q]]
    /\ DOMAIN idx' = Role /\ DOMAIN built' = Role
    /\ idx' = [q \in Role |-> idx'[q]] /\ built' = [q \in Role |-> built'[q]]

\* What a step leaves of the counts, verdicts and history.
Tallied ==
    /\ strikes' \in [Role -> 0 .. 3]
    /\ verdict' \in [Role -> {"pending", "rejected"}]
    /\ handed' \in [Role -> 0 .. MaxFrames]
    /\ mixed' \subseteq Role

LEMMA Calling ==
    ASSUME TypeInv, NEW r \in Role, NEW k \in Slot, NEW c,
           call' = [call EXCEPT ![r] = [@ EXCEPT ![k] = c]]
    PROVE  /\ call'[r][k] = c /\ \A j \in Slot \ {k} : call'[r][j] = call[r][j]
           /\ \A q \in Role \ {r} : call'[q] = call[q]
           /\ call' = [q \in Role |-> [j \in Slot |-> call'[q][j]]]
<1>1. call = [q \in Role |-> [j \in Slot |-> call[q][j]]]
  BY DEF TypeInv
<1>2. DOMAIN call = Role /\ \A q \in Role : call[q] = [j \in Slot |-> call[q][j]]
  BY <1>1
<1>3. call'[r] = [call[r] EXCEPT ![k] = c] /\ \A q \in Role \ {r} : call'[q] = call[q]
  BY <1>2
<1>4. \A q \in Role : call'[q] = [j \in Slot |-> call'[q][j]]
  BY <1>2, <1>3
<1>5. call' = [q \in Role |-> call'[q]]
  BY <1>2
<1> QED
  BY <1>2, <1>3, <1>4, <1>5

LEMMA IdleIsCall == IsCall(Idle) /\ Idle.pc = "idle"
  BY Items DEF IsCall, Idle, Pc

LEMMA Ending ==
    ASSUME TypeInv, NEW r \in Role, NEW k \in Slot, Ends(r, k)
    PROVE  call' = [call EXCEPT ![r] = [@ EXCEPT ![k] = Idle]]
  BY DEF Ends

LEMMA Going ==
    ASSUME TypeInv, NEW r \in Role, NEW k \in Slot, NEW pc \in Pc, NEW under, IsState(under),
           Goes(r, k, pc, under)
    PROVE  LET c == [pc |-> pc, msg |-> call[r][k].msg, under |-> under, part |-> call[r][k].part]
           IN call' = [call EXCEPT ![r] = [@ EXCEPT ![k] = c]] /\ IsCall(c)
<1> DEFINE c == [pc |-> pc, msg |-> call[r][k].msg, under |-> under, part |-> call[r][k].part]
           d == call[r][k]
           e == [d EXCEPT !.pc = pc]
           x == [call[r] EXCEPT ![k] = e]
<1>1. d = [pc |-> d.pc, msg |-> d.msg, under |-> d.under, part |-> d.part]
      /\ call = [q \in Role |-> call[q]] /\ call[r] = [j \in Slot |-> call[r][j]]
  BY DEF TypeInv, IsCall
<1>2. call' = [[call EXCEPT ![r] = x] EXCEPT ![r] = [x EXCEPT ![k] = [e EXCEPT !.under = under]]]
  BY <1>1 DEF Goes
<1>3. [e EXCEPT !.under = under] = c
  <2> DEFINE a == d.pc
             b == d.msg
             f == d.under
             g == d.part
  <2>1. d = [pc |-> a, msg |-> b, under |-> f, part |-> g] /\ c = [pc |-> pc, msg |-> b, under |-> under, part |-> g]
    BY <1>1
  <2> HIDE DEF a, b, f, g, c, d
  <2>2. e = [pc |-> pc, msg |-> b, under |-> f, part |-> g]
    BY <2>1
  <2> HIDE DEF e
  <2>3. [e EXCEPT !.under = under] = [pc |-> pc, msg |-> b, under |-> under, part |-> g]
    BY <2>2
  <2> QED
    BY <2>1, <2>3
<1> HIDE DEF e, c
<1>4. [x EXCEPT ![k] = c] = [call[r] EXCEPT ![k] = c]
  BY <1>1
<1> HIDE DEF x
<1>5. call' = [call EXCEPT ![r] = [call[r] EXCEPT ![k] = c]]
  BY <1>1, <1>2, <1>3, <1>4
<1>6. c.pc = pc /\ c = [pc |-> c.pc, msg |-> c.msg, under |-> c.under, part |-> c.part] /\ c.under = under
  BY DEF c
<1> QED
  BY <1>5, <1>6 DEF IsCall, c

\* A table over the nodes, changed for one of them.
LEMMA Table ==
    ASSUME NEW f, f = [q \in Role |-> f[q]], NEW g, NEW r \in Role, NEW x, g = [f EXCEPT ![r] = x]
    PROVE  g[r] = x /\ g = [q \in Role |-> g[q]] /\ \A q \in Role \ {r} : g[q] = f[q]
  OBVIOUS

-----------------------------------------------------------------------------
(* What a step of one node keeps *)

LEMMA Tallies ==
    ASSUME TypeInv, [Next]_vars
    PROVE  Tallied
<1> USE HandshakeAssumption DEF TypeInv, Tallied
<1>1. \A r \in Role : r = "initiator" \/ r = "responder"
  BY DEF Role
<1>2. ASSUME NEW k \in Slot, WriteMsg1(k) \/ Msg1Sent(k)
      PROVE  Tallied
  BY <1>2 DEF WriteMsg1, Msg1Sent
<1>3. ASSUME NEW r \in Role, NEW k \in Slot, NEW m, Arrives(r, k, m)
      PROVE  handed' \in [Role -> 0 .. MaxFrames]
  BY <1>3 DEF Arrives
<1>4. ASSUME NEW r \in Role, NEW k \in Slot, Strike(r, k)
      PROVE  /\ strikes' \in [Role -> 0 .. 3]
             /\ verdict' \in [Role -> {"pending", "rejected"}]
  BY <1>4 DEF Strike
<1>5. ASSUME NEW r \in Role, NEW under, NEW item, Mix(r, under, item)
      PROVE  mixed' \subseteq Role
  BY <1>5 DEF Mix
<1>6. ASSUME NEW r \in Role, NEW final, Complete(r, final)
      PROVE  strikes' \in [Role -> 0 .. 3]
  BY <1>6 DEF Complete
<1>7. ASSUME NEW k \in Slot, ReadMsg1(k) \/ ReadMsg2(k) \/ ReadMsg3(k)
      PROVE  Tallied
  BY <1>3, <1>7 DEF ReadMsg1, ReadMsg2, ReadMsg3, Role
<1>8. ASSUME NEW k \in Slot, ReadMsg1Fails(k)
      PROVE  Tallied
  BY <1>3, <1>4, <1>8 DEF ReadMsg1Fails, Role
<1>9. ASSUME NEW r \in Role, NEW k \in Slot, OutOfState(r, k)
      PROVE  Tallied
  BY <1>3, <1>9 DEF OutOfState
<1>10. ASSUME NEW r \in Role, NEW k \in Slot, OpenStatic(r, k) \/ SealStatic(r, k) \/ SealPayload(r, k)
       PROVE  Tallied
  BY <1>5, <1>10 DEF OpenStatic, SealStatic, SealPayload
<1>11. ASSUME NEW r \in Role, NEW k \in Slot, OpenPayload(r, k)
       PROVE  Tallied
  BY <1>5, <1>6, <1>11 DEF OpenPayload
<1>12. ASSUME NEW r \in Role, NEW k \in Slot, OpenFails(r, k)
       PROVE  Tallied
  BY <1>4, <1>12 DEF OpenFails
<1>13. ASSUME NEW r \in Role, NEW k \in Slot, Sent(r, k)
       PROVE  Tallied
  BY <1>6, <1>13 DEF Sent
<1>14. ASSUME NEW r \in Role, NEW k \in Slot, WriteFails(r, k)
       PROVE  Tallied
  BY <1>14 DEF WriteFails
<1>15. CASE UNCHANGED vars
  BY <1>15 DEF vars
<1> QED
  BY <1>2, <1>7, <1>8, <1>9, <1>10, <1>11, <1>12, <1>13, <1>14, <1>15 DEF Next

LEMMA Typed ==
    ASSUME TypeInv, Tallied, NEW r \in Role, NEW k \in Slot, NEW c, NEW i \in 0 .. 3, NEW s, NEW z,
           NEW b \in 0 .. 2, IsCall(c), IsState(s), Moved(r, k, c, i, s, z, b)
    PROVE  TypeInv'
<1>1. idx' \in [Role -> 0 .. 3] /\ built' \in [Role -> 0 .. 2]
  <2>1. \A q \in Role : idx'[q] \in 0 .. 3 /\ built'[q] \in 0 .. 2
    BY DEF Moved, TypeInv
  <2> QED
    BY <2>1 DEF Moved
<1>2. \A q \in Role : IsState(sym'[q])
  BY DEF Moved, TypeInv
<1>3. \A q \in Role : \A j \in Slot : IsCall(call'[q][j])
  BY DEF Moved, TypeInv
<1> QED
  BY <1>1, <1>2, <1>3 DEF TypeInv, Tallied, Moved

\* What a step may add to the wire.
Writing == /\ wire \subseteq wire'
           /\ \A w \in wire' \ wire : Written(w)'

LEMMA ReadKept ==
    ASSUME ReadInv, NEW r \in Role, NEW k \in Slot, NEW c, NEW i, NEW s, NEW z, NEW b,
           Moved(r, k, c, i, s, z, b), wire \subseteq wire',
           Opening(c) => \E w \in FrameTo(r) : From(c.msg, w)
    PROVE  ReadInv'
<1>1. \A q \in Role : FrameTo(q) \subseteq FrameTo(q)'
  BY DEF FrameTo
<1>2. ASSUME NEW q \in Role, NEW j \in Slot, Opening(call'[q][j])
      PROVE  \E w \in FrameTo(q)' : From(call'[q][j].msg, w)
  <2>1. CASE q = r /\ j = k
    BY <1>1, <1>2, <2>1 DEF Moved
  <2>2. CASE ~(q = r /\ j = k)
    <3>1. call'[q][j] = call[q][j]
      BY <2>2 DEF Moved
    <3> QED
      BY <1>1, <1>2, <3>1 DEF ReadInv
  <2> QED
    BY <2>1, <2>2
<1> QED
  BY <1>2 DEF ReadInv, From, Opening

LEMMA WireKept ==
    ASSUME TypeInv, WireInv, TypeInv', Writing, idx["initiator"] <= idx'["initiator"],
           idx["responder"] <= idx'["responder"],
           idx["initiator"] = 3 => sym'["initiator"] = sym["initiator"]
    PROVE  WireInv'
<1>1. /\ idx["initiator"] \in 0 .. 3 /\ idx'["initiator"] \in 0 .. 3
      /\ idx["responder"] \in 0 .. 3 /\ idx'["responder"] \in 0 .. 3
  BY DEF TypeInv, Role
<1>2. \A w \in wire : Written(w)'
  BY <1>1 DEF WireInv, Written, IsFrame, Good
<1> QED
  BY <1>2 DEF WireInv, Writing

LEMMA AnsweredKept ==
    ASSUME Answered, IsState(sym["initiator"]), IsState(sym'["initiator"]), wire \subseteq wire',
           Begins(sym["initiator"], sym'["initiator"])
    PROVE  Answered'
<1>1. SubSeq(sym'["initiator"], 1, 4) = SubSeq(sym["initiator"], 1, 4)
  BY FourKept DEF Answered
<1>2. Len(sym["initiator"]) \in Nat /\ Len(sym'["initiator"]) \in Nat
  BY Appended
<1>3. PICK w \in wire : w.type = 2 /\ w.p = Sealed(SubSeq(sym["initiator"], 1, 4))
  BY DEF Answered
<1>4. w \in wire' /\ w.type = 2 /\ w.p = Sealed(SubSeq(sym'["initiator"], 1, 4))
  BY <1>1, <1>3
<1>5. Len(sym'["initiator"]) >= 4
  BY <1>2 DEF Answered, Begins
<1> QED
  BY <1>4, <1>5 DEF Answered

LEMMA InitiatorKept ==
    ASSUME InitiatorInv, idx'["initiator"] = idx["initiator"], sym'["initiator"] = sym["initiator"],
           call'["initiator"] = call["initiator"], session'["initiator"] = session["initiator"],
           built'["initiator"] = built["initiator"], wire \subseteq wire'
    PROVE  InitiatorInv'
<1>1. Answered => Answered'
  BY DEF Answered
<1>2. \A k \in Slot : InitiatorCall(call["initiator"][k])'
  BY DEF InitiatorInv, InitiatorCall, Opening
<1> QED
  BY <1>1, <1>2 DEF InitiatorInv, Leading

LEMMA ResponderKept ==
    ASSUME ResponderInv, idx'["responder"] = idx["responder"], sym'["responder"] = sym["responder"],
           call'["responder"] = call["responder"], session'["responder"] = session["responder"],
           built'["responder"] = built["responder"]
    PROVE  ResponderInv'
<1>1. \A k \in Slot : ResponderCall(call["responder"][k])'
  BY DEF ResponderInv, ResponderCall, Opening
<1> QED
  BY <1>1 DEF ResponderInv, Answering

\* What the initiator's step with its call k, left as c, has to see to.
InitiatorDuty(k, c, i, s, z, b) ==
    LET d == call["initiator"][k]
        t == sym["initiator"]
    IN  /\ idx["initiator"] <= i /\ i >= 1
        /\ idx["initiator"] >= 1 => Begins(t, s)
        /\ Len(s) >= 2 /\ s[2] = K1
        /\ s # t => idx["initiator"] <= 1 \/ (Leading(d) /\ idx["initiator"] # 3)
        /\ i # idx["initiator"] => idx["initiator"] = 0 \/ Leading(d)
        /\ i >= 2 /\ idx["initiator"] <= 1 => Answered'
        /\ i >= 2 => Len(s) >= 5
        /\ i = 3 => Len(s) >= 7
        /\ \A e : e = c => InitiatorCall(e)'
        /\ Leading(c) => Leading(d) \/ idx["initiator"] = 0 \/ Len(t) <= 2
        /\ \/ z = session["initiator"] /\ b = built["initiator"]
           \/ Leading(d) /\ i = 3 /\ z = s

LEMMA LeadingCall ==
    ASSUME IInv, NEW k \in Slot, Leading(call["initiator"][k])
    PROVE  idx["initiator"] >= 1 /\ Len(sym["initiator"]) >= 3
<1> DEFINE d == call["initiator"][k]
<1>1. InitiatorCall(d) /\ IsCall(d) /\ IsState(sym["initiator"]) /\ idx["initiator"] \in 0 .. 3
  BY DEF IInv, InitiatorInv, TypeInv, Role
<1> HIDE DEF d
<1>2. Len(sym["initiator"]) \in Nat /\ Len(d.under) \in Nat
  BY <1>1, Appended DEF IsCall
<1>3. d.pc # "idle" /\ Leading(d)
  BY DEF Leading, d
<1> QED
  BY <1>1, <1>2, <1>3 DEF IInv, InitiatorInv, InitiatorCall, Leading, Opening, Begins

LEMMA InitiatorOthers ==
    ASSUME IInv, TypeInv', NEW k \in Slot, NEW c, NEW i \in 0 .. 3, NEW s, NEW z, NEW b, IsState(s),
           Moved("initiator", k, c, i, s, z, b), InitiatorDuty(k, c, i, s, z, b),
           NEW j \in Slot \ {k}
    PROVE  InitiatorCall(call["initiator"][j])'
<1> DEFINE d == call["initiator"][j]
<1>1. /\ call'["initiator"][j] = d /\ idx'["initiator"] = i /\ sym'["initiator"] = s
      /\ session'["initiator"] = z
  BY DEF Moved, Role
<1>2. /\ InitiatorCall(d) /\ IsCall(d) /\ IsState(sym["initiator"]) /\ idx["initiator"] \in 0 .. 3
      /\ Leading(d) => ~Leading(call["initiator"][k])
  BY DEF IInv, InitiatorInv, TypeInv, Role
<1> HIDE DEF d
<1>3. \A e : e = d /\ InitiatorCall(e)' => InitiatorCall(call["initiator"][j])'
  BY <1>1 DEF InitiatorCall, Opening, d
<1>4. SUFFICES ASSUME NEW e, e = d
               PROVE  InitiatorCall(e)'
  BY <1>3
<1>5. CASE e.pc = "idle"
  BY <1>5 DEF InitiatorCall, Opening
<1>6. CASE e.pc # "idle"
  <2>1. idx["initiator"] >= 1 /\ i >= 1 /\ Begins(sym["initiator"], s)
    BY <1>2, <1>4, <1>6 DEF InitiatorCall, InitiatorDuty
  <2>2. Opening(e) => Begins(e.under, s)
    BY <1>2, <1>4, <2>1, BeginsOrder DEF InitiatorCall, IsCall
  <2>3. Leading(e) => i = idx["initiator"] /\ (s = sym["initiator"] \/ idx["initiator"] = 1)
                      /\ (z = session["initiator"])
    BY <1>2, <1>4, <2>1 DEF InitiatorDuty
  <2>4. CASE Opening(e)
    BY <1>1, <1>2, <1>4, <2>1, <2>2, <2>3, <2>4 DEF InitiatorCall, Leading, Opening
  <2>5. CASE e.pc \in {"sealS", "sealP", "sending"}
    <3>1. i = idx["initiator"] /\ z = session["initiator"]
          /\ (s = sym["initiator"] \/ idx["initiator"] = 1)
      BY <2>3, <2>5 DEF Leading
    <3> QED
      BY <1>1, <1>2, <1>4, <2>1, <2>5, <3>1 DEF InitiatorCall, Opening
  <2> QED
    BY <1>1, <2>1, <2>4, <2>5 DEF InitiatorCall, Opening
<1> QED
  BY <1>5, <1>6

LEMMA InitiatorStep ==
    ASSUME IInv, Tallied, NEW k \in Slot, NEW c, NEW i \in 0 .. 3, NEW s, NEW z, NEW b \in 0 .. 2,
           IsCall(c), IsState(s), Moved("initiator", k, c, i, s, z, b),
           "responder" \in mixed => "responder" \in mixed',
           "responder" \in mixed' => "responder" \in mixed,
           Opening(c) => \E w \in FrameTo("initiator") : From(c.msg, w),
           Writing, InitiatorDuty(k, c, i, s, z, b)
    PROVE  IInv'
<1>1. "initiator" \in Role /\ "responder" \in Role \ {"initiator"}
  BY DEF Role
<1>2. TypeInv' /\ ReadInv'
  BY <1>1, Typed, ReadKept DEF IInv, Writing
<1>3. /\ call'["initiator"][k] = c /\ idx'["initiator"] = i /\ sym'["initiator"] = s
      /\ session'["initiator"] = z /\ built'["initiator"] = b
      /\ \A j \in Slot \ {k} : call'["initiator"][j] = call["initiator"][j]
      /\ call'["responder"] = call["responder"] /\ idx'["responder"] = idx["responder"]
      /\ sym'["responder"] = sym["responder"] /\ session'["responder"] = session["responder"]
      /\ built'["responder"] = built["responder"]
  BY <1>1 DEF Moved
<1>4. /\ idx["initiator"] \in 0 .. 3 /\ idx["responder"] \in 0 .. 3
      /\ IsState(sym["initiator"]) /\ Len(sym["initiator"]) \in Nat
  BY <1>1, Appended DEF IInv, TypeInv
<1>5. idx["initiator"] = 3 => i = 3 /\ s = sym["initiator"]
  BY <1>4 DEF InitiatorDuty
<1>6. WireInv'
  <2>1. i # 0 /\ idx["initiator"] <= i
    BY DEF InitiatorDuty
  <2>2. idx'["responder"] <= idx'["responder"]
    BY <1>3, <1>4
  <2> QED
    BY <1>2, <1>3, <1>5, <2>1, <2>2, WireKept DEF IInv
<1>7. ResponderInv'
  BY <1>3, ResponderKept DEF IInv
<1>8. DoneInv'
  BY <1>3, <1>5 DEF IInv, DoneInv
<1>9. InitiatorInv'
  <2>1. \A j \in Slot : InitiatorCall(call["initiator"][j])'
    <3>1. InitiatorCall(call["initiator"][k])'
      BY <1>3 DEF InitiatorDuty, InitiatorCall, Opening
    <3>2. \A j \in Slot \ {k} : InitiatorCall(call["initiator"][j])'
      BY <1>2, InitiatorOthers
    <3> QED
      BY <3>1, <3>2
  <2>2. ASSUME NEW j \in Slot \ {k}, Leading(call["initiator"][j])
        PROVE  ~Leading(c)
    <3>1. ~Leading(call["initiator"][k])
      BY <2>2 DEF IInv, InitiatorInv
    <3>2. idx["initiator"] >= 1 /\ Len(sym["initiator"]) >= 3
      BY <2>2, LeadingCall
    <3> QED
      BY <1>4, <3>1, <3>2 DEF InitiatorDuty
  <2>3. \A j, m \in Slot : Leading(call'["initiator"][j]) /\ Leading(call'["initiator"][m]) => j = m
    BY <1>3, <2>2 DEF IInv, InitiatorInv
  <2>4. i >= 2 => Answered'
    <3>1. CASE i >= 2 /\ idx["initiator"] >= 2
      <4>1. Answered /\ Begins(sym["initiator"], s)
        BY <1>4, <3>1 DEF IInv, InitiatorInv, InitiatorDuty
      <4> QED
        BY <1>3, <1>4, <4>1, AnsweredKept DEF Writing
    <3>2. CASE i >= 2 /\ idx["initiator"] <= 1
      BY <3>2 DEF InitiatorDuty
    <3> QED
      BY <1>4, <3>1, <3>2
  <2>5. \/ z = NoState /\ b = 0
        \/ i = 3 /\ z = s
    <3>1. CASE z = session["initiator"] /\ b = built["initiator"]
      BY <1>5, <3>1 DEF IInv, InitiatorInv
    <3> QED
      BY <3>1 DEF InitiatorDuty
  <2> QED
    BY <1>3, <2>1, <2>3, <2>4, <2>5 DEF InitiatorInv, InitiatorDuty, Leading
<1> QED
  BY <1>2, <1>6, <1>7, <1>8, <1>9 DEF IInv

\* What the responder's step with its call k, left as c, has to see to, besides
\* DoneInv.
ResponderDuty(k, c, i, s, z, b) ==
    LET d == call["responder"][k]
        t == sym["responder"]
    IN  /\ idx["responder"] <= i
        /\ Begins(t, s)
        /\ i = 0 => s = NoState \/ (Len(s) >= 2 /\ s[2] = Bad)
        /\ \A e : e = c => ResponderCall(e)'
        /\ Answering(c) => Answering(d) \/ idx["responder"] = 0
        /\ idx["responder"] = 1 => Answering(d) \/ (i = 1 /\ s = t)
        /\ c.pc = "openP" => Len(c.under) > Len(t)
        /\ i # 3 => z = NoState /\ b = 0

LEMMA ResponderOthers ==
    ASSUME IInv, NEW k \in Slot, NEW c, NEW i \in 0 .. 3, NEW s, NEW z, NEW b, IsState(s),
           Moved("responder", k, c, i, s, z, b), ResponderDuty(k, c, i, s, z, b),
           NEW j \in Slot \ {k}
    PROVE  ResponderCall(call["responder"][j])'
<1> DEFINE d == call["responder"][j]
<1>1. call'["responder"][j] = d /\ idx'["responder"] = i /\ sym'["responder"] = s
  BY DEF Moved, Role
<1>2. /\ ResponderCall(d) /\ IsCall(d) /\ IsState(sym["responder"]) /\ idx["responder"] \in 0 .. 3
      /\ Answering(d) => ~Answering(call["responder"][k])
  BY DEF IInv, ResponderInv, TypeInv, Role
<1> HIDE DEF d
<1>3. \A e : e = d /\ ResponderCall(e)' => ResponderCall(call["responder"][j])'
  BY <1>1 DEF ResponderCall, Opening, d
<1>4. SUFFICES ASSUME NEW e, e = d
               PROVE  ResponderCall(e)'
  BY <1>3
<1>5. CASE Opening(e)
  <2>1. idx["responder"] >= 2 /\ i >= 2
    BY <1>2, <1>4, <1>5 DEF ResponderCall, ResponderDuty
  <2>2. Begins(e.under, s)
    BY <1>2, <1>4, <1>5, BeginsOrder DEF ResponderCall, ResponderDuty, IsCall
  <2> QED
    BY <1>1, <1>5, <2>1, <2>2 DEF ResponderCall, Opening
<1>6. CASE e.pc \in {"sealS", "sealP"}
  <2>1. idx["responder"] = 1 /\ i = 1 /\ s = sym["responder"]
    BY <1>2, <1>4, <1>6 DEF ResponderCall, ResponderDuty, Answering
  <2> QED
    BY <1>1, <1>2, <1>4, <1>6, <2>1 DEF ResponderCall, Opening
<1>7. CASE e.pc \notin {"openS", "openP", "sealS", "sealP"}
  <2>1. e.pc # "opening" /\ (e.pc # "idle" => i >= 1) /\ (e.pc = "sending" => i >= 2)
    BY <1>2, <1>4 DEF ResponderCall, ResponderDuty
  <2> QED
    BY <1>1, <1>7, <2>1 DEF ResponderCall, Opening
<1> QED
  BY <1>5, <1>6, <1>7 DEF Opening

LEMMA ResponderStep ==
    ASSUME IInv, Tallied, NEW k \in Slot, NEW c, NEW i \in 0 .. 3, NEW s, NEW z, NEW b \in 0 .. 2,
           IsCall(c), IsState(s), Moved("responder", k, c, i, s, z, b),
           Opening(c) => \E w \in FrameTo("responder") : From(c.msg, w),
           Writing, ResponderDuty(k, c, i, s, z, b), DoneInv'
    PROVE  IInv'
<1>1. "responder" \in Role /\ "initiator" \in Role \ {"responder"}
  BY DEF Role
<1>2. TypeInv' /\ ReadInv'
  BY <1>1, Typed, ReadKept DEF IInv, Writing
<1>3. /\ call'["responder"][k] = c /\ idx'["responder"] = i /\ sym'["responder"] = s
      /\ session'["responder"] = z /\ built'["responder"] = b
      /\ \A j \in Slot \ {k} : call'["responder"][j] = call["responder"][j]
      /\ call'["initiator"] = call["initiator"] /\ idx'["initiator"] = idx["initiator"]
      /\ sym'["initiator"] = sym["initiator"] /\ session'["initiator"] = session["initiator"]
      /\ built'["initiator"] = built["initiator"]
  BY <1>1 DEF Moved
<1>4. /\ idx["initiator"] \in 0 .. 3 /\ idx["responder"] \in 0 .. 3
      /\ IsState(sym["responder"]) /\ Len(sym["responder"]) \in Nat
      /\ \A j \in Slot : IsCall(call["responder"][j])
  BY <1>1, Appended DEF IInv, TypeInv
<1>5. WireInv'
  <2>1. idx["responder"] <= idx'["responder"] /\ idx["initiator"] <= idx'["initiator"]
    BY <1>3, <1>4 DEF ResponderDuty
  <2> QED
    BY <1>2, <1>3, <2>1, WireKept DEF IInv
<1>6. InitiatorInv'
  BY <1>3, InitiatorKept DEF IInv, Writing
<1>7. ResponderInv'
  <2>1. \A j \in Slot : ResponderCall(call["responder"][j])'
    <3>1. ResponderCall(call["responder"][k])'
      BY <1>3 DEF ResponderDuty, ResponderCall, Opening
    <3>2. \A j \in Slot \ {k} : ResponderCall(call["responder"][j])'
      BY ResponderOthers
    <3> QED
      BY <3>1, <3>2
  <2>2. ASSUME NEW j \in Slot \ {k}, Answering(call["responder"][j])
        PROVE  ~Answering(c)
    <3>1. ~Answering(call["responder"][k])
      BY <2>2 DEF IInv, ResponderInv
    <3>2. idx["responder"] # 0
      BY <1>4, <2>2 DEF IInv, ResponderInv, ResponderCall, Answering
    <3> QED
      BY <3>1, <3>2 DEF ResponderDuty
  <2>3. \A j, m \in Slot : Answering(call'["responder"][j]) /\ Answering(call'["responder"][m]) => j = m
    BY <1>3, <2>2 DEF IInv, ResponderInv
  <2>4. ASSUME NEW j \in Slot \ {k}, call["responder"][j].pc = "openP", c.pc = "openP"
        PROVE  Len(call["responder"][j].under) # Len(c.under)
    <3>1. Begins(call["responder"][j].under, sym["responder"])
      BY <2>4 DEF IInv, ResponderInv, ResponderCall, Opening
    <3>2. Len(call["responder"][j].under) \in Nat /\ Len(c.under) \in Nat
      BY <1>4, Appended DEF IsCall
    <3>3. Len(c.under) > Len(sym["responder"])
      BY <2>4 DEF ResponderDuty
    <3> QED
      BY <1>4, <3>1, <3>2, <3>3 DEF Begins
  <2>5. \A j, m \in Slot : /\ call'["responder"][j].pc = "openP" /\ call'["responder"][m].pc = "openP"
                           /\ Len(call'["responder"][j].under) = Len(call'["responder"][m].under)
                           => j = m
    BY <1>3, <2>4 DEF IInv, ResponderInv
  <2>6. /\ i = 0 => s = NoState \/ (Len(s) >= 2 /\ s[2] = Bad)
        /\ i # 3 => z = NoState /\ b = 0
    BY DEF ResponderDuty
  <2> QED
    BY <1>3, <2>1, <2>3, <2>5, <2>6 DEF ResponderInv, Answering
<1> QED
  BY <1>2, <1>5, <1>6, <1>7 DEF IInv

\* Most steps of the responder change nothing that DoneInv speaks of.
LEMMA DoneKept ==
    ASSUME IInv, NEW k \in Slot, NEW c, NEW i, NEW s, NEW z, NEW b,
           Moved("responder", k, c, i, s, z, b), mixed' = mixed,
           i = 3 => /\ idx["responder"] = 3 /\ s = sym["responder"]
                    /\ z = session["responder"] /\ b = built["responder"],
           i = 3 => c.pc \notin {"openP", "sending"}
    PROVE  DoneInv'
<1>1. /\ call'["responder"][k] = c /\ idx'["responder"] = i /\ sym'["responder"] = s
      /\ session'["responder"] = z /\ built'["responder"] = b
      /\ \A j \in Slot \ {k} : call'["responder"][j] = call["responder"][j]
      /\ idx'["initiator"] = idx["initiator"] /\ sym'["initiator"] = sym["initiator"]
  BY DEF Moved, Role
<1> QED
  BY <1>1 DEF IInv, DoneInv

-----------------------------------------------------------------------------
(* Steps that only end a call *)

LEMMA Moving ==
    ASSUME TypeInv, NEW r \in Role, NEW k \in Slot, NEW c, NEW i, NEW s, NEW z, NEW b,
           call' = [call EXCEPT ![r] = [@ EXCEPT ![k] = c]],
           idx' = [idx EXCEPT ![r] = i], sym' = [sym EXCEPT ![r] = s],
           session' = [session EXCEPT ![r] = z], built' = [built EXCEPT ![r] = b]
    PROVE  Moved(r, k, c, i, s, z, b)
<1>1. /\ idx = [q \in Role |-> idx[q]] /\ built = [q \in Role |-> built[q]]
      /\ sym = [q \in Role |-> sym[q]] /\ session = [q \in Role |-> session[q]]
  BY DEF TypeInv
<1>2. /\ call'[r][k] = c /\ \A j \in Slot \ {k} : call'[r][j] = call[r][j]
      /\ \A q \in Role \ {r} : call'[q] = call[q]
      /\ call' = [q \in Role |-> [j \in Slot |-> call'[q][j]]]
  BY Calling
<1>3. /\ idx'[r] = i /\ idx' = [q \in Role |-> idx'[q]] /\ \A q \in Role \ {r} : idx'[q] = idx[q]
      /\ built'[r] = b /\ built' = [q \in Role |-> built'[q]] /\ \A q \in Role \ {r} : built'[q] = built[q]
  BY <1>1, Table
<1>4. /\ sym'[r] = s /\ sym' = [q \in Role |-> sym'[q]] /\ \A q \in Role \ {r} : sym'[q] = sym[q]
      /\ session'[r] = z /\ session' = [q \in Role |-> session'[q]]
      /\ \A q \in Role \ {r} : session'[q] = session[q]
  BY <1>1, Table
<1> QED
  BY <1>2, <1>3, <1>4 DEF Moved

\* A table that a step leaves alone, as Moving puts it.
LEMMA Stays ==
    ASSUME TypeInv, NEW r \in Role, NEW k \in Slot
    PROVE  /\ idx = [idx EXCEPT ![r] = idx[r]] /\ sym = [sym EXCEPT ![r] = sym[r]]
           /\ session = [session EXCEPT ![r] = session[r]] /\ built = [built EXCEPT ![r] = built[r]]
           /\ call = [call EXCEPT ![r] = [@ EXCEPT ![k] = call[r][k]]]
<1>1. /\ idx = [q \in Role |-> idx[q]] /\ built = [q \in Role |-> built[q]]
      /\ sym = [q \in Role |-> sym[q]] /\ session = [q \in Role |-> session[q]]
      /\ call = [q \in Role |-> [j \in Slot |-> call[q][j]]]
  BY DEF TypeInv
<1>2. \A q \in Role : call[q] = [j \in Slot |-> call[q][j]]
  BY <1>1
<1>3. [call[r] EXCEPT ![k] = call[r][k]] = call[r]
  BY <1>2
<1> QED
  BY <1>1, <1>3

LEMMA Facts ==
    ASSUME IInv, NEW r \in Role, NEW k \in Slot
    PROVE  /\ IsState(sym[r]) /\ Len(sym[r]) \in Nat /\ Begins(sym[r], sym[r])
           /\ idx[r] \in 0 .. 3 /\ built[r] \in 0 .. 2
           /\ IsCall(call[r][k]) /\ IsState(call[r][k].under) /\ Len(call[r][k].under) \in Nat
           /\ call[r][k].pc \in Pc
  BY Appended, BeginsOrder DEF IInv, TypeInv, IsCall

LEMMA Quiet ==
    ASSUME IInv, Tallied, NEW r \in Role, NEW k \in Slot,
           call' = [call EXCEPT ![r] = [@ EXCEPT ![k] = Idle]],
           UNCHANGED <<idx, sym, wire, session, built, mixed>>
    PROVE  IInv'
<1> DEFINE s == sym[r]
           z == session[r]
           b == built[r]
           i == idx[r]
<1>1. Moved(r, k, Idle, i, s, z, b)
  BY Moving, Stays DEF IInv
<1>2. IsState(s) /\ Begins(s, s) /\ i \in 0 .. 3 /\ b \in 0 .. 2 /\ Len(s) \in Nat
  BY Facts
<1>3. IsCall(Idle) /\ ~Opening(Idle) /\ ~Leading(Idle) /\ ~Answering(Idle) /\ Idle.pc = "idle"
  BY IdleIsCall DEF Opening, Leading, Answering
<1>4. Writing
  BY DEF Writing
<1>5. CASE r = "initiator"
  <2>1. \A e : e = Idle => InitiatorCall(e)'
    BY <1>3 DEF InitiatorCall, Opening
  <2>2. CASE i = 0
    \* msg-1 is not written yet and no call of the initiator can be there.
    <3>1. /\ call["initiator"][k].pc = "idle"
      BY <1>5, <2>2 DEF IInv, InitiatorInv, InitiatorCall
    <3>2. \A j \in Slot : InitiatorCall(call["initiator"][j])'
      <4>1. \A j \in Slot : call'["initiator"][j].pc = "idle"
        BY <1>1, <1>3, <1>5, <2>2 DEF IInv, InitiatorInv, InitiatorCall, Moved
      <4> QED
        BY <4>1 DEF InitiatorCall, Opening
    <3>3. \A j \in Slot : ~Leading(call'["initiator"][j])
      BY <1>1, <1>3, <1>5, <2>2 DEF IInv, InitiatorInv, InitiatorCall, Moved, Leading
    <3>4. InitiatorInv'
      BY <1>5, <2>2, <3>2, <3>3 DEF IInv, InitiatorInv, Leading
    <3>5. TypeInv' /\ ReadInv'
      BY <1>1, <1>2, <1>3, Typed, ReadKept DEF IInv
    <3>6. call'["responder"] = call["responder"]
      BY <1>1, <1>5 DEF Moved, Role
    <3>7. ResponderInv' /\ DoneInv'
      BY <3>6, ResponderKept DEF IInv, DoneInv
    <3>8. WireInv'
      BY DEF IInv, WireInv, Written, IsFrame, Good
    <3> QED
      BY <3>4, <3>5, <3>7, <3>8 DEF IInv
  <2>3. CASE i # 0
    <3>1. /\ i >= 2 => Len(s) >= 5
          /\ i = 3 => Len(s) >= 7
          /\ Len(s) >= 2 /\ s[2] = K1
      BY <1>2, <1>5, <2>3 DEF IInv, InitiatorInv
    <3>2. InitiatorDuty(k, Idle, i, s, z, b)
      BY <1>2, <1>3, <1>5, <2>1, <2>3, <3>1 DEF InitiatorDuty
    <3> QED
      BY <1>1, <1>2, <1>3, <1>4, <1>5, <3>2, InitiatorStep
  <2> QED
    BY <2>2, <2>3
<1>6. CASE r = "responder"
  <2>1. \A e : e = Idle => ResponderCall(e)'
    BY <1>3 DEF ResponderCall, Opening
  <2>2. /\ i = 0 => s = NoState \/ (Len(s) >= 2 /\ s[2] = Bad)
        /\ i # 3 => z = NoState /\ b = 0
    BY <1>6 DEF IInv, ResponderInv
  <2>3. ResponderDuty(k, Idle, i, s, z, b)
    BY <1>2, <1>3, <1>6, <2>1, <2>2 DEF ResponderDuty
  <2>4. DoneInv'
    BY <1>1, <1>3, <1>6, DoneKept
  <2> QED
    BY <1>1, <1>2, <1>3, <1>4, <1>6, <2>3, <2>4, ResponderStep
<1> QED
  BY <1>5, <1>6 DEF Role

LEMMA QuietSteps ==
    ASSUME IInv, [Next]_vars, NEW r \in Role, NEW k \in Slot,
           \/ Msg1Sent(k) \/ OutOfState(r, k) \/ OpenFails(r, k) \/ WriteFails(r, k)
           \/ Sent(r, k) /\ idx[r] # 3
    PROVE  IInv'
<1>1. Tallied
  BY Tallies DEF IInv
<1>2. CASE Msg1Sent(k)
  <2>1. "initiator" \in Role
    BY DEF Role
  <2> QED
    BY <1>1, <1>2, <2>1, Ending, Quiet DEF Msg1Sent, IInv
<1>3. CASE OutOfState(r, k)
  <2>1. call[r][k] = Idle
    BY <1>3 DEF OutOfState, Arrives
  <2>2. call' = [call EXCEPT ![r] = [@ EXCEPT ![k] = Idle]]
    BY <1>3, <2>1, Stays DEF OutOfState, IInv
  <2> QED
    BY <1>1, <1>3, <2>2, Quiet DEF OutOfState
<1>4. CASE OpenFails(r, k)
  BY <1>1, <1>4, Ending, Quiet DEF OpenFails, Strike, IInv
<1>5. CASE WriteFails(r, k)
  BY <1>1, <1>5, Ending, Quiet DEF WriteFails, IInv
<1>6. CASE Sent(r, k) /\ idx[r] # 3
  BY <1>1, <1>6, Ending, Quiet DEF Sent, IInv
<1> QED
  BY <1>2, <1>3, <1>4, <1>5, <1>6


-----------------------------------------------------------------------------
(* Steps of the initiator *)

LEMMA Mixing ==
    ASSUME TypeInv, NEW r \in Role, NEW under, NEW item, Mix(r, under, item)
    PROVE  /\ sym' = [sym EXCEPT ![r] = Append(sym[r], item)]
           /\ sym'[r] = Append(sym[r], item)
           /\ mixed \subseteq mixed'
           /\ \A q \in Role \ {r} : q \in mixed' => q \in mixed
           /\ r \notin mixed' => sym[r] = under
           /\ sym[r] = under => mixed' = mixed
<1>1. sym = [q \in Role |-> sym[q]]
  BY DEF TypeInv
<1> QED
  BY <1>1 DEF Mix

LEMMA GoingPart ==
    ASSUME TypeInv, NEW r \in Role, NEW k \in Slot, NEW under, IsState(under), NEW part,
           call' = [call EXCEPT ![r][k].pc = "sealP", ![r][k].under = under, ![r][k].part = part]
    PROVE  LET c == [pc |-> "sealP", msg |-> call[r][k].msg, under |-> under, part |-> part]
           IN call' = [call EXCEPT ![r] = [@ EXCEPT ![k] = c]] /\ IsCall(c)
<1> DEFINE c == [pc |-> "sealP", msg |-> call[r][k].msg, under |-> under, part |-> part]
           d == call[r][k]
           e == [d EXCEPT !.pc = "sealP"]
           f == [e EXCEPT !.under = under]
           x == [call[r] EXCEPT ![k] = e]
           y == [x EXCEPT ![k] = f]
<1>1. d = [pc |-> d.pc, msg |-> d.msg, under |-> d.under, part |-> d.part]
      /\ call = [q \in Role |-> call[q]] /\ call[r] = [j \in Slot |-> call[r][j]]
  BY DEF TypeInv, IsCall
<1>2. [f EXCEPT !.part = part] = c
  <2> DEFINE a == d.pc
             b == d.msg
             g == d.under
             h == d.part
  <2>1. d = [pc |-> a, msg |-> b, under |-> g, part |-> h]
        /\ c = [pc |-> "sealP", msg |-> b, under |-> under, part |-> part]
    BY <1>1
  <2> HIDE DEF a, b, g, h, c, d
  <2>2. e = [pc |-> "sealP", msg |-> b, under |-> g, part |-> h]
    BY <2>1
  <2> HIDE DEF e
  <2>3. f = [pc |-> "sealP", msg |-> b, under |-> under, part |-> h]
    BY <2>2
  <2> HIDE DEF f
  <2>4. [f EXCEPT !.part = part] = [pc |-> "sealP", msg |-> b, under |-> under, part |-> part]
    BY <2>3
  <2> QED
    BY <2>1, <2>4
<1>3. call' = [[[call EXCEPT ![r] = x] EXCEPT ![r] = y]
                 EXCEPT ![r] = [y EXCEPT ![k] = [f EXCEPT !.part = part]]]
  <2>1. x[k] = e /\ y[k] = f
    BY <1>1
  <2> QED
    BY <1>1, <2>1
<1> HIDE DEF e, f, c
<1>4. [y EXCEPT ![k] = c] = [call[r] EXCEPT ![k] = c]
  BY <1>1
<1> HIDE DEF x, y
<1>5. call' = [call EXCEPT ![r] = [call[r] EXCEPT ![k] = c]]
  <2>1. \A v : [[[call EXCEPT ![r] = x] EXCEPT ![r] = y] EXCEPT ![r] = v] = [call EXCEPT ![r] = v]
    BY <1>1
  <2>2. call' = [[[call EXCEPT ![r] = x] EXCEPT ![r] = y] EXCEPT ![r] = [call[r] EXCEPT ![k] = c]]
    BY <1>2, <1>3, <1>4
  <2> HIDE DEF c
  <2> QED
    BY <2>1, <2>2
<1>6. c.pc = "sealP" /\ c = [pc |-> c.pc, msg |-> c.msg, under |-> c.under, part |-> c.part] /\ c.under = under
  BY DEF c
<1> QED
  BY <1>5, <1>6 DEF IsCall, c, Pc

LEMMA WriteMsg1Step ==
    ASSUME IInv, Tallied, NEW k \in Slot, WriteMsg1(k)
    PROVE  IInv'
<1> DEFINE c == [Idle EXCEPT !.pc = "opening"]
           s == <<E1, K1>>
           z == session["initiator"]
           b == built["initiator"]
<1>1. "initiator" \in Role /\ idx["initiator"] = 0
  BY DEF Role, WriteMsg1
<1>2. c = [pc |-> "opening", msg |-> Msg1, under |-> NoState, part |-> Nothing]
  BY DEF Idle
<1>3. IsCall(c) /\ c.pc = "opening" /\ ~Opening(c) /\ ~Leading(c)
  BY <1>2, Items DEF IsCall, Pc, Opening, Leading
<1>4. IsState(s) /\ Len(s) = 2 /\ s[2] = K1
  <2>1. s \in Seq({E1, K1})
    OBVIOUS
  <2> QED
    BY <2>1 DEF IsState
<1>5. call' = [call EXCEPT !["initiator"] = [@ EXCEPT ![k] = c]]
  BY DEF WriteMsg1
<1> HIDE DEF c, s
<1>6. Moved("initiator", k, c, 1, s, z, b)
  <2>1. idx' = [idx EXCEPT !["initiator"] = 1] /\ sym' = [sym EXCEPT !["initiator"] = s]
        /\ session' = session /\ built' = built
    BY DEF WriteMsg1, s
  <2> QED
    BY <1>1, <1>5, <2>1, Moving, Stays DEF IInv
<1>7. idx'["initiator"] = 1
  BY <1>1, <1>6 DEF Moved
<1>8. Writing
  <2>1. wire \subseteq wire' /\ wire' \subseteq wire \cup {Msg1}
    BY DEF WriteMsg1
  <2>2. IsFrame(Msg1) /\ Msg1.type = 1
    BY FramePart DEF Msg1
  <2> QED
    BY <2>1, <2>2 DEF Writing, Written, IsFrame
<1>9. InitiatorDuty(k, c, 1, s, z, b)
  <2>1. \A e : e = c => InitiatorCall(e)'
    BY <1>3, <1>7 DEF InitiatorCall, Opening
  <2> QED
    BY <1>1, <1>3, <1>4, <2>1 DEF InitiatorDuty
<1>10. b \in 0 .. 2 /\ mixed' = mixed
  BY <1>1, Facts DEF WriteMsg1
<1> QED
  BY <1>3, <1>4, <1>6, <1>8, <1>9, <1>10, InitiatorStep

LEMMA ReadMsg2Step ==
    ASSUME IInv, Tallied, NEW k \in Slot, ReadMsg2(k)
    PROVE  IInv'
<1> DEFINE t == sym["initiator"]
           z == session["initiator"]
           b == built["initiator"]
<1>1. "initiator" \in Role /\ idx["initiator"] = 1
  BY DEF Role, ReadMsg2, Reads
<1>2. PICK m \in Received("initiator") :
          /\ sym' = [sym EXCEPT !["initiator"] = Append(t, m.e)]
          /\ call' = [call EXCEPT !["initiator"][k] =
                        [pc |-> "openS", msg |-> m, under |-> sym'["initiator"], part |-> Nothing]]
  BY DEF ReadMsg2
<1> DEFINE s == Append(t, m.e)
           c == [pc |-> "openS", msg |-> m, under |-> s, part |-> Nothing]
<1>3. /\ IsState(t) /\ Len(t) \in Nat /\ b \in 0 .. 2
      /\ Len(t) >= 2 /\ t[2] = K1
  BY <1>1, Facts DEF IInv, InitiatorInv
<1>4. /\ IsState(s) /\ Len(s) = Len(t) + 1 /\ s[2] = K1
      /\ Begins(t, s) /\ Begins(s, s)
  BY <1>3, Appended, BeginsOrder
<1>5. sym'["initiator"] = s
  BY <1>1, <1>2, Mixing DEF IInv, TypeInv
<1>6. call' = [call EXCEPT !["initiator"] = [@ EXCEPT ![k] = c]]
  BY <1>2, <1>5
<1>7. IsCall(c) /\ c.pc = "openS" /\ c.under = s /\ c.msg = m
  BY <1>4 DEF IsCall, Pc
<1> HIDE DEF c, s
<1>8. Moved("initiator", k, c, 1, s, z, b)
  <2>1. idx' = [idx EXCEPT !["initiator"] = 1]
    BY <1>1, Stays DEF IInv, ReadMsg2
  <2>2. sym' = [sym EXCEPT !["initiator"] = s] /\ session' = session /\ built' = built
    BY <1>2 DEF ReadMsg2, s
  <2> QED
    BY <1>1, <1>6, <2>1, <2>2, Moving, Stays DEF IInv
<1>9. \E w \in FrameTo("initiator") : From(c.msg, w)
  BY <1>1, <1>7, ReceivedFrom DEF IInv
<1>10. InitiatorDuty(k, c, 1, s, z, b)
  <2>1. \A e : e = c => InitiatorCall(e)'
    BY <1>1, <1>3, <1>4, <1>5, <1>7, <1>8 DEF InitiatorCall, Opening, Moved
  <2>2. Leading(c) => Len(t) <= 2
    <3>1. Leading(c) => Len(c.under) = 3
      BY <1>7 DEF Leading
    <3>2. Len(c.under) = Len(t) + 1
      BY <1>4, <1>7
    <3> QED
      BY <1>3, <3>1, <3>2
  <2> QED
    BY <1>1, <1>3, <1>4, <2>1, <2>2 DEF InitiatorDuty
<1>11. Writing /\ mixed' = mixed
  BY DEF Writing, ReadMsg2
<1> QED
  BY <1>3, <1>4, <1>7, <1>8, <1>9, <1>10, <1>11, InitiatorStep

\* Only what the responder sealed under three items opens at the initiator.
LEMMA StaticOpens ==
    ASSUME IInv, NEW k \in Slot, call["initiator"][k].pc = "openS",
           Opens(call["initiator"][k].msg.s, call["initiator"][k].under)
    PROVE  Len(call["initiator"][k].under) = 3 /\ idx["initiator"] = 1
<1> DEFINE d == call["initiator"][k]
           t == sym["initiator"]
<1>1. "initiator" \in Role
  BY DEF Role
<1>2. /\ InitiatorCall(d) /\ Begins(d.under, t) /\ Len(d.under) >= 3 /\ IsState(d.under)
      /\ Len(d.under) \in Nat /\ idx["initiator"] \in 0 .. 3
  BY <1>1, Facts DEF IInv, InitiatorInv, InitiatorCall, Opening
<1>3. t[2] = K1
  BY <1>2 DEF IInv, InitiatorInv, InitiatorCall
<1>4. PICK w \in FrameTo("initiator") : From(d.msg, w)
  BY <1>1 DEF IInv, ReadInv, Opening
<1>5. w.s = Sealed(d.under)
  BY <1>4, Items DEF From, Opens
<1>6. PICK u : Good(u) /\ w.s = Sealed(u)
  BY <1>4 DEF FrameTo, IInv, WireInv, Written
<1>7. u = d.under
  BY <1>5, <1>6, Items
<1>8. d.under[2] = K1
  BY <1>2, <1>3 DEF Begins
<1> QED
  BY <1>2, <1>6, <1>7, <1>8, Items DEF Good, InitiatorCall

LEMMA OpenStaticI ==
    ASSUME IInv, Tallied, NEW k \in Slot, OpenStatic("initiator", k)
    PROVE  IInv'
<1> DEFINE d == call["initiator"][k]
           t == sym["initiator"]
           z == session["initiator"]
           b == built["initiator"]
           s == Append(t, d.msg.s)
           c == [pc |-> "openP", msg |-> d.msg, under |-> s, part |-> d.part]
<1>1. "initiator" \in Role /\ d.pc = "openS" /\ Mix("initiator", d.under, d.msg.s)
  BY DEF Role, OpenStatic
<1>2. Len(d.under) = 3 /\ idx["initiator"] = 1
  BY StaticOpens DEF OpenStatic
<1>3. /\ IsState(t) /\ Len(t) \in Nat /\ b \in 0 .. 2
      /\ Len(t) >= 3 /\ t[2] = K1
  BY <1>1, <1>2, Facts DEF IInv, InitiatorInv, InitiatorCall, Opening, Begins
<1>4. /\ IsState(s) /\ Len(s) = Len(t) + 1 /\ s[2] = K1
      /\ Begins(t, s) /\ Begins(s, s)
  BY <1>3, Appended, BeginsOrder
<1>5. /\ sym' = [sym EXCEPT !["initiator"] = s] /\ sym'["initiator"] = s
      /\ mixed \subseteq mixed' /\ ("responder" \in mixed' => "responder" \in mixed)
  BY <1>1, Mixing DEF IInv, Role
<1>6. call' = [call EXCEPT !["initiator"] = [@ EXCEPT ![k] = c]] /\ IsCall(c)
  <2>1. Goes("initiator", k, "openP", s)
    BY <1>5 DEF OpenStatic
  <2> QED
    BY <1>1, <1>4, <2>1, Going DEF IInv, Pc
<1>7. c.pc = "openP" /\ c.under = s /\ c.msg = d.msg
  OBVIOUS
<1> HIDE DEF c, s
<1>8. Moved("initiator", k, c, 1, s, z, b)
  <2>1. idx' = [idx EXCEPT !["initiator"] = 1]
    BY <1>1, <1>2, Stays DEF IInv, OpenStatic
  <2>2. session' = session /\ built' = built
    BY DEF OpenStatic
  <2> QED
    BY <1>1, <1>5, <1>6, <2>1, <2>2, Moving, Stays DEF IInv
<1>9. \E w \in FrameTo("initiator") : From(c.msg, w)
  BY <1>1, <1>7 DEF IInv, ReadInv, Opening
<1>10. InitiatorDuty(k, c, 1, s, z, b)
  <2>1. \A e : e = c => InitiatorCall(e)'
    BY <1>1, <1>3, <1>4, <1>5, <1>7, <1>8 DEF InitiatorCall, Opening, Moved
  <2>2. Leading(d)
    BY <1>1, <1>2 DEF Leading
  <2> QED
    BY <1>1, <1>2, <1>3, <1>4, <2>1, <2>2 DEF InitiatorDuty
<1>11. Writing
  BY DEF Writing, OpenStatic
<1> QED
  BY <1>3, <1>4, <1>5, <1>6, <1>7, <1>8, <1>9, <1>10, <1>11, InitiatorStep

\* A payload that opens at the initiator answers it: it was sealed under the
\* first four items of the state.
LEMMA PayloadAnswers ==
    ASSUME IInv, NEW k \in Slot, call["initiator"][k].pc = "openP",
           Opens(call["initiator"][k].msg.p, call["initiator"][k].under)
    PROVE  Answered
<1> DEFINE d == call["initiator"][k]
           t == sym["initiator"]
<1>1. "initiator" \in Role
  BY DEF Role
<1>2. /\ InitiatorCall(d) /\ Begins(d.under, t) /\ Len(d.under) >= 4 /\ IsState(d.under)
      /\ Len(d.under) \in Nat /\ idx["initiator"] = 1 /\ IsState(t) /\ Len(t) \in Nat
  BY <1>1, Facts DEF IInv, InitiatorInv, InitiatorCall, Opening
<1>3. t[2] = K1
  BY <1>2 DEF IInv, InitiatorInv
<1>4. PICK w \in FrameTo("initiator") : From(d.msg, w)
  BY <1>1 DEF IInv, ReadInv, Opening
<1>5. w.p = Sealed(d.under) /\ w \in wire /\ w.type = 2
  BY <1>4, Items DEF From, Opens, FrameTo
<1>6. PICK u : Good(u) /\ w.p = Sealed(Append(u, Sealed(u)))
  BY <1>5 DEF IInv, WireInv, Written
<1>7. Append(u, Sealed(u)) = d.under
  BY <1>5, <1>6, Items
<1>8. IsState(u) /\ Len(u) \in Nat /\ Len(d.under) = Len(u) + 1 /\ \A i \in 1 .. Len(u) : d.under[i] = u[i]
  BY <1>6, <1>7, Appended DEF Good
<1>9. u[2] = K1
  BY <1>2, <1>3, <1>8 DEF Begins
<1>10. Len(d.under) = 4
  <2>1. Len(u) = 3
    BY <1>6, <1>9, Items DEF Good
  <2> QED
    BY <1>8, <2>1
<1>11. SubSeq(t, 1, 4) = d.under
  BY <1>2, <1>10, FirstFour
<1> QED
  BY <1>2, <1>5, <1>10, <1>11 DEF Answered, Begins

LEMMA OpenPayloadI ==
    ASSUME IInv, Tallied, NEW k \in Slot, OpenPayload("initiator", k)
    PROVE  IInv'
<1> DEFINE d == call["initiator"][k]
           t == sym["initiator"]
           z == session["initiator"]
           b == built["initiator"]
           s == Append(t, d.msg.p)
           c == [pc |-> "sealS", msg |-> d.msg, under |-> s, part |-> d.part]
<1>1. "initiator" \in Role /\ d.pc = "openP" /\ Mix("initiator", d.under, d.msg.p)
  BY DEF Role, OpenPayload
<1>2. Answered
  BY PayloadAnswers DEF OpenPayload
<1>3. /\ IsState(t) /\ Len(t) \in Nat /\ b \in 0 .. 2 /\ idx["initiator"] = 1
      /\ Len(t) >= 4 /\ t[2] = K1
  BY <1>1, <1>2, Facts DEF IInv, InitiatorInv, InitiatorCall, Answered
<1>4. /\ IsState(s) /\ Len(s) = Len(t) + 1 /\ s[2] = K1
      /\ Begins(t, s) /\ Begins(s, s)
  BY <1>3, Appended, BeginsOrder
<1>5. /\ sym' = [sym EXCEPT !["initiator"] = s] /\ sym'["initiator"] = s
      /\ mixed \subseteq mixed' /\ ("responder" \in mixed' => "responder" \in mixed)
  BY <1>1, Mixing DEF IInv, Role
<1>6. call' = [call EXCEPT !["initiator"] = [@ EXCEPT ![k] = c]] /\ IsCall(c)
  <2>1. Goes("initiator", k, "sealS", s)
    BY <1>5 DEF OpenPayload
  <2> QED
    BY <1>1, <1>4, <2>1, Going DEF IInv, Pc
<1>7. c.pc = "sealS" /\ c.under = s
  OBVIOUS
<1> HIDE DEF c, s
<1>8. Moved("initiator", k, c, 2, s, z, b)
  <2>1. idx' = [idx EXCEPT !["initiator"] = 2] /\ session' = session /\ built' = built
    BY DEF OpenPayload
  <2> QED
    BY <1>1, <1>5, <1>6, <2>1, Moving, Stays DEF IInv
<1>9. Writing /\ ~Opening(c)
  BY <1>7 DEF Writing, OpenPayload, Opening
<1>10. InitiatorDuty(k, c, 2, s, z, b)
  <2>1. \A e : e = c => InitiatorCall(e)'
    BY <1>5, <1>7, <1>8 DEF InitiatorCall, Opening, Moved
  <2>2. Leading(d)
    BY <1>1 DEF Leading
  <2>3. Answered'
    BY <1>2, <1>3, <1>4, <1>5, <1>9, AnsweredKept DEF Writing
  <2> QED
    BY <1>3, <1>4, <2>1, <2>2, <2>3 DEF InitiatorDuty
<1> QED
  BY <1>3, <1>4, <1>5, <1>6, <1>8, <1>9, <1>10, InitiatorStep

LEMMA SealStaticI ==
    ASSUME IInv, Tallied, NEW k \in Slot, SealStatic("initiator", k)
    PROVE  IInv'
<1> DEFINE d == call["initiator"][k]
           t == sym["initiator"]
           z == session["initiator"]
           b == built["initiator"]
           p == Sealed(d.under)
           s == Append(t, p)
           c == [pc |-> "sealP", msg |-> d.msg, under |-> s, part |-> p]
<1>1. "initiator" \in Role /\ d.pc = "sealS" /\ Mix("initiator", d.under, p)
  BY DEF Role, SealStatic
<1>2. /\ IsState(t) /\ Len(t) \in Nat /\ b \in 0 .. 2 /\ idx["initiator"] = 2
      /\ Len(t) >= 5 /\ t[2] = K1 /\ d.under = t
  BY <1>1, Facts DEF IInv, InitiatorInv, InitiatorCall
<1>3. /\ IsState(s) /\ Len(s) = Len(t) + 1 /\ s[2] = K1
      /\ Begins(t, s) /\ Begins(s, s)
  BY <1>2, Appended, BeginsOrder
<1>4. /\ sym' = [sym EXCEPT !["initiator"] = s] /\ sym'["initiator"] = s
      /\ mixed \subseteq mixed' /\ ("responder" \in mixed' => "responder" \in mixed)
  BY <1>1, Mixing DEF IInv, Role
<1>5. call' = [call EXCEPT !["initiator"] = [@ EXCEPT ![k] = c]] /\ IsCall(c)
  <2>1. call' = [call EXCEPT !["initiator"][k].pc = "sealP", !["initiator"][k].under = s,
                             !["initiator"][k].part = p]
    BY <1>4 DEF SealStatic
  <2> HIDE DEF s, p
  <2> QED
    BY <1>1, <1>3, <2>1, GoingPart DEF IInv
<1>6. c.pc = "sealP" /\ c.under = s /\ c.part = p
  OBVIOUS
<1> HIDE DEF c
<1>7. Moved("initiator", k, c, 2, s, z, b)
  <2>1. idx' = [idx EXCEPT !["initiator"] = 2]
    BY <1>1, <1>2, Stays DEF IInv, SealStatic
  <2>2. session' = session /\ built' = built
    BY DEF SealStatic
  <2> QED
    BY <1>1, <1>4, <1>5, <2>1, <2>2, Moving, Stays DEF IInv
<1>8. Writing /\ ~Opening(c)
  BY <1>6 DEF Writing, SealStatic, Opening
<1>9. \E u : IsState(u) /\ c.part = Sealed(u) /\ c.under = Append(u, c.part)
  BY <1>2, <1>6
<1> HIDE DEF s
<1>10. InitiatorDuty(k, c, 2, s, z, b)
  <2>1. idx'["initiator"] = 2 /\ Len(s) >= 6
    BY <1>2, <1>3, <1>7 DEF Moved
  <2>2. ASSUME NEW e, e = c
        PROVE  InitiatorCall(e)'
    <3>1. e.pc = "sealP" /\ e.under = s
      BY <1>6, <2>2
    <3>2. \E u : IsState(u) /\ e.part = Sealed(u) /\ e.under = Append(u, e.part)
      BY <1>9, <2>2
    <3> QED
      BY <1>4, <2>1, <3>1, <3>2 DEF InitiatorCall, Opening
  <2>3. Leading(d)
    BY <1>1 DEF Leading
  <2> QED
    BY <1>2, <1>3, <2>2, <2>3 DEF InitiatorDuty
<1> QED
  BY <1>2, <1>3, <1>4, <1>5, <1>7, <1>8, <1>10, InitiatorStep

LEMMA SealPayloadI ==
    ASSUME IInv, Tallied, NEW k \in Slot, SealPayload("initiator", k)
    PROVE  IInv'
<1> DEFINE d == call["initiator"][k]
           t == sym["initiator"]
           z == session["initiator"]
           b == built["initiator"]
           p == Sealed(d.under)
           s == Append(t, p)
           w == Frame(3, Nothing, d.part, p)
           c == [pc |-> "sending", msg |-> d.msg, under |-> s, part |-> d.part]
<1>1. "initiator" \in Role /\ d.pc = "sealP" /\ Mix("initiator", d.under, p)
  BY DEF Role, SealPayload
<1>2. /\ IsState(t) /\ Len(t) \in Nat /\ b \in 0 .. 2 /\ idx["initiator"] = 2
      /\ Len(t) >= 6 /\ t[2] = K1 /\ d.under = t
      /\ z = NoState
  BY <1>1, Facts DEF IInv, InitiatorInv, InitiatorCall
<1>3. PICK u : IsState(u) /\ d.part = Sealed(u) /\ t = Append(u, d.part)
  BY <1>1, <1>2 DEF IInv, InitiatorInv, InitiatorCall
<1>4. /\ IsState(s) /\ Len(s) = Len(t) + 1 /\ s[2] = K1
      /\ Begins(t, s) /\ Begins(s, s)
  BY <1>2, Appended, BeginsOrder
<1>5. /\ sym' = [sym EXCEPT !["initiator"] = s] /\ sym'["initiator"] = s
      /\ mixed \subseteq mixed' /\ ("responder" \in mixed' => "responder" \in mixed)
  BY <1>1, Mixing DEF IInv, Role
<1>6. call' = [call EXCEPT !["initiator"] = [@ EXCEPT ![k] = c]] /\ IsCall(c)
  <2>1. Goes("initiator", k, "sending", s)
    BY <1>5 DEF SealPayload
  <2> HIDE DEF s
  <2> QED
    BY <1>1, <1>4, <2>1, Going DEF IInv, Pc
<1>7. c.pc = "sending"
  OBVIOUS
<1> HIDE DEF c
<1>8. Moved("initiator", k, c, 3, s, z, b)
  <2>1. idx' = [idx EXCEPT !["initiator"] = 3] /\ session' = session /\ built' = built
    BY <1>2 DEF SealPayload
  <2> QED
    BY <1>1, <1>5, <1>6, <2>1, Moving, Stays DEF IInv
<1>9. idx'["initiator"] = 3 /\ session'["initiator"] = NoState
  BY <1>2, <1>8 DEF Moved
<1>10. Writing
  <2>1. wire \subseteq wire' /\ wire' \subseteq wire \cup {w}
    BY DEF SealPayload
  <2>2. IsFrame(w) /\ w.type = 3 /\ w.s = d.part /\ w.p = p
    BY FramePart
  <2>3. /\ w.s = Sealed(u) /\ w.p = Sealed(Append(u, w.s))
        /\ sym'["initiator"] = Append(Append(u, w.s), w.p)
    BY <1>2, <1>3, <1>5, <2>2
  <2> HIDE DEF w, s, p
  <2>4. ASSUME NEW v, v = w
        PROVE  Written(v)'
    BY <1>3, <1>9, <2>2, <2>3, <2>4 DEF Written, IsFrame
  <2> QED
    BY <2>1, <2>4 DEF Writing
<1> HIDE DEF s
<1>11. InitiatorDuty(k, c, 3, s, z, b)
  <2>1. \A e : e = c => InitiatorCall(e)'
    BY <1>7, <1>9 DEF InitiatorCall, Opening
  <2>2. Leading(d)
    BY <1>1 DEF Leading
  <2> QED
    BY <1>2, <1>4, <2>1, <2>2 DEF InitiatorDuty
<1>12. ~Opening(c)
  BY <1>7 DEF Opening
<1> QED
  BY <1>2, <1>4, <1>5, <1>6, <1>8, <1>10, <1>11, <1>12, InitiatorStep

LEMMA SentI ==
    ASSUME IInv, Tallied, NEW k \in Slot, Sent("initiator", k), idx["initiator"] = 3
    PROVE  IInv'
<1> DEFINE d == call["initiator"][k]
           s == sym["initiator"]
           b == built["initiator"]
<1>1. "initiator" \in Role /\ d.pc = "sending"
  BY DEF Role, Sent
<1>2. /\ IsState(s) /\ Len(s) \in Nat /\ Begins(s, s) /\ session["initiator"] = NoState
      /\ Len(s) >= 7 /\ s[2] = K1
  BY <1>1, Facts DEF IInv, InitiatorInv, InitiatorCall
<1>3. b = 0
  BY <1>2, Items DEF IInv, InitiatorInv
<1>4. IsCall(Idle) /\ ~Opening(Idle) /\ ~Leading(Idle) /\ Idle.pc = "idle"
  BY IdleIsCall DEF Opening, Leading
<1>5. Moved("initiator", k, Idle, 3, s, s, 1)
  <2>1. built' = [built EXCEPT !["initiator"] = 1] /\ session' = [session EXCEPT !["initiator"] = s]
        /\ idx' = idx /\ sym' = sym
    BY <1>3 DEF Sent, Complete
  <2>2. idx = [idx EXCEPT !["initiator"] = 3]
    BY <1>1, Stays DEF IInv
  <2>3. call' = [call EXCEPT !["initiator"] = [@ EXCEPT ![k] = Idle]]
    BY <1>1, Ending DEF IInv, Sent
  <2> QED
    BY <1>1, <2>1, <2>2, <2>3, Moving, Stays DEF IInv
<1>6. InitiatorDuty(k, Idle, 3, s, s, 1)
  <2>1. \A e : e = Idle => InitiatorCall(e)'
    BY <1>4 DEF InitiatorCall, Opening
  <2>2. Leading(d)
    BY <1>1 DEF Leading
  <2> QED
    BY <1>2, <1>4, <2>1, <2>2 DEF InitiatorDuty
<1>7. Writing /\ mixed' = mixed
  BY DEF Writing, Sent
<1> QED
  BY <1>2, <1>4, <1>5, <1>6, <1>7, InitiatorStep

-----------------------------------------------------------------------------
(* Steps of the responder *)

LEMMA ReadMsg1Step ==
    ASSUME IInv, Tallied, NEW k \in Slot, ReadMsg1(k)
    PROVE  IInv'
<1> DEFINE t == sym["responder"]
           z == session["responder"]
           b == built["responder"]
<1>1. "responder" \in Role /\ idx["responder"] = 0
  BY DEF Role, ReadMsg1
<1>2. PICK m \in Received("responder") :
          /\ sym' = [sym EXCEPT !["responder"] = t \o <<m.e, m.p, E2>>]
          /\ call' = [call EXCEPT !["responder"][k] =
                        [pc |-> "sealS", msg |-> m, under |-> sym'["responder"], part |-> Nothing]]
  BY DEF ReadMsg1
<1> DEFINE s == t \o <<m.e, m.p, E2>>
           c == [pc |-> "sealS", msg |-> m, under |-> s, part |-> Nothing]
<1>3. /\ IsState(t) /\ Len(t) \in Nat /\ z = NoState /\ b = 0
      /\ t = NoState \/ (Len(t) >= 2 /\ t[2] = Bad)
  BY <1>1, Facts DEF IInv, ResponderInv
<1>4. IsState(s) /\ Len(s) = Len(t) + 3 /\ Begins(t, s)
  BY <1>3, Triple
<1>5. Good(s)
  BY <1>3, <1>4, Items DEF Good, Begins
<1>6. sym'["responder"] = s
  BY <1>1, <1>2 DEF IInv, TypeInv
<1>7. call' = [call EXCEPT !["responder"] = [@ EXCEPT ![k] = c]]
  BY <1>2, <1>6
<1>8. IsCall(c) /\ c.pc = "sealS" /\ c.under = s
  BY <1>4 DEF IsCall, Pc
<1> HIDE DEF c
<1>9. Moved("responder", k, c, 1, s, z, b)
  <2>1. /\ idx' = [idx EXCEPT !["responder"] = 1] /\ session' = session /\ built' = built
        /\ sym' = [sym EXCEPT !["responder"] = s]
    BY <1>2 DEF ReadMsg1
  <2> QED
    BY <1>1, <1>7, <2>1, Moving, Stays DEF IInv
<1> HIDE DEF s
<1>10. idx'["responder"] = 1
  BY <1>9 DEF Moved
<1>11. ResponderDuty(k, c, 1, s, z, b)
  <2>1. ASSUME NEW e, e = c
        PROVE  ResponderCall(e)'
    BY <1>5, <1>6, <1>8, <1>10, <2>1 DEF ResponderCall, Opening, Good
  <2> QED
    BY <1>1, <1>3, <1>4, <1>8, <2>1 DEF ResponderDuty
<1>12. Writing /\ mixed' = mixed /\ ~Opening(c)
  BY <1>8 DEF Writing, ReadMsg1, Opening
<1>13. DoneInv'
  BY <1>9, <1>12, DoneKept
<1> QED
  BY <1>3, <1>4, <1>8, <1>9, <1>11, <1>12, <1>13, ResponderStep

LEMMA ReadMsg1FailsStep ==
    ASSUME IInv, Tallied, NEW k \in Slot, ReadMsg1Fails(k)
    PROVE  IInv'
<1> DEFINE t == sym["responder"]
           z == session["responder"]
           b == built["responder"]
<1>1. "responder" \in Role /\ idx["responder"] = 0
  BY DEF Role, ReadMsg1Fails
<1>2. PICK m \in Received("responder") :
          m.p = Bad /\ sym' = [sym EXCEPT !["responder"] = t \o <<m.e, m.p>>]
  BY DEF ReadMsg1Fails
<1> DEFINE s == t \o <<m.e, m.p>>
<1>3. /\ IsState(t) /\ Len(t) \in Nat /\ z = NoState /\ b = 0
      /\ t = NoState \/ (Len(t) >= 2 /\ t[2] = Bad)
  BY <1>1, Facts DEF IInv, ResponderInv
<1>4. IsState(s) /\ Len(s) = Len(t) + 2 /\ Begins(t, s) /\ s[Len(t) + 2] = Bad
  BY <1>2, <1>3, Pair
<1> HIDE DEF s
<1>5. Len(s) >= 2 /\ s[2] = Bad
  <2>1. CASE t = NoState
    BY <1>4, <2>1, Items
  <2>2. CASE Len(t) >= 2 /\ t[2] = Bad
    BY <1>3, <1>4, <2>2 DEF Begins
  <2> QED
    BY <1>3, <2>1, <2>2
<1>6. IsCall(Idle) /\ ~Opening(Idle) /\ ~Answering(Idle) /\ Idle.pc = "idle"
  BY IdleIsCall DEF Opening, Answering
<1>7. Moved("responder", k, Idle, 0, s, z, b)
  <2>1. /\ idx' = [idx EXCEPT !["responder"] = 0] /\ session' = session /\ built' = built
        /\ sym' = [sym EXCEPT !["responder"] = s]
    BY <1>1, <1>2, Stays DEF ReadMsg1Fails, IInv, s
  <2>2. call' = [call EXCEPT !["responder"] = [@ EXCEPT ![k] = Idle]]
    BY <1>1, Ending DEF IInv, ReadMsg1Fails, Strike
  <2> QED
    BY <1>1, <2>1, <2>2, Moving, Stays DEF IInv
<1>8. ResponderDuty(k, Idle, 0, s, z, b)
  <2>1. \A e : e = Idle => ResponderCall(e)'
    BY <1>6 DEF ResponderCall, Opening
  <2> QED
    BY <1>1, <1>3, <1>4, <1>5, <1>6, <2>1 DEF ResponderDuty
<1>9. Writing /\ mixed' = mixed
  BY DEF Writing, ReadMsg1Fails
<1>10. DoneInv'
  BY <1>7, <1>9, DoneKept
<1> QED
  BY <1>3, <1>4, <1>6, <1>7, <1>8, <1>9, <1>10, ResponderStep

LEMMA ReadMsg3Step ==
    ASSUME IInv, Tallied, NEW k \in Slot, ReadMsg3(k)
    PROVE  IInv'
<1> DEFINE s == sym["responder"]
           z == session["responder"]
           b == built["responder"]
<1>1. "responder" \in Role /\ idx["responder"] = 2
  BY DEF Role, ReadMsg3, Reads
<1>2. PICK m \in Received("responder") :
          call' = [call EXCEPT !["responder"][k] =
                     [pc |-> "openS", msg |-> m, under |-> s, part |-> Nothing]]
  BY DEF ReadMsg3
<1> DEFINE c == [pc |-> "openS", msg |-> m, under |-> s, part |-> Nothing]
<1>3. IsState(s) /\ Len(s) \in Nat /\ Begins(s, s) /\ z = NoState /\ b = 0
  BY <1>1, Facts DEF IInv, ResponderInv
<1>4. IsCall(c) /\ c.pc = "openS" /\ c.under = s /\ c.msg = m
  BY <1>3 DEF IsCall, Pc
<1>5. call' = [call EXCEPT !["responder"] = [@ EXCEPT ![k] = c]]
  BY <1>2
<1> HIDE DEF c
<1>6. Moved("responder", k, c, 2, s, z, b)
  <2>1. idx' = [idx EXCEPT !["responder"] = 2] /\ session' = session /\ built' = built /\ sym' = sym
    BY <1>1, Stays DEF ReadMsg3, IInv
  <2> QED
    BY <1>1, <1>5, <2>1, Moving, Stays DEF IInv
<1>7. idx'["responder"] = 2 /\ sym'["responder"] = s
  BY <1>6 DEF Moved
<1>8. ResponderDuty(k, c, 2, s, z, b)
  <2>1. ASSUME NEW e, e = c
        PROVE  ResponderCall(e)'
    BY <1>3, <1>4, <1>7, <2>1 DEF ResponderCall, Opening
  <2>2. ~Answering(c)
    BY <1>4 DEF Answering
  <2> QED
    BY <1>1, <1>3, <1>4, <2>1, <2>2 DEF ResponderDuty
<1>9. \E w \in FrameTo("responder") : From(c.msg, w)
  BY <1>1, <1>4, ReceivedFrom DEF IInv
<1>10. Writing /\ mixed' = mixed
  BY DEF Writing, ReadMsg3
<1>11. DoneInv'
  BY <1>6, <1>10, DoneKept
<1> QED
  BY <1>3, <1>4, <1>6, <1>8, <1>9, <1>10, <1>11, ResponderStep

\* What opens at the responder is of a msg-3, and its writer is done.
LEMMA StaticOfMsg3 ==
    ASSUME IInv, NEW k \in Slot, call["responder"][k].pc = "openS",
           Opens(call["responder"][k].msg.s, call["responder"][k].under)
    PROVE  /\ idx["initiator"] = 3
           /\ Len(sym["initiator"]) = Len(call["responder"][k].under) + 2
<1> DEFINE d == call["responder"][k]
<1>1. "responder" \in Role
  BY DEF Role
<1>2. IsState(d.under) /\ Len(d.under) \in Nat
  BY <1>1, Facts
<1>3. PICK w \in FrameTo("responder") : From(d.msg, w)
  BY <1>1 DEF IInv, ReadInv, Opening
<1>4. w.s = Sealed(d.under) /\ w.type # 2 /\ Written(w)
  BY <1>3, Items DEF From, Opens, FrameTo, IInv, WireInv
<1>5. w # Msg1
  BY <1>4, FramePart, Items DEF Msg1
<1>6. PICK u : /\ IsState(u) /\ w.s = Sealed(u)
               /\ sym["initiator"] = Append(Append(u, w.s), w.p) /\ idx["initiator"] = 3
  BY <1>4, <1>5 DEF Written
<1>7. u = d.under
  BY <1>4, <1>6, Items
<1>8. IsState(Append(u, w.s)) /\ Len(Append(u, w.s)) = Len(u) + 1
  BY <1>6, Appended
<1>9. Len(sym["initiator"]) = Len(Append(u, w.s)) + 1
  BY <1>6, <1>8, Appended
<1> QED
  BY <1>2, <1>6, <1>7, <1>8, <1>9

LEMMA PayloadOfMsg3 ==
    ASSUME IInv, NEW k \in Slot, call["responder"][k].pc = "openP",
           Opens(call["responder"][k].msg.p, call["responder"][k].under)
    PROVE  /\ idx["initiator"] = 3
           /\ sym["initiator"] = Append(call["responder"][k].under, call["responder"][k].msg.p)
<1> DEFINE d == call["responder"][k]
<1>1. "responder" \in Role
  BY DEF Role
<1>2. PICK w \in FrameTo("responder") : From(d.msg, w)
  BY <1>1 DEF IInv, ReadInv, Opening
<1>3. w.p = Sealed(d.under) /\ w.p = d.msg.p /\ w.type # 2 /\ Written(w)
  BY <1>2, Items DEF From, Opens, FrameTo, IInv, WireInv
<1>4. w # Msg1
  <2>1. Msg1.p = K1
    BY FramePart DEF Msg1
  <2>2. w.p # K1
    BY <1>3, Items
  <2> QED
    BY <2>1, <2>2
<1>5. PICK u : /\ w.p = Sealed(Append(u, w.s))
               /\ sym["initiator"] = Append(Append(u, w.s), w.p) /\ idx["initiator"] = 3
  BY <1>3, <1>4 DEF Written
<1>6. Append(u, w.s) = d.under
  BY <1>3, <1>5, Items
<1> QED
  BY <1>3, <1>5, <1>6

LEMMA OpenStaticR ==
    ASSUME IInv, Tallied, NEW k \in Slot, OpenStatic("responder", k)
    PROVE  IInv'
<1> DEFINE d == call["responder"][k]
           t == sym["responder"]
           z == session["responder"]
           b == built["responder"]
           i == idx["responder"]
           s == Append(t, d.msg.s)
           c == [pc |-> "openP", msg |-> d.msg, under |-> s, part |-> d.part]
<1>1. "responder" \in Role /\ d.pc = "openS" /\ Mix("responder", d.under, d.msg.s)
  BY DEF Role, OpenStatic
<1>2. idx["initiator"] = 3 /\ Len(sym["initiator"]) = Len(d.under) + 2
  BY StaticOfMsg3 DEF OpenStatic
<1>3. /\ IsState(t) /\ Len(t) \in Nat /\ b \in 0 .. 2 /\ i \in 2 .. 3
      /\ Len(d.under) \in Nat /\ (i # 3 => z = NoState /\ b = 0)
  BY <1>1, Facts DEF IInv, ResponderInv, ResponderCall, Opening
<1>4. /\ IsState(s) /\ Len(s) = Len(t) + 1 /\ Begins(t, s) /\ Begins(s, s)
      /\ \A j \in 1 .. Len(t) : s[j] = t[j]
  BY <1>3, Appended, BeginsOrder
<1>5. /\ sym' = [sym EXCEPT !["responder"] = s] /\ sym'["responder"] = s
      /\ "responder" \notin mixed' => t = d.under
  BY <1>1, Mixing DEF IInv
<1>6. call' = [call EXCEPT !["responder"] = [@ EXCEPT ![k] = c]] /\ IsCall(c)
  <2>1. Goes("responder", k, "openP", s)
    BY <1>5 DEF OpenStatic
  <2> HIDE DEF s
  <2> QED
    BY <1>1, <1>4, <2>1, Going DEF IInv, Pc
<1>7. c.pc = "openP" /\ c.under = s /\ c.msg = d.msg
  OBVIOUS
<1> HIDE DEF c, s
<1>8. Moved("responder", k, c, i, s, z, b)
  <2>1. idx' = idx /\ session' = session /\ built' = built
    BY DEF OpenStatic
  <2> QED
    BY <1>1, <1>5, <1>6, <2>1, Moving, Stays DEF IInv
<1>9. /\ idx'["responder"] = i /\ session'["responder"] = z /\ built'["responder"] = b
      /\ call'["responder"][k] = c
      /\ \A j \in Slot \ {k} : call'["responder"][j] = call["responder"][j]
      /\ idx'["initiator"] = idx["initiator"] /\ sym'["initiator"] = sym["initiator"]
  BY <1>8 DEF Moved, Role
<1>10. ResponderDuty(k, c, i, s, z, b)
  <2>1. ASSUME NEW e, e = c
        PROVE  ResponderCall(e)'
    BY <1>3, <1>4, <1>5, <1>7, <1>9, <2>1 DEF ResponderCall, Opening
  <2>2. ~Answering(c)
    BY <1>7 DEF Answering
  <2> QED
    BY <1>3, <1>4, <1>7, <2>1, <2>2 DEF ResponderDuty
<1>11. \E w \in FrameTo("responder") : From(c.msg, w)
  BY <1>1, <1>7 DEF IInv, ReadInv, Opening
<1>12. Writing
  BY DEF Writing, OpenStatic
\* A static part that opens once the handshake is complete was read before, and
\* the state has moved since.
<1>13. DoneInv'
  <2> DEFINE y == sym["initiator"]
  <2> SUFFICES ASSUME i = 3
               PROVE  DoneInv'
    BY <1>9 DEF DoneInv
  <2>1. DoneInv /\ i = 3
    BY DEF IInv
  <2>2. AllButLast(y, t) /\ AllButLast(y, z) /\ Len(y) \in Nat
    BY <1>2, <1>3, <2>1 DEF DoneInv
  <2>3. AllButLast(y, s)
    BY <1>3, <1>4, <2>2 DEF AllButLast
  <2>4. "responder" \in mixed'
    BY <1>2, <1>3, <1>5, <2>2 DEF AllButLast
  <2>5. Len(s) # Len(y) - 1
    BY <1>3, <1>4, <2>2 DEF AllButLast
  <2>6. \A j \in Slot : call'["responder"][j].pc = "sending" => b = 1
    BY <1>7, <1>9, <2>1 DEF DoneInv
  <2>7. \A j \in Slot : call'["responder"][j].pc = "openP" => Len(call'["responder"][j].under) # Len(y) - 1
    BY <1>7, <1>9, <2>1, <2>5 DEF DoneInv
  <2>8. b >= 1
    BY <2>1 DEF DoneInv
  <2> QED
    BY <1>2, <1>5, <1>9, <2>2, <2>3, <2>4, <2>6, <2>7, <2>8 DEF DoneInv
<1> QED
  BY <1>3, <1>4, <1>6, <1>8, <1>10, <1>11, <1>12, <1>13, ResponderStep

LEMMA OpenPayloadR ==
    ASSUME IInv, Tallied, NEW k \in Slot, OpenPayload("responder", k)
    PROVE  IInv'
<1> DEFINE d == call["responder"][k]
           t == sym["responder"]
           y == sym["initiator"]
           s == Append(t, d.msg.p)
<1>1. "responder" \in Role /\ d.pc = "openP" /\ Mix("responder", d.under, d.msg.p)
  BY DEF Role, OpenPayload
<1>2. idx["initiator"] = 3 /\ y = Append(d.under, d.msg.p)
  BY PayloadOfMsg3 DEF OpenPayload
<1>3. /\ IsState(t) /\ Len(t) \in Nat /\ idx["responder"] \in 2 .. 3
      /\ IsState(d.under) /\ Len(d.under) \in Nat /\ Begins(d.under, t)
  BY <1>1, Facts DEF IInv, ResponderInv, ResponderCall, Opening
<1>4. Len(y) = Len(d.under) + 1 /\ \A j \in 1 .. Len(d.under) : y[j] = d.under[j]
  BY <1>2, <1>3, Appended
<1>5. idx["responder"] = 2
  BY <1>1, <1>3, <1>4 DEF IInv, DoneInv
<1>6. built["responder"] = 0
  BY <1>5 DEF IInv, ResponderInv
<1>7. /\ IsState(s) /\ Len(s) = Len(t) + 1 /\ Begins(t, s)
      /\ \A j \in 1 .. Len(t) : s[j] = t[j]
  BY <1>3, Appended
<1>8. /\ sym' = [sym EXCEPT !["responder"] = s] /\ sym'["responder"] = s
      /\ "responder" \notin mixed' => t = d.under
  BY <1>1, Mixing DEF IInv
<1>9. "responder" \notin mixed' => s = y
  BY <1>2, <1>8
<1> HIDE DEF s, y
<1>10. IsCall(Idle) /\ ~Opening(Idle) /\ ~Answering(Idle) /\ Idle.pc = "idle"
  BY IdleIsCall DEF Opening, Answering
<1>11. Moved("responder", k, Idle, 3, s, s, 1)
  <2>1. /\ idx' = [idx EXCEPT !["responder"] = 3]
        /\ built' = [built EXCEPT !["responder"] = 1] /\ session' = [session EXCEPT !["responder"] = s]
    BY <1>6, <1>8 DEF OpenPayload, Complete
  <2>2. call' = [call EXCEPT !["responder"] = [@ EXCEPT ![k] = Idle]]
    BY <1>1, Ending DEF IInv, OpenPayload
  <2> QED
    BY <1>1, <1>8, <2>1, <2>2, Moving DEF IInv
<1>12. /\ idx'["responder"] = 3 /\ session'["responder"] = s /\ built'["responder"] = 1
       /\ call'["responder"][k] = Idle
       /\ \A j \in Slot \ {k} : call'["responder"][j] = call["responder"][j]
       /\ idx'["initiator"] = idx["initiator"] /\ sym'["initiator"] = y
  BY <1>11 DEF Moved, Role, y
<1>13. ResponderDuty(k, Idle, 3, s, s, 1)
  <2>1. \A e : e = Idle => ResponderCall(e)'
    BY <1>10 DEF ResponderCall, Opening
  <2> QED
    BY <1>3, <1>5, <1>7, <1>10, <2>1 DEF ResponderDuty
<1>14. Writing
  BY DEF Writing, OpenPayload
<1>15. DoneInv'
  <2>1. AllButLast(y, s)
    BY <1>3, <1>4, <1>7 DEF AllButLast, Begins
  <2>2. ASSUME NEW j \in Slot \ {k}, call["responder"][j].pc = "openP"
        PROVE  Len(call["responder"][j].under) # Len(y) - 1
    BY <1>1, <1>3, <1>4, <2>2 DEF IInv, ResponderInv
  <2>3. \A j \in Slot : call'["responder"][j].pc = "openP" => Len(call'["responder"][j].under) # Len(y) - 1
    BY <1>10, <1>12, <2>2
  <2>4. \A j \in Slot : call'["responder"][j].pc = "sending" => built'["responder"] = 1
    BY <1>12
  <2>5. /\ idx'["initiator"] = 3 /\ sym'["initiator"] = y /\ sym'["responder"] = s
        /\ session'["responder"] = s /\ built'["responder"] = 1
    BY <1>2, <1>8, <1>12
  <2> QED
    BY <1>9, <2>1, <2>3, <2>4, <2>5 DEF DoneInv
<1> QED
  BY <1>7, <1>10, <1>11, <1>13, <1>14, <1>15, ResponderStep

LEMMA SealStaticR ==
    ASSUME IInv, Tallied, NEW k \in Slot, SealStatic("responder", k)
    PROVE  IInv'
<1> DEFINE d == call["responder"][k]
           t == sym["responder"]
           z == session["responder"]
           b == built["responder"]
           p == Sealed(d.under)
           s == Append(t, p)
           c == [pc |-> "sealP", msg |-> d.msg, under |-> s, part |-> p]
<1>1. "responder" \in Role /\ d.pc = "sealS" /\ Mix("responder", d.under, p)
  BY DEF Role, SealStatic
<1>2. /\ IsState(t) /\ Len(t) \in Nat /\ idx["responder"] = 1 /\ d.under = t /\ Good(t)
      /\ z = NoState /\ b = 0
  BY <1>1, Facts DEF IInv, ResponderInv, ResponderCall
<1>3. IsState(s) /\ Begins(t, s)
  BY <1>2, Appended
<1>4. /\ sym' = [sym EXCEPT !["responder"] = s] /\ sym'["responder"] = s /\ mixed' = mixed
  BY <1>1, <1>2, Mixing DEF IInv
<1>5. call' = [call EXCEPT !["responder"] = [@ EXCEPT ![k] = c]] /\ IsCall(c)
  <2>1. call' = [call EXCEPT !["responder"][k].pc = "sealP", !["responder"][k].under = s,
                             !["responder"][k].part = p]
    BY <1>4 DEF SealStatic
  <2> HIDE DEF s, p
  <2> QED
    BY <1>1, <1>3, <2>1, GoingPart DEF IInv
<1>6. c.pc = "sealP" /\ c.under = s /\ c.part = p
  OBVIOUS
<1>7. \E u : Good(u) /\ c.part = Sealed(u) /\ c.under = Append(u, Sealed(u))
  BY <1>2, <1>6
<1> HIDE DEF c, s
<1>8. Moved("responder", k, c, 1, s, z, b)
  <2>1. idx' = [idx EXCEPT !["responder"] = 1] /\ session' = session /\ built' = built
    BY <1>1, <1>2, Stays DEF IInv, SealStatic
  <2> QED
    BY <1>1, <1>4, <1>5, <2>1, Moving, Stays DEF IInv
<1>9. idx'["responder"] = 1
  BY <1>8 DEF Moved
<1>10. ResponderDuty(k, c, 1, s, z, b)
  <2>1. ASSUME NEW e, e = c
        PROVE  ResponderCall(e)'
    <3>1. e.pc = "sealP" /\ e.under = s
      BY <1>6, <2>1
    <3>2. \E u : Good(u) /\ e.part = Sealed(u) /\ e.under = Append(u, Sealed(u))
      BY <1>7, <2>1
    <3> QED
      BY <1>4, <1>9, <3>1, <3>2 DEF ResponderCall, Opening, Good
  <2>2. Answering(d) /\ c.pc # "openP"
    BY <1>1, <1>6 DEF Answering
  <2> QED
    BY <1>2, <1>3, <2>1, <2>2 DEF ResponderDuty
<1>11. Writing /\ ~Opening(c)
  BY <1>6 DEF Writing, SealStatic, Opening
<1>12. DoneInv'
  BY <1>4, <1>8, DoneKept
<1> QED
  BY <1>2, <1>3, <1>5, <1>8, <1>10, <1>11, <1>12, ResponderStep

LEMMA SealPayloadR ==
    ASSUME IInv, Tallied, NEW k \in Slot, SealPayload("responder", k)
    PROVE  IInv'
<1> DEFINE d == call["responder"][k]
           t == sym["responder"]
           z == session["responder"]
           b == built["responder"]
           p == Sealed(d.under)
           s == Append(t, p)
           w == Frame(2, E2, d.part, p)
           c == [pc |-> "sending", msg |-> d.msg, under |-> s, part |-> d.part]
<1>1. "responder" \in Role /\ d.pc = "sealP" /\ Mix("responder", d.under, p)
  BY DEF Role, SealPayload
<1>2. /\ IsState(t) /\ Len(t) \in Nat /\ idx["responder"] = 1 /\ d.under = t
      /\ z = NoState /\ b = 0
  BY <1>1, Facts DEF IInv, ResponderInv, ResponderCall
<1>3. PICK u : Good(u) /\ d.part = Sealed(u) /\ d.under = Append(u, Sealed(u))
  BY <1>1 DEF IInv, ResponderInv, ResponderCall
<1>4. IsState(s) /\ Begins(t, s)
  BY <1>2, Appended
<1>5. /\ sym' = [sym EXCEPT !["responder"] = s] /\ sym'["responder"] = s /\ mixed' = mixed
  BY <1>1, <1>2, Mixing DEF IInv
<1>6. call' = [call EXCEPT !["responder"] = [@ EXCEPT ![k] = c]] /\ IsCall(c)
  <2>1. Goes("responder", k, "sending", s)
    BY <1>5 DEF SealPayload
  <2> HIDE DEF s
  <2> QED
    BY <1>1, <1>4, <2>1, Going DEF IInv, Pc
<1>7. c.pc = "sending"
  OBVIOUS
<1> HIDE DEF c, s
<1>8. Moved("responder", k, c, 2, s, z, b)
  <2>1. idx' = [idx EXCEPT !["responder"] = 2] /\ session' = session /\ built' = built
    BY <1>2 DEF SealPayload
  <2> QED
    BY <1>1, <1>5, <1>6, <2>1, Moving, Stays DEF IInv
<1>9. idx'["responder"] = 2
  BY <1>8 DEF Moved
<1>10. Writing
  <2>1. wire \subseteq wire' /\ wire' \subseteq wire \cup {w}
    BY DEF SealPayload
  <2>2. /\ IsFrame(w) /\ w.type = 2 /\ w.s = Sealed(u) /\ w.p = Sealed(Append(u, Sealed(u)))
    BY <1>3, FramePart
  <2> HIDE DEF w, p
  <2>3. ASSUME NEW v, v = w
        PROVE  Written(v)'
    BY <1>3, <1>9, <2>2, <2>3 DEF Written, IsFrame, Good
  <2> QED
    BY <2>1, <2>3 DEF Writing
<1>11. ResponderDuty(k, c, 2, s, z, b)
  <2>1. \A e : e = c => ResponderCall(e)'
    BY <1>7, <1>9 DEF ResponderCall, Opening
  <2>2. Answering(d) /\ c.pc # "openP"
    BY <1>1, <1>7 DEF Answering
  <2> QED
    BY <1>2, <1>4, <2>1, <2>2 DEF ResponderDuty
<1>12. DoneInv' /\ ~Opening(c)
  BY <1>5, <1>7, <1>8, DoneKept DEF Opening
<1> QED
  BY <1>2, <1>4, <1>6, <1>8, <1>10, <1>11, <1>12, ResponderStep

LEMMA SentR ==
    ASSUME IInv, Tallied, NEW k \in Slot, Sent("responder", k), idx["responder"] = 3
    PROVE  IInv'
<1> DEFINE d == call["responder"][k]
           s == sym["responder"]
           y == sym["initiator"]
<1>1. "responder" \in Role /\ d.pc = "sending" /\ DoneInv
  BY DEF Role, Sent, IInv
<1>2. IsState(s) /\ Len(s) \in Nat /\ Begins(s, s) /\ built["responder"] = 1
  BY <1>1, Facts DEF DoneInv
<1>3. IsCall(Idle) /\ ~Opening(Idle) /\ ~Answering(Idle) /\ Idle.pc = "idle"
  BY IdleIsCall DEF Opening, Answering
<1>4. Moved("responder", k, Idle, 3, s, s, 2)
  <2>1. /\ idx' = [idx EXCEPT !["responder"] = 3] /\ sym' = sym
        /\ built' = [built EXCEPT !["responder"] = 2] /\ session' = [session EXCEPT !["responder"] = s]
    BY <1>1, <1>2, Stays DEF Sent, Complete, IInv
  <2>2. call' = [call EXCEPT !["responder"] = [@ EXCEPT ![k] = Idle]]
    BY <1>1, Ending DEF IInv, Sent
  <2> QED
    BY <1>1, <2>1, <2>2, Moving, Stays DEF IInv
<1>5. /\ idx'["responder"] = 3 /\ session'["responder"] = s /\ built'["responder"] = 2
      /\ sym'["responder"] = s /\ call'["responder"][k] = Idle
      /\ \A j \in Slot \ {k} : call'["responder"][j] = call["responder"][j]
      /\ idx'["initiator"] = idx["initiator"] /\ sym'["initiator"] = y
  BY <1>4 DEF Moved, Role
<1>6. ResponderDuty(k, Idle, 3, s, s, 2)
  <2>1. \A e : e = Idle => ResponderCall(e)'
    BY <1>3 DEF ResponderCall, Opening
  <2> QED
    BY <1>2, <1>3, <2>1 DEF ResponderDuty
<1>7. Writing /\ mixed' = mixed
  BY DEF Writing, Sent
\* The write that returned was the only one.
<1>8. DoneInv'
  <2>1. \A j \in Slot : call'["responder"][j].pc # "sending"
    <3>1. \A j \in Slot \ {k} : ~Answering(call["responder"][j])
      BY <1>1 DEF IInv, ResponderInv, Answering
    <3> QED
      BY <1>3, <1>5, <3>1 DEF Answering
  <2>2. \A j \in Slot : call'["responder"][j].pc = "openP" => Len(call'["responder"][j].under) # Len(y) - 1
    BY <1>1, <1>3, <1>5 DEF DoneInv
  <2>3. /\ idx["initiator"] = 3 /\ AllButLast(y, s)
        /\ "responder" \notin mixed => s = y
    BY <1>1 DEF DoneInv
  <2> HIDE DEF s, y
  <2> QED
    BY <1>5, <1>7, <2>1, <2>2, <2>3 DEF DoneInv
<1> QED
  BY <1>2, <1>3, <1>4, <1>6, <1>7, <1>8, ResponderStep

-----------------------------------------------------------------------------
(* The invariant *)

LEMMA Start ==
    ASSUME Init
    PROVE  IInv
<1> USE DEF Init
<1>1. IsCall(Idle) /\ Idle.pc = "idle" /\ IsState(NoState) /\ HandshakeAssumption
  BY IdleIsCall, Items, HandshakeAssumption
<1>2. \A r \in Role : \A k \in Slot : call[r][k] = Idle
  OBVIOUS
<1>3. "initiator" \in Role /\ "responder" \in Role
  BY DEF Role
<1>4. TypeInv
  BY <1>1, <1>2 DEF TypeInv, HandshakeAssumption
<1>5. WireInv /\ ReadInv
  BY <1>1, <1>2 DEF WireInv, ReadInv, Opening
<1>6. InitiatorInv
  BY <1>1, <1>2, <1>3 DEF InitiatorInv, InitiatorCall, Leading, Opening
<1>7. ResponderInv
  BY <1>1, <1>2, <1>3 DEF ResponderInv, ResponderCall, Answering, Opening
<1>8. DoneInv
  BY <1>3 DEF DoneInv
<1> QED
  BY <1>4, <1>5, <1>6, <1>7, <1>8 DEF IInv

LEMMA Stutter ==
    ASSUME IInv, UNCHANGED vars
    PROVE  IInv'
<1> USE DEF vars
<1>1. TypeInv' /\ WireInv' /\ ReadInv'
  BY DEF IInv, TypeInv, WireInv, Written, ReadInv, FrameTo, Opening, IsFrame, Good
<1>2. InitiatorInv' /\ ResponderInv'
  BY InitiatorKept, ResponderKept DEF IInv
<1>3. DoneInv'
  BY DEF IInv, DoneInv
<1> QED
  BY <1>1, <1>2, <1>3 DEF IInv

LEMMA Step ==
    ASSUME IInv, [Next]_vars
    PROVE  IInv'
<1>1. Tallied
  BY Tallies DEF IInv
<1>2. \A r \in Role : r = "initiator" \/ r = "responder"
  BY DEF Role
<1>3. ASSUME NEW k \in Slot, WriteMsg1(k)
      PROVE  IInv'
  BY <1>1, <1>3, WriteMsg1Step
<1>4. ASSUME NEW k \in Slot, Msg1Sent(k)
      PROVE  IInv'
  BY <1>4, QuietSteps DEF Role
<1>5. ASSUME NEW k \in Slot, ReadMsg1(k)
      PROVE  IInv'
  BY <1>1, <1>5, ReadMsg1Step
<1>6. ASSUME NEW k \in Slot, ReadMsg1Fails(k)
      PROVE  IInv'
  BY <1>1, <1>6, ReadMsg1FailsStep
<1>7. ASSUME NEW k \in Slot, ReadMsg2(k)
      PROVE  IInv'
  BY <1>1, <1>7, ReadMsg2Step
<1>8. ASSUME NEW k \in Slot, ReadMsg3(k)
      PROVE  IInv'
  BY <1>1, <1>8, ReadMsg3Step
<1>9. ASSUME NEW r \in Role, NEW k \in Slot, OutOfState(r, k) \/ OpenFails(r, k) \/ WriteFails(r, k)
      PROVE  IInv'
  BY <1>9, QuietSteps
<1>10. ASSUME NEW r \in Role, NEW k \in Slot, OpenStatic(r, k)
       PROVE  IInv'
  BY <1>1, <1>2, <1>10, OpenStaticI, OpenStaticR
<1>11. ASSUME NEW r \in Role, NEW k \in Slot, OpenPayload(r, k)
       PROVE  IInv'
  BY <1>1, <1>2, <1>11, OpenPayloadI, OpenPayloadR
<1>12. ASSUME NEW r \in Role, NEW k \in Slot, SealStatic(r, k)
       PROVE  IInv'
  BY <1>1, <1>2, <1>12, SealStaticI, SealStaticR
<1>13. ASSUME NEW r \in Role, NEW k \in Slot, SealPayload(r, k)
       PROVE  IInv'
  BY <1>1, <1>2, <1>13, SealPayloadI, SealPayloadR
<1>14. ASSUME NEW r \in Role, NEW k \in Slot, Sent(r, k)
       PROVE  IInv'
  BY <1>1, <1>2, <1>14, SentI, SentR, QuietSteps
<1>15. CASE UNCHANGED vars
  BY <1>15, Stutter
<1> QED
  BY <1>3, <1>4, <1>5, <1>6, <1>7, <1>8, <1>9, <1>10, <1>11, <1>12, <1>13, <1>14, <1>15 DEF Next

LEMMA Invariant == Spec => []IInv
<1>1. Init => IInv
  BY Start
<1>2. IInv /\ [Next]_vars => IInv'
  BY Step
<1> QED
  BY <1>1, <1>2, PTL DEF Spec

-----------------------------------------------------------------------------
(* Theorems *)

\* The variables of both ends hold values of their types, whatever calls of
\* advanceHandshake overlap; a node has session keys only with its handshake
\* complete (split of noise-xx.ts).
THEOREM TypeCorrect == Spec => []TypeOK
<1>1. IInv => TypeOK
  <2> SUFFICES ASSUME IInv
               PROVE  TypeOK
    OBVIOUS
  <2>1. \A r \in Role : DOMAIN sym[r] = 1 .. Len(sym[r])
    BY Appended DEF IInv, TypeInv
  <2>2. \A m \in wire : m.type \in 1 .. 3
    BY FramePart DEF IInv, WireInv, Written, Msg1
  <2>3. \A r \in Role : \A k \in Slot : call[r][k].pc \in Pc
    BY DEF IInv, TypeInv, IsCall
  <2>4. \A r \in Role : session[r] # NoState => idx[r] = 3
    BY DEF IInv, InitiatorInv, ResponderInv, Role
  <2> QED
    BY <2>1, <2>2, <2>3, <2>4 DEF TypeOK, IInv, TypeInv
<1> QED
  BY <1>1, Invariant, PTL

\* What both ends hold when both have a session.
LEMMA BothDone ==
    ASSUME IInv, session["responder"] # NoState
    PROVE  /\ idx["initiator"] = 3 /\ idx["responder"] = 3
           /\ SameParts(sym["initiator"], session["responder"])
           /\ "responder" \notin mixed => sym["initiator"] = session["responder"]
<1>1. idx["responder"] = 3
  BY DEF IInv, ResponderInv
<1>2. /\ idx["initiator"] = 3
      /\ AllButLast(sym["initiator"], session["responder"])
      /\ "responder" \notin mixed => sym["initiator"] = session["responder"]
  BY <1>1 DEF IInv, DoneInv
<1>3. Len(sym["initiator"]) >= 7
  BY <1>2 DEF IInv, InitiatorInv
<1>4. IsState(sym["initiator"])
  BY DEF IInv, TypeInv, Role
<1>5. Len(sym["initiator"]) \in Nat
  BY <1>4, Appended
<1> QED
  BY <1>1, <1>2, <1>3, <1>5 DEF SameParts, AllButLast

\* Two nodes that completed one handshake used the same keys and ciphertexts in
\* it, however the link treated the frames and however the reads overlapped;
\* their session keys and SAS are the same unless two reads of msg-3 mixed into
\* the responder's state (readMsg3, split).
THEOREM Agreement == Spec => []KeysAgree
<1>1. IInv => KeysAgree
  BY BothDone DEF KeysAgree, IInv, InitiatorInv
<1> QED
  BY <1>1, Invariant, PTL

\* Neither end finishes alone: the responder only after an initiator that has
\* finished on the same parts, the initiator only on an answer the responder
\* wrote to it (readMsg2, readMsg3).
THEOREM Ordered == Spec => []FinishOrder
<1>1. IInv => ResponderLast
  BY BothDone DEF ResponderLast
<1>2. IInv => InitiatorAnswered
  BY DEF InitiatorAnswered, IInv, InitiatorInv, Answered
<1> QED
  BY <1>1, <1>2, Invariant, PTL DEF FinishOrder

\* Steps that neither end a handshake nor return from its last write.
LEMMA Untouched ==
    ASSUME IInv, Next, NEW r \in Role, built'[r] # built[r] \/ session'[r] # session[r]
    PROVE  \E k \in Slot : \/ OpenPayload("responder", k) /\ r = "responder"
                           \/ Sent(r, k) /\ idx[r] = 3
<1>1. ASSUME UNCHANGED <<built, session>>
      PROVE  FALSE
  BY <1>1
<1>2. ASSUME NEW q \in Role, NEW final, Complete(q, final), q # r
      PROVE  FALSE
  BY <1>2 DEF Complete, IInv, TypeInv
<1>3. ASSUME NEW q \in Role, NEW k \in Slot, OpenPayload(q, k)
      PROVE  q = "responder" /\ q = r
  BY <1>1, <1>2, <1>3 DEF OpenPayload, Role
<1>4. ASSUME NEW q \in Role, NEW k \in Slot, Sent(q, k)
      PROVE  q = r /\ idx[q] = 3
  BY <1>1, <1>2, <1>4 DEF Sent
<1>5. \A k \in Slot : ~(WriteMsg1(k) \/ Msg1Sent(k) \/ ReadMsg1(k) \/ ReadMsg1Fails(k) \/ ReadMsg2(k)
                        \/ ReadMsg3(k))
  BY <1>1 DEF WriteMsg1, Msg1Sent, ReadMsg1, ReadMsg1Fails, ReadMsg2, ReadMsg3
<1>6. \A q \in Role : \A k \in Slot : ~(OutOfState(q, k) \/ OpenStatic(q, k) \/ OpenFails(q, k))
  BY <1>1 DEF OutOfState, OpenStatic, OpenFails
<1>7. \A q \in Role : \A k \in Slot : ~(SealStatic(q, k) \/ SealPayload(q, k) \/ WriteFails(q, k))
  BY <1>1 DEF SealStatic, SealPayload, WriteFails
<1>8. \E q \in Role : \E k \in Slot : OpenPayload(q, k) \/ Sent(q, k)
  BY <1>5, <1>6, <1>7 DEF Next
<1> QED
  BY <1>3, <1>4, <1>8

\* What an arriving frame changes once the handshake is complete: nothing.
LEMMA ArrivesLate ==
    ASSUME IInv, Next, NEW r \in Role, idx[r] = 3, HandedTo(r)
    PROVE  UNCHANGED <<idx, sym, call, strikes, verdict>>
<1>1. ~Reads(r)
  BY DEF Reads
<1>2. ASSUME NEW q \in Role, NEW k \in Slot, NEW m, Arrives(q, k, m)
      PROVE  q = r
  BY <1>2 DEF Arrives, HandedTo, IInv, TypeInv
<1>3. handed' # handed
  BY DEF HandedTo
<1>4. \A k \in Slot : ~(WriteMsg1(k) \/ Msg1Sent(k) \/ ReadMsg1(k) \/ ReadMsg1Fails(k) \/ ReadMsg2(k)
                        \/ ReadMsg3(k))
  BY <1>1, <1>2, <1>3 DEF WriteMsg1, Msg1Sent, ReadMsg1, ReadMsg1Fails, ReadMsg2, ReadMsg3, Role
<1>5. \A q \in Role : \A k \in Slot : ~(OpenStatic(q, k) \/ OpenPayload(q, k) \/ OpenFails(q, k)
                        \/ SealStatic(q, k) \/ SealPayload(q, k) \/ Sent(q, k) \/ WriteFails(q, k))
  BY <1>3 DEF OpenStatic, OpenPayload, OpenFails, SealStatic, SealPayload, Sent, WriteFails
<1>6. PICK q \in Role, k \in Slot : OutOfState(q, k)
  BY <1>4, <1>5 DEF Next
<1> QED
  BY <1>6 DEF OutOfState

\* A complete responder never completes on a msg-3 again: no payload opens.
LEMMA NoSecondMsg3 ==
    ASSUME IInv, idx["responder"] = 3, NEW k \in Slot
    PROVE  ~OpenPayload("responder", k)
<1> SUFFICES ASSUME OpenPayload("responder", k)
             PROVE  FALSE
  OBVIOUS
<1> DEFINE u == call["responder"][k].under
<1>1. sym["initiator"] = Append(u, call["responder"][k].msg.p)
  BY PayloadOfMsg3 DEF OpenPayload
<1>2. IsState(u) /\ Len(u) \in Nat
  BY Facts DEF Role
<1>3. Len(sym["initiator"]) = Len(u) + 1
  BY <1>1, <1>2, Appended
<1>4. Len(u) # Len(sym["initiator"]) - 1
  BY DEF IInv, DoneInv, OpenPayload
<1> QED
  BY <1>2, <1>3, <1>4

\* Once a node has a session an arriving frame of the handshake changes nothing;
\* the one thing that may come is the return of the responder's write of msg-2,
\* which makes its RatchetSession a second time, and of other keys only if reads
\* of msg-3 overlapped (transport.ts:918-934).
THEOREM Settled == Spec => SessionSafe
<1> DEFINE Safe(r) ==
       session[r] # NoState
         => /\ HandedTo(r) => /\ idx'[r] = idx[r] /\ sym'[r] = sym[r] /\ call'[r] = call[r]
                              /\ strikes'[r] = strikes[r] /\ verdict'[r] = verdict[r]
            /\ built'[r] # built[r] => /\ r = "responder" /\ built[r] = 1
                                       /\ \E k \in Slot : /\ call[r][k].pc = "sending"
                                                          /\ call'[r][k] = Idle
            /\ session'[r] # session[r] => built'[r] # built[r] /\ r \in mixed
<1>1. ASSUME IInv, Next, NEW r \in Role, session[r] # NoState
      PROVE  Safe(r)
  <2>1. idx[r] = 3
    BY <1>1 DEF IInv, InitiatorInv, ResponderInv, Role
  <2>2. HandedTo(r) => /\ idx'[r] = idx[r] /\ sym'[r] = sym[r] /\ call'[r] = call[r]
                       /\ strikes'[r] = strikes[r] /\ verdict'[r] = verdict[r]
    BY <1>1, <2>1, ArrivesLate
  <2>3. ASSUME built'[r] # built[r] \/ session'[r] # session[r]
        PROVE  /\ built'[r] # built[r] /\ r = "responder" /\ built[r] = 1
               /\ \E k \in Slot : call[r][k].pc = "sending" /\ call'[r][k] = Idle
               /\ session'[r] # session[r] => r \in mixed
    <3>1. PICK k \in Slot : Sent(r, k)
      BY <1>1, <2>1, <2>3, Untouched, NoSecondMsg3
    <3>2. r = "responder"
      BY <1>1, <3>1 DEF Sent, IInv, InitiatorInv, InitiatorCall, Role
    <3>3. DoneInv /\ built[r] = 1
      BY <1>1, <2>1, <3>1, <3>2 DEF IInv, DoneInv, Sent
    <3>4. built'[r] = 2 /\ session'[r] = sym[r]
      BY <1>1, <2>1, <3>1, <3>3 DEF Sent, Complete, IInv, TypeInv
    <3>5. call'[r][k] = Idle
      BY <1>1, <3>1, Ending, Calling DEF IInv, Sent
    <3>6. r \notin mixed => sym[r] = session[r]
      BY <2>1, <3>2, <3>3 DEF DoneInv
    <3> QED
      BY <3>1, <3>2, <3>3, <3>4, <3>5, <3>6 DEF Sent
  <2> QED
    BY <2>2, <2>3
<1>2. IInv /\ Next => \A r \in Role : Safe(r)
  BY <1>1
<1>3. IInv /\ [Next]_vars => [\A r \in Role : Safe(r)]_vars
  BY <1>2
<1>4. [][\A r \in Role : Safe(r)]_vars => SessionSafe
  BY DEF SessionSafe
<1> QED
  BY <1>3, <1>4, Invariant, PTL DEF Spec
=============================================================================
