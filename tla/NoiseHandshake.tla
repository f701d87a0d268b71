---------------------------- MODULE NoiseHandshake ----------------------------
(***************************************************************************)
(* One Noise XX handshake between two nodes: the NoiseXxHandshake objects  *)
(* of both (packages/mesh-core/src/crypto/noise-xx.ts), each driven by     *)
(* advanceHandshake() of transport.ts, over a link that loses, repeats,    *)
(* reorders and damages frames.                                            *)
(*                                                                         *)
(* The Noise symmetric state (ck, h, k, n) is represented by the sequence  *)
(* of all that was mixed into it: the DH and ML-KEM secrets mixed along    *)
(* are functions of the keys in that sequence.  A ciphertext is            *)
(* represented by the state it was made under and opens under no other.    *)
(* Session keys and SAS are functions of the final state.                  *)
(*                                                                         *)
(* A call of advanceHandshake suspends in every WebCrypto operation and in *)
(* the writes; the operation works on the state captured at its start.     *)
(***************************************************************************)
EXTENDS Integers, Sequences

CONSTANTS
    Slot,       \* calls of advanceHandshake a node may have suspended together
    MaxFrames,  \* bound: frames handed to a node
    Faults      \* whether the link damages frames, and writes fail

ASSUME HandshakeAssumption ==
    /\ MaxFrames \in Nat
    /\ Faults \in BOOLEAN

Role == {"initiator", "responder"}

VARIABLES
    idx,      \* msgIdx of either node
    sym,      \* what either node has mixed into its symmetric state
    wire,     \* the frames written so far
    call,     \* the calls of advanceHandshake
    strikes,  \* handshakeFailures, counted up to 3
    verdict,  \* the CryptoState's verdict, as far as the handshake sets it
    session,  \* the state session keys and SAS were derived from, or NoState
    built,    \* how many RatchetSession objects were made of it
    handed,   \* how many frames were handed to either node
    mixed     \* history: the nodes one of whose operations went through on a
              \* symmetric state that had moved since it began

vars == <<idx, sym, wire, call, strikes, verdict, session, built, handed, mixed>>

\* Items of a symmetric state, and what a damaged field of a frame holds.
E1 == <<"e1">>
K1 == <<"mlkemKey">>
E2 == <<"e2">>
Bad == <<"bad">>
Sealed(under) == <<"ct", under>>
Nothing == <<>>
NoState == <<>>

\* A frame: its ephemeral key, its static-key part and its payload part.
Frame(type, e, s, p) == [type |-> type, e |-> e, s |-> s, p |-> p]
Msg1 == Frame(1, E1, Nothing, K1)

FrameTo(r) == {m \in wire : m.type = 2 <=> r = "initiator"}

Damaged(m) == {[m EXCEPT !.e = Bad], [m EXCEPT !.s = Bad], [m EXCEPT !.p = Bad]}

Received(r) == FrameTo(r) \cup IF Faults THEN UNION {Damaged(m) : m \in FrameTo(r)} ELSE {}

Idle == [pc |-> "idle", msg |-> Msg1, under |-> NoState, part |-> Nothing]

Pc == {"idle", "opening", "openS", "openP", "sealS", "sealP", "sending"}

TypeOK ==
    /\ idx \in [Role -> 0 .. 3]
    /\ \A r \in Role : DOMAIN sym[r] = 1 .. Len(sym[r])
    /\ \A m \in wire : m.type \in 1 .. 3
    /\ \A r \in Role : \A k \in Slot : call[r][k].pc \in Pc
    /\ strikes \in [Role -> 0 .. 3]
    /\ verdict \in [Role -> {"pending", "rejected"}]
    /\ \A r \in Role : session[r] # NoState => idx[r] = 3
    /\ built \in [Role -> 0 .. 2]
    /\ handed \in [Role -> 0 .. MaxFrames]
    /\ mixed \subseteq Role

-----------------------------------------------------------------------------
(* Helpers *)

OpensUnbound(part, under) == part # Bad /\ part # Nothing

\* AES-GCM with the handshake hash as associated data.
Opens(part, under) == part = Sealed(under)

Goes(r, k, pc, under) ==
    call' = [call EXCEPT ![r][k].pc = pc, ![r][k].under = under]

Ends(r, k) == call' = [call EXCEPT ![r][k] = Idle]

\* An operation begun under the state "under" is done: its item is mixed into
\* whatever the state is by now.
Mix(r, under, item) ==
    /\ sym' = [sym EXCEPT ![r] = Append(@, item)]
    /\ mixed' = IF sym[r] = under THEN mixed ELSE mixed \cup {r}

\* readMessage() throws anything but a NoiseStateError: the third time rejects.
Strike(r, k) ==
    /\ strikes' = [strikes EXCEPT ![r] = IF @ < 3 THEN @ + 1 ELSE @]
    /\ verdict' = [verdict EXCEPT ![r] = IF strikes[r] >= 2 THEN "rejected" ELSE @]
    /\ Ends(r, k)

\* A call that returns with the handshake complete derives keys and SAS of the
\* state as it is then and makes a RatchetSession of them, its counters zero
\* and its window empty, whether or not there is one already.
Complete(r, final) ==
    /\ session' = [session EXCEPT ![r] = final]
    /\ built' = [built EXCEPT ![r] = @ + 1]
    /\ strikes' = [strikes EXCEPT ![r] = 0]

\* What readMessage() takes a frame for depends on msgIdx, not on its type.
ReadsAnyTime(r) == IF r = "initiator" THEN idx[r] \in {1, 2} ELSE idx[r] \in {0, 2, 3}

Reads(r) == IF r = "initiator" THEN idx[r] = 1 ELSE idx[r] \in {0, 2}

-----------------------------------------------------------------------------
(* initiateHandshake(): msg-1 *)

WriteMsg1(k) ==
    /\ idx["initiator"] = 0
    /\ idx' = [idx EXCEPT !["initiator"] = 1]
    /\ sym' = [sym EXCEPT !["initiator"] = <<E1, K1>>]
    /\ wire' \in {wire \cup {Msg1}} \cup IF Faults THEN {wire} ELSE {}
    /\ call' = [call EXCEPT !["initiator"][k] = [Idle EXCEPT !.pc = "opening"]]
    /\ UNCHANGED <<strikes, verdict, session, built, handed, mixed>>

\* The write of msg-1 is done; initiateHandshake() has nothing more to do.
Msg1Sent(k) ==
    /\ call["initiator"][k].pc = "opening"
    /\ Ends("initiator", k)
    /\ UNCHANGED <<idx, sym, wire, strikes, verdict, session, built, handed, mixed>>

-----------------------------------------------------------------------------
(* A frame arrives and advanceHandshake() calls readMessage(); a call that   *)
(* is still suspended does not keep it from doing so                         *)

Arrives(r, k, m) ==
    /\ call[r][k] = Idle
    /\ handed[r] < MaxFrames
    /\ m \in Received(r)
    /\ handed' = [handed EXCEPT ![r] = @ + 1]

\* NoiseStateError: the frame is dropped.
OutOfState(r, k) ==
    /\ \E m \in Received(r) : Arrives(r, k, m)
    /\ ~Reads(r)
    /\ UNCHANGED <<idx, sym, wire, call, strikes, verdict, session, built, mixed>>

\* msg-1 has no ciphertext, so reading it does not suspend; msg-2 is begun.
ReadMsg1(k) ==
    /\ Reads("responder") /\ idx["responder"] = 0
    /\ \E m \in Received("responder") :
         /\ Arrives("responder", k, m)
         /\ sym' = [sym EXCEPT !["responder"] = @ \o <<m.e, m.p, E2>>]
         /\ call' = [call EXCEPT !["responder"][k] =
                       [pc |-> "sealS", msg |-> m, under |-> sym'["responder"], part |-> Nothing]]
    /\ idx' = [idx EXCEPT !["responder"] = 1]
    /\ UNCHANGED <<wire, strikes, verdict, session, built, mixed>>

\* encapsulate() may refuse a damaged ML-KEM key, after it was mixed in.
ReadMsg1Fails(k) ==
    /\ Reads("responder") /\ idx["responder"] = 0
    /\ \E m \in Received("responder") :
         /\ Arrives("responder", k, m)
         /\ m.p = Bad
         /\ sym' = [sym EXCEPT !["responder"] = @ \o <<m.e, m.p>>]
    /\ Strike("responder", k)
    /\ UNCHANGED <<idx, wire, session, built, mixed>>

\* The peer's ephemeral key is mixed in before anything is authenticated.
ReadMsg2(k) ==
    /\ Reads("initiator")
    /\ \E m \in Received("initiator") :
         /\ Arrives("initiator", k, m)
         /\ sym' = [sym EXCEPT !["initiator"] = Append(@, m.e)]
         /\ call' = [call EXCEPT !["initiator"][k] =
                       [pc |-> "openS", msg |-> m, under |-> sym'["initiator"], part |-> Nothing]]
    /\ UNCHANGED <<idx, wire, strikes, verdict, session, built, mixed>>

\* Any frame that arrives at msgIdx 2 is read as msg-3, a repeated msg-1 too.
ReadMsg3(k) ==
    /\ Reads("responder") /\ idx["responder"] # 0
    /\ \E m \in Received("responder") :
         /\ Arrives("responder", k, m)
         /\ call' = [call EXCEPT !["responder"][k] =
                       [pc |-> "openS", msg |-> m, under |-> sym["responder"], part |-> Nothing]]
    /\ UNCHANGED <<idx, sym, wire, strikes, verdict, session, built, mixed>>

-----------------------------------------------------------------------------
(* decryptAndHash() and encryptAndHash() resume *)

\* The static keys open, are mixed in, and the payload is tried.
OpenStatic(r, k) ==
    LET c == call[r][k]
    IN  /\ c.pc = "openS"
        /\ Opens(c.msg.s, c.under)
        /\ Mix(r, c.under, c.msg.s)
        /\ Goes(r, k, "openP", sym'[r])
        /\ UNCHANGED <<idx, wire, strikes, verdict, session, built, handed>>

OpenPayloadUnmixed(r, k) ==
    LET c == call[r][k]
    IN  /\ c.pc = "openP"
        /\ Opens(c.msg.p, c.under)
        /\ IF r = "initiator"
           THEN /\ Mix(r, c.under, c.msg.p)
                /\ idx' = [idx EXCEPT ![r] = 2]
                /\ Goes(r, k, "sealS", sym'[r])
                /\ UNCHANGED <<strikes, session, built>>
           ELSE /\ idx' = [idx EXCEPT ![r] = 3]
                /\ Complete(r, sym[r])
                /\ Ends(r, k)
                /\ UNCHANGED <<sym, mixed>>
        /\ UNCHANGED <<wire, verdict, handed>>

\* The payload opens: the initiator goes on to write msg-3, the responder is
\* done.
OpenPayload(r, k) ==
    LET c == call[r][k]
    IN  /\ c.pc = "openP"
        /\ Opens(c.msg.p, c.under)
        /\ Mix(r, c.under, c.msg.p)
        /\ IF r = "initiator"
           THEN /\ idx' = [idx EXCEPT ![r] = 2]
                /\ Goes(r, k, "sealS", sym'[r])
                /\ UNCHANGED <<strikes, session, built>>
           ELSE /\ idx' = [idx EXCEPT ![r] = 3]
                /\ Complete(r, sym'[r])
                /\ Ends(r, k)
        /\ UNCHANGED <<wire, verdict, handed>>

\* A part that does not open leaves what was mixed in before it.
OpenFails(r, k) ==
    LET c == call[r][k]
    IN  /\ \/ c.pc = "openS" /\ ~Opens(c.msg.s, c.under)
           \/ c.pc = "openP" /\ ~Opens(c.msg.p, c.under)
        /\ Strike(r, k)
        /\ UNCHANGED <<idx, sym, wire, session, built, handed, mixed>>

SealStatic(r, k) ==
    LET c == call[r][k]
    IN  /\ c.pc = "sealS"
        /\ Mix(r, c.under, Sealed(c.under))
        /\ call' = [call EXCEPT ![r][k].pc = "sealP", ![r][k].under = sym'[r],
                                ![r][k].part = Sealed(c.under)]
        /\ UNCHANGED <<idx, wire, strikes, verdict, session, built, handed>>

\* msg-2 or msg-3 is complete and goes to writeRx().
SealPayload(r, k) ==
    LET c == call[r][k]
    IN  /\ c.pc = "sealP"
        /\ Mix(r, c.under, Sealed(c.under))
        /\ idx' = [idx EXCEPT ![r] = @ + 1]
        /\ wire' \in {wire \cup {IF r = "initiator"
                                 THEN Frame(3, Nothing, c.part, Sealed(c.under))
                                 ELSE Frame(2, E2, c.part, Sealed(c.under))}}
                     \cup IF Faults THEN {wire} ELSE {}
        /\ Goes(r, k, "sending", sym'[r])
        /\ UNCHANGED <<strikes, verdict, session, built, handed>>

SentUnchecked(r, k) ==
    /\ call[r][k].pc = "sending"
    /\ Complete(r, sym[r])
    /\ Ends(r, k)
    /\ UNCHANGED <<idx, sym, wire, verdict, handed, mixed>>

\* The writes are done; for the initiator the handshake is complete, and for a
\* responder whose msg-2 was answered meanwhile it has been complete already.
Sent(r, k) ==
    /\ call[r][k].pc = "sending"
    /\ IF idx[r] = 3 THEN Complete(r, sym[r]) ELSE UNCHANGED <<session, built, strikes>>
    /\ Ends(r, k)
    /\ UNCHANGED <<idx, sym, wire, verdict, handed, mixed>>

\* writeMessage() throws, or a write times out, whether or not the peer got the
\* frame.
WriteFails(r, k) ==
    /\ Faults
    /\ call[r][k].pc \in {"opening", "sealS", "sealP", "sending"}
    /\ verdict' = [verdict EXCEPT ![r] = "rejected"]
    /\ Ends(r, k)
    /\ UNCHANGED <<idx, sym, wire, strikes, session, built, handed, mixed>>

-----------------------------------------------------------------------------

Init ==
    /\ idx = [r \in Role |-> 0]
    /\ sym = [r \in Role |-> NoState]
    /\ wire = {}
    /\ call = [r \in Role |-> [k \in Slot |-> Idle]]
    /\ strikes = [r \in Role |-> 0]
    /\ verdict = [r \in Role |-> "pending"]
    /\ session = [r \in Role |-> NoState]
    /\ built = [r \in Role |-> 0]
    /\ handed = [r \in Role |-> 0]
    /\ mixed = {}

Next ==
    \/ \E k \in Slot : \/ WriteMsg1(k) \/ Msg1Sent(k)
                       \/ ReadMsg1(k) \/ ReadMsg1Fails(k) \/ ReadMsg2(k) \/ ReadMsg3(k)
    \/ \E r \in Role : \E k \in Slot :
          \/ OutOfState(r, k)
          \/ OpenStatic(r, k) \/ OpenPayload(r, k) \/ OpenFails(r, k)
          \/ SealStatic(r, k) \/ SealPayload(r, k)
          \/ Sent(r, k) \/ WriteFails(r, k)

Spec == Init /\ [][Next]_vars

-----------------------------------------------------------------------------
(* Properties *)

\* Both ephemeral keys, the ML-KEM key and ciphertext, both static keys.
SameParts(s, t) == \A i \in 1 .. 6 : s[i] = t[i]

\* Two nodes that completed one handshake used the same keys and ciphertexts in
\* it, whatever the link did to the frames; and they hold the same session keys
\* and show the same SAS, unless a second read of msg-3 mixed into the
\* responder's state while the first was half done (readMsg3, split, sas).
KeysAgree ==
    session["initiator"] # NoState /\ session["responder"] # NoState
        => /\ SameParts(session["initiator"], session["responder"])
           /\ "responder" \notin mixed => session["initiator"] = session["responder"]

\* A responder completes only with an initiator that has finished on the same
\* parts; the initiator may still be waiting for its last write then.
ResponderLast ==
    session["responder"] # NoState
        => /\ idx["initiator"] = 3
           /\ SameParts(sym["initiator"], session["responder"])
           /\ "responder" \notin mixed => sym["initiator"] = session["responder"]

\* An initiator that has finished answered the very msg-2 the responder wrote:
\* both saw the same ephemeral and ML-KEM keys, damaged or not.
InitiatorAnswered ==
    idx["initiator"] = 3
        => \E m \in wire : m.type = 2 /\ m.p = Sealed(SubSeq(sym["initiator"], 1, 4))

\* Neither end of a handshake finishes alone, however its reads overlap: the
\* initiator only on an answer the responder wrote, the responder only on one
\* the initiator wrote to it (readMsg2, readMsg3, split).
FinishOrder == ResponderLast /\ InitiatorAnswered

\* A frame of the handshake is handed to node r.
HandedTo(r) == handed'[r] # handed[r]

\* Once a session is derived, a handshake frame that arrives, repeated, late or
\* damaged, changes nothing.  What may still happen is that the write of msg-2
\* returns: it makes the responder's RatchetSession anew, once at most, and of
\* the same keys unless reads of msg-3 overlapped (transport.ts:918-934).
SessionSafe ==
    [][\A r \in Role : session[r] # NoState
          => /\ HandedTo(r) => /\ idx'[r] = idx[r] /\ sym'[r] = sym[r] /\ call'[r] = call[r]
                               /\ strikes'[r] = strikes[r] /\ verdict'[r] = verdict[r]
             /\ built'[r] # built[r] => /\ r = "responder" /\ built[r] = 1
                                        /\ \E k \in Slot : /\ call[r][k].pc = "sending"
                                                           /\ call'[r][k] = Idle
             /\ session'[r] # session[r] => built'[r] # built[r] /\ r \in mixed]_vars

\* "Replayed or reordered chunks must be silently dropped - they are expected in
\* lossy BLE environments and must not permanently DoS the connection"
\* (transport.ts:863): frames the peer wrote, repeated by the link, never
\* get a handshake rejected.
ReplaysDropped ==
    ~Faults => \A r \in Role : verdict[r] = "pending"
=============================================================================
