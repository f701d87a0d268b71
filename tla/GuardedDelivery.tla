-------------------------- MODULE GuardedDelivery --------------------------
(***************************************************************************)
(* What decrypt() promises, without windows, keys or chains: only frames   *)
(* the peer sent are returned, and a call on a frame that was already      *)
(* returned is refused.  The guard is taken when the call starts, the      *)
(* delivery counts when it ends; calls that overlap are not serialised.    *)
(***************************************************************************)
EXTENDS Integers

CONSTANTS MaxCounter, Call

VARIABLES
    sent,       \* counters of the frames the peer has encrypted
    pending,    \* the counter a call has accepted and not returned yet, or -1
    delivered   \* how often each counter was returned

vars == <<sent, pending, delivered>>

Counter == 0 .. MaxCounter

Init ==
    /\ sent = {}
    /\ pending = [k \in Call |-> -1]
    /\ delivered = [c \in Counter |-> 0]

Send(c) ==
    /\ c \notin sent
    /\ sent' = sent \cup {c}
    /\ UNCHANGED <<pending, delivered>>

Accept(k, c) ==
    /\ pending[k] = -1
    /\ c \in sent
    /\ delivered[c] = 0
    /\ pending' = [pending EXCEPT ![k] = c]
    /\ UNCHANGED <<sent, delivered>>

Return(k) ==
    /\ pending[k] \in Counter
    /\ delivered' = [delivered EXCEPT ![pending[k]] = @ + 1]
    /\ pending' = [pending EXCEPT ![k] = -1]
    /\ UNCHANGED sent

Next ==
    \/ \E c \in Counter : Send(c)
    \/ \E k \in Call : Return(k) \/ \E c \in Counter : Accept(k, c)

Spec == Init /\ [][Next]_vars
=============================================================================
