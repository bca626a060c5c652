------------------------------- MODULE SlotPool -------------------------------
(***************************************************************************)
(* What admission control promises: a pool of connection slots.  A client  *)
(* connection holds at most one slot, takes it only while its address and  *)
(* the whole server are below their caps, and gives it back once.          *)
(***************************************************************************)
EXTENDS Naturals, FiniteSets

CONSTANTS Thread, IP, NoIp, MaxPerIp, MaxTotal

VARIABLE owner   \* the address that holds the slot of a thread, or NoIp

Held == {t \in Thread : owner[t] # NoIp}
HeldBy(i) == {t \in Thread : owner[t] = i}

Init == owner = [t \in Thread |-> NoIp]

Acquire(t, i) ==
  /\ owner[t] = NoIp
  /\ Cardinality(Held) < MaxTotal
  /\ Cardinality(HeldBy(i)) < MaxPerIp
  /\ owner' = [owner EXCEPT ![t] = i]

Release(t) ==
  /\ owner[t] # NoIp
  /\ owner' = [owner EXCEPT ![t] = NoIp]

Next == \E t \in Thread : Release(t) \/ \E i \in IP : Acquire(t, i)

Spec == Init /\ [][Next]_owner
=============================================================================
