----------------------------- MODULE LockRecord -----------------------------
(***************************************************************************)
(* What the lock file of a host is to the runs that share it: one record   *)
(* that each request changes in one step.  A run takes the record when     *)
(* nobody else's lease is current, and only its owner removes it.          *)
(***************************************************************************)
EXTENDS Integers

CONSTANTS Run, NoRun, MaxLease

VARIABLES
  record,   \* the holder and the expiry that the file names
  now       \* the clock of the host, in seconds

vars == <<record, now>>

NoRecord == [holder |-> NoRun, expiry |-> 0]

Init == record = NoRecord /\ now = 0

\* acquire, renew and extend
Take(r) ==
  /\ record.holder \in {NoRun, r} \/ record.expiry <= now
  /\ \E expiry \in 0..(now + MaxLease) \cup 0..record.expiry :
       record' = [holder |-> r, expiry |-> expiry]
  /\ UNCHANGED now

\* release and unlock
Drop(r) ==
  /\ record.holder = r
  /\ record' = NoRecord
  /\ UNCHANGED now

Tick == now' = now + 1 /\ UNCHANGED record

Next == Tick \/ \E r \in Run : Take(r) \/ Drop(r)

Spec == Init /\ [][Next]_vars
=============================================================================
