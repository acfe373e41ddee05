----------------------------- MODULE AuditTrail -----------------------------
(***************************************************************************)
(* What an audit trail promises, without devices, failures or restarts: a  *)
(* hash chain that only grows, by one record after another, and answers    *)
(* that are given only for records that are in it.                         *)
(***************************************************************************)
EXTENDS Integers, Sequences

CONSTANT Hashes  \* the hashes a record can have; GENESIS is 0

VARIABLES
  trail,  \* the records, in order
  acked   \* the records somebody was told are stored

TrailRecord(s, p, h) == [kind |-> "record", seq |-> s, prev |-> p, hash |-> h]

HeadHash == IF trail = <<>> THEN 0 ELSE trail[Len(trail)].hash

\* The next record: the next number, and the hash of the one before.
Extend ==
  /\ \E h \in Hashes :
       /\ \A i \in 1..Len(trail) : trail[i].hash # h
       /\ trail' = Append(trail, TrailRecord(Len(trail) + 1, HeadHash, h))
  /\ UNCHANGED acked

\* A record is reported as stored.
Acknowledge ==
  /\ \E i \in 1..Len(trail) : acked' = acked \cup {trail[i]}
  /\ UNCHANGED trail

TrailInit == trail = <<>> /\ acked = {}

TrailNext == Extend \/ Acknowledge

TrailSpec == TrailInit /\ [][TrailNext]_<<trail, acked>>
=============================================================================
