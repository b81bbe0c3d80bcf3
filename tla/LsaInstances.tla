---------------------------- MODULE LsaInstances ----------------------------
(***************************************************************************)
(* Which of two instances of an LSA is the newer one: their headers' age    *)
(* and sequence number, and how the age of a copy grows in a database.      *)
(* OspfAdjacency and LsaFlooding compare sequence numbers only;             *)
(* LsaFloodingProofs proves when that is what the code does.                *)
(***************************************************************************)
EXTENDS Integers

MaxAge == 3600
MaxAgeDiff == 900

\* Headers of one LSA: the identifiers are equal.
Header == [age : Nat, seq : Int]

Abs(n) == IF n < 0 THEN -n ELSE n

IsMoreRecentThan(a, b) ==
  \/ a.seq > b.seq
  \/ /\ a.seq = b.seq
     /\ \/ a.age = MaxAge
        \/ b.age # MaxAge /\ Abs(a.age - b.age) > MaxAgeDiff /\ a.age < b.age

IsSameInstance(a, b) == a.seq = b.seq /\ a.age # MaxAge /\ b.age # MaxAge

\* The age OSPFLSDB::Get gives a copy that was added with age "added", "elapsed"
\* seconds ago.
AgeAfter(added, elapsed) ==
  IF elapsed + added < MaxAge THEN elapsed + added ELSE MaxAge

\* AgingBeforeFlooding: the age a copy is sent with has 16 bits.
AgedBy(age, delay) == (age + delay) % 65536
=============================================================================
