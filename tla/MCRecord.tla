------------------------------ MODULE MCRecord ------------------------------
(***************************************************************************)
(* The dump has the devices of UidPatterns, and heartbeats where one of    *)
(* HeartbeatPatterns says so.                                              *)
(***************************************************************************)
EXTENDS Integers, Sequences, FiniteSets

CONSTANTS
  Ids, M, Uids, Dates, Hash, H, None, MaxAsk, RecordFaults,
  UidPatterns, HeartbeatPatterns

ASSUME RecordAssumption ==
  /\ IsFiniteSet(Ids) /\ Dates \subseteq Int /\ M \in Nat \ {0} /\ H \in Nat \ {0}
  /\ Hash \in [Uids -> 0..H-1] /\ None \notin Uids

VARIABLES
  uid, date, heartbeat, dump, read, records, table, asked, answer, asks, unsorted,
  arr, left, right, up, down, pivot, stack, place

Rec == INSTANCE Record
         WITH Faults <- RecordFaults, file <- dump, pc <- place,
              l <- left, r <- right, i <- up, j <- down, k <- pivot

MCHash == [u \in Uids |-> u % H]

\* In the run: rows of one device, of as many as there are rows, and of devices
\* that share buckets; at most one row is no heartbeat.
MCUidPatterns ==
  {<<1, 1, 1, 1, 1>>, <<1, 2, 3, 4, 5>>, <<2, 1, 2, 3, 1>>, <<1, 3, 5, 3, 5>>}
MCHeartbeatPatterns == {[x \in Ids |-> x # y] : y \in {None, 2}}

RecordInit ==
  /\ uid \in UidPatterns
  /\ heartbeat \in HeartbeatPatterns
  /\ Rec!Init
RecordSpec == RecordInit /\ [][Rec!Next]_(Rec!vars)

Sorted == Rec!Sorted
AnswersAll == Rec!AnswersAll
=============================================================================
