---------------------------- MODULE MCRelayJobs ----------------------------
(* Instances of RelayJobs for TLC.                                         *)
EXTENDS RelayJobs

(* Every audio file is of the same recording, or of one of its own.        *)
SameRecording  == [j \in Jobs |-> "r"]
OwnRecordings  == [j \in Jobs |-> j]
=============================================================================
