-------------------------- MODULE MCUploadSessions --------------------------
(* Instances of UploadSessions for TLC.                                    *)
EXTENDS UploadSessions

(* Two files of one recording, the others of recordings of their own.      *)
OneRecording == [u \in Uploads |-> "r"]
(* Each upload comes with hotwords of its own, or with none.               *)
OwnHotwords  == [u \in Uploads |-> u]
Lists        == Uploads \cup {NoHotwords}
=============================================================================
