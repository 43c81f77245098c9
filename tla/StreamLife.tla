----------------------------- MODULE StreamLife -----------------------------
(***************************************************************************)
(* What the owner of a gRPC client stream promises, whatever it does with  *)
(* it: the stream is opened once, a reader thread runs only while the      *)
(* stream object exists, the stream is cancelled or finished at most once, *)
(* and the object is deleted only after that thread has been joined.       *)
(* Recognize, VoiceBot and Amd are shown to implement it for every stream. *)
(***************************************************************************)
CONSTANT Streams

VARIABLES
  stream,   \* stream[s]: "none", "open", "finishing" or "deleted"
  reader    \* reader[s]: "none", "running" or "exited"

lifeVars == <<stream, reader>>

LifeInit ==
  /\ stream = [s \in Streams |-> "none"]
  /\ reader = [s \in Streams |-> "none"]

\* The first write of the call succeeded.
Open(s) ==
  /\ stream[s] = "none"
  /\ stream' = [stream EXCEPT ![s] = "open"]
  /\ UNCHANGED reader

\* Listen starts the reader thread.
Spawn(s) ==
  /\ stream[s] = "open" /\ reader[s] = "none"
  /\ reader' = [reader EXCEPT ![s] = "running"]
  /\ UNCHANGED stream

\* The reader's loop ends, because of a last reply or of the end of the stream.
Exit(s) ==
  /\ stream[s] \in {"open", "finishing"} /\ reader[s] = "running"
  /\ reader' = [reader EXCEPT ![s] = "exited"]
  /\ UNCHANGED stream

\* One thread enters Finish.
Finish(s) ==
  /\ stream[s] = "open"
  /\ stream' = [stream EXCEPT ![s] = "finishing"]
  /\ UNCHANGED reader

\* Finish has joined the reader and the object is freed.
Delete(s) ==
  /\ stream[s] = "finishing" /\ reader[s] # "running"
  /\ stream' = [stream EXCEPT ![s] = "deleted"]
  /\ UNCHANGED reader

LifeNext ==
  \E s \in Streams : Open(s) \/ Spawn(s) \/ Exit(s) \/ Finish(s) \/ Delete(s)

LifeSpec == LifeInit /\ [][LifeNext]_lifeVars
=============================================================================
