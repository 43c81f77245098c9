----------------------------- MODULE MCRecognize -----------------------------
(***************************************************************************)
(* Recognize for TLC.  Start commands are interchangeable, and so are stop *)
(* commands: the specification tells them apart only by identity.          *)
(***************************************************************************)
EXTENDS Recognize, TLC

Symmetry == Permutations(Streams) \cup Permutations(Stops)

\* For the runs about threads: the bot answers with its result and is done.
FinalReplies == {r \in ReplyFlags : r.final /\ r.vars /\ r.interrupted}

\* For the runs about one stream: everything it can say.
AllReplies == ReplyFlags
=============================================================================
