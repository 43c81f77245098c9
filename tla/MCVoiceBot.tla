------------------------------ MODULE MCVoiceBot ------------------------------
(***************************************************************************)
(* VoiceBot for TLC.                                                       *)
(***************************************************************************)
EXTENDS VoiceBot

\* Everything the bot can put in one reply.
AllReplies == ReplyFields

\* One purpose a reply.
PlainReplies == {r \in ReplyFields : Len(SelectSeq(<<r.end, r.stop, r.vars,
                                         r.chunk # "none">>, LAMBDA b : b)) = 1}
===============================================================================
