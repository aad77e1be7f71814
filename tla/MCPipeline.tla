----------------------------- MODULE MCPipeline -----------------------------
(* Pipeline for TLC: an event with two bases, one of which has a base.     *)
EXTENDS Pipeline

MCType == {"alert", "packet", "frame", "tag"}

MCBases == [T \in MCType |-> CASE T = "alert"  -> <<"packet", "tag">>
                               [] T = "packet" -> <<"frame">>
                               [] OTHER -> <<>>]
=============================================================================
