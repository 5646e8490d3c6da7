----------------------------- MODULE MCFeedSync -----------------------------
(* Instance of FeedSync for TLC. *)
EXTENDS FeedSync

MCSinks == <<"powerbi", "kahana">>
=============================================================================
