----------------------------- MODULE MCSession ------------------------------
(* Channel sets for the session runs.                                       *)
EXTENDS Session

OneChannel == {0}
TwoChannels == {0, 1}
=============================================================================
