---------------------------- MODULE MCChatAgent ----------------------------
(* Small instances of ChatAgent for TLC. *)
EXTENDS ChatAgent, TLC

CONSTANTS c1, c2

OneChat == {c1}
TwoChats == {c1, c2}

OneOrTwoCalls == {<<"get_run">>, <<"execute_code", "execute_code">>}
=============================================================================
