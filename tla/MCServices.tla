----------------------------- MODULE MCServices -----------------------------
(* Instance of Services: two devices that sync with each other, memories   *)
(* with the same text, a wake phrase of one word.                          *)
EXTENDS Services

CONSTANTS a, b

MCPeer == (a :> {b}) @@ (b :> {a})
MCHome == <<b, b>>
MCText == <<"same", "same">>
MCPhrase == <<"jarvis">>
MCLetters == [jarvis |-> 6, status |-> 6, stop |-> 4]
MCReplies == {<<"jarvis", "status">>, <<"status">>}
MCSyncers == {<<a, "agent">>, <<a, "server">>, <<b, "server">>}

=============================================================================
