----------------------------- MODULE MCLabNode -----------------------------
(* Instance of LabClient and LabServer for TLC.  The two share nothing, so *)
(* each runs while the other is in its initial state.  The server gets one *)
(* request: what earlier ones left in the buffer is a part of it.          *)
EXTENDS LabClient
CONSTANTS Levels, MAX_PUT_PAYLOAD_LEN
VARIABLES led, last

Server == INSTANCE LabServer

ASSUME LevelsAssumption == Levels \subseteq 0 .. 999

ServerFresh == last.answer = "none"
ClientFresh == vars = <<Prompt, Host, <<FALSE, "none">>, <<FALSE, 1>>, {}>>

ServerNext == ClientFresh /\ ServerFresh /\ Server!Next /\ UNCHANGED vars
ClientNext == ServerFresh /\ Next /\ UNCHANGED <<led, last>>
NodeInit == Init /\ Server!Init
NodeSpec == NodeInit /\ [][ServerNext \/ ClientNext]_<<vars, led, last>>

(* The numbers of a colour are found where they are (coap_server.c:81-101, *)
(* 224-257), and every colour up to "255,255,255" is taken (lines 76-79):  *)
(* the properties of LabServer.                                            *)
ColoursTaken == Server!ColoursTaken
LongestColourTaken == Server!LongestColourTaken
=============================================================================
