----------------------- MODULE MCWebSocketSession -----------------------
(* Instances of WebSocketSession for TLC: the vocabulary of the runs. *)
EXTENDS WebSocketSession

OneUrl == {"ws"}
TwoUrls == {"", "ws"}
OneMethod == {"SetBrightness"}
NoTopic == {}
OneTopic == {"Configuration"}
NoLiberties == {}
BackendErrors == {"Refused", "Request failed", "Method not found"}
AllHandlers == {"empty", "answers", "refuses", "refusesSilently"}
TwoHandlers == {"answers", "refusesSilently"}
=========================================================================
