------------------------ MODULE MCWebSocketClient ------------------------
(* Instances of WebSocketClient for TLC: the vocabulary of the runs. *)
EXTENDS WebSocketClient

OneUrl == {"ws"}
TwoUrls == {"", "ws"}
OneMethod == {"GetConfig"}
OneTopic == {"Configuration"}
TwoTopics == {"Configuration", "Media"}
OneError == {"Request failed"}

NoLiberties == {}
Reopening == {"reopenWhileClosing"}
Retrying == {"retryOnFailure"}
AllLiberties == {"retryOnFailure", "reopenWhileClosing", "emptyCallback"}
===========================================================================
