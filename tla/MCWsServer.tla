----------------------------- MODULE MCWsServer -----------------------------
(***************************************************************************)
(* An instance of WsServer with its EventBus: a subscriber of the process  *)
(* and two connections, an exact topic and a family of types.              *)
(***************************************************************************)
EXTENDS WsServer

CONSTANTS h1, c1, c2

ResultType == <<"task", "result">>
StreamType == <<"stream", "open">>
FamilyTopics == {ResultType, <<"task", "*">>}
TwoTypes == {ResultType, StreamType}
=============================================================================
