---------------------------- MODULE MCStreamClient ----------------------------
(* Instances of StreamClient for TLC.  A client publishes or subscribes: the   *)
(* two sides of it meet in the workflow only, where items of the workflow's    *)
(* own stand for those of other clients.                                       *)
EXTENDS StreamClient

AllTopics == {"wanted", "other"}
WantedTopics == {"wanted"}
Nothing == {}
PublishOrSubscribe == {{"publish"}, {"subscribe"}}
PublishOnly == {{"publish"}}
SubscribeOnly == {{"subscribe"}}
=============================================================================
