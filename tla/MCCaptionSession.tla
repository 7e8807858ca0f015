-------------------------- MODULE MCCaptionSession -----------------------------
(* Two chapters and two artifacts of the server, one newer than the other *)
EXTENDS CaptionSession

MCArtifacts == {[etag |-> "old", at |-> 1], [etag |-> "new", at |-> 2]}
MCEarlier == {Row("old", 0, TRUE), Row("new", 2, FALSE)}
================================================================================
