---------------------------- MODULE MCAdbStreams ----------------------------
(* Two streams, a child's and a sync one, or one stream of any service.      *)
EXTENDS AdbStreams, TLC

CONSTANTS s1, s2

MCTwo == {s1 :> k @@ s2 :> "sync" : k \in {"shell", "exec"}}
MCOne == [{s1} -> Kind]
=============================================================================
