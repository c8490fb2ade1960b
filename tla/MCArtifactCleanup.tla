--------------------------- MODULE MCArtifactCleanup ---------------------------
(* Two requests and one removal from a queued prompt.  *)
EXTENDS ArtifactCleanup, TLC

CONSTANTS r1, r2, f1, f2, d1, w1

MCFilesOf == (r1 :> {f1}) @@ (r2 :> {f2})
================================================================================
