----------------------------- MODULE MCSyncRuns -----------------------------
(* Small instances of SyncRuns for TLC. *)
EXTENDS SyncRuns, TLC

CONSTANTS a1, usd

OneCurrency == a1 :> usd
=============================================================================
