-------------------------- MODULE MCRelationSnapshot --------------------------
(* TLC instance of RelationSnapshot: rows that differ in what they mean.    *)
EXTENDS RelationSnapshot

Row(paused, base) == [readable |-> TRUE, paused |-> paused, base |-> base]
SomeAccounts ==
  {NoAccount, Row(TRUE, "unset"), Row(FALSE, "unset"), Row(FALSE, "pause_intimacy")}
SomeTimedRows ==
  {NoTimed, [level |-> "slow_down", expires |-> 1], [level |-> "pause_intimacy", expires |-> 2]}
=============================================================================
