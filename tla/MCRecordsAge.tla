---------------------------- MODULE MCRecordsAge ----------------------------
(***************************************************************************)
(* Records with a history variable: how long ago node p withdrew its       *)
(* record, if it has neither published nor held it as its own since.       *)
(***************************************************************************)
EXTENDS Records

CONSTANTS p, q

VARIABLE since      \* 0 before p withdraws, then 1 + the time that has passed

\* Bound: ages above this one are not told apart.
MaxAge == RecordTTL + 2

AgeNext ==
  since' = IF origin[p]' \/ Publishing(p)' THEN 0
           ELSE IF origin[p] /\ DeleteProviderRecord(p) THEN 1
           ELSE IF since > 0 /\ since < MaxAge /\ Tick THEN since + 1
           ELSE since

AgeSpec == Init /\ since = 0 /\ [][Next /\ AgeNext]_<<vars, since>>

\* Node.DeleteProviderRecord: "Remote replicas stored via DHT will naturally
\* expire based on TTL": when a lifetime has passed since p withdrew its record
\* no node has an unexpired copy.
ReplicasExpire ==
  since > RecordTTL + 1 => \A n \in Nodes : ~(Fresh(n) /\ value[n] = p)
=============================================================================
