----------------------------- MODULE NodeState -----------------------------
(***************************************************************************)
(* The node_configs row as the lifecycle code reads it, and the three pure *)
(* decisions taken from it: the derived state (NodeConfig.State), the boot *)
(* script a PXE request gets (ServeIPXEScript) and the directive a         *)
(* registering deploy agent gets (RegisterNode).                           *)
(*                                                                         *)
(* A timestamp column is kept as what State() tells apart:                 *)
(*   preboot, verified, timeout   the column is not NULL;                  *)
(*   failed    last_deploy_failed_at is set and is later than              *)
(*             deploy_completed_preboot_at, or that one is NULL.           *)
(***************************************************************************)
CONSTANTS
    Images,     \* base images an operator can assign
    NoImage     \* the empty base_image_id

ASSUME ImagesAssumption == NoImage \notin Images

LdapStates == {"unknown", "ready", "broken"}

NodeRow == [image    : Images \cup {NoImage},
            pending  : BOOLEAN,      \* reimage_pending
            preboot  : BOOLEAN,      \* deploy_completed_preboot_at
            failed   : BOOLEAN,      \* last_deploy_failed_at, newest
            verified : BOOLEAN,      \* deploy_verified_booted_at
            timeout  : BOOLEAN,      \* deploy_verify_timeout_at
            ldap     : LdapStates]   \* ldap_ready: NULL, 1, 0

\* The row UpsertNodeByMAC inserts for a MAC it has never seen.
NewNodeRow == [image |-> NoImage, pending |-> FALSE, preboot |-> FALSE,
               failed |-> FALSE, verified |-> FALSE, timeout |-> FALSE,
               ldap |-> "unknown"]


\* NodeConfig.State: the first matching line wins.
State(row) ==
    IF row.pending THEN "reimage_pending"
    ELSE IF row.failed THEN "failed"
    ELSE IF row.verified /\ row.ldap = "broken" THEN "deployed_ldap_failed"
    ELSE IF row.verified THEN "deployed_verified"
    ELSE IF row.timeout THEN "deploy_verify_timeout"
    ELSE IF row.preboot THEN "deployed_preboot"
    ELSE IF row.image # NoImage THEN "configured"
    ELSE "registered"

\* Mutant: a state added to State() and forgotten in the boot handler's switch.
DeployedStates_NoLdap == {"deployed_preboot", "deployed_verified", "deploy_verify_timeout"}

\* The case of ServeIPXEScript's switch that boots from disk.
DeployedStates == {"deployed_preboot", "deployed_verified", "deployed_ldap_failed",
                   "deploy_verify_timeout"}

\* ServeIPXEScript for the default operating mode, block_install.
BootScript(row) ==
    IF State(row) \in DeployedStates THEN "disk"
    ELSE IF State(row) = "reimage_pending" /\ row.image = NoImage THEN "wait"
    ELSE "deploy"

\* RegisterNode's action; biosOnly is the flag of the newest active request.
RegisterAction(row, biosOnly) ==
    IF row.pending /\ biosOnly THEN "bios_only"
    ELSE IF row.pending \/ row.image # NoImage THEN "deploy"
    ELSE "wait"

\* RecordDeploySucceeded: the UPDATE of one statement.
DeploySucceeded(row) ==
    [row EXCEPT !.preboot = TRUE, !.verified = FALSE, !.timeout = FALSE,
                !.pending = FALSE, !.failed = FALSE]

\* ListNodesAwaitingVerification's WHERE clause.
AwaitsVerification(row) ==
    row.preboot /\ ~row.verified /\ ~row.timeout /\ ~row.pending
=============================================================================
