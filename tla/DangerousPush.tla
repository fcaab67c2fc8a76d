--------------------------- MODULE DangerousPush ---------------------------
(***************************************************************************)
(* Dangerous config pushes (handlers/dangerous_push.go,                    *)
(* db/dangerous_push.go, dangerous_push_janitor.go): a push is staged as a *)
(* row and delivered when an operator types the cluster's name; three      *)
(* wrong strings, the delivery or ten minutes spend it.                    *)
(*                                                                         *)
(* A confirm reads the row once and acts on what it read, in statements of *)
(* their own, while other confirms and the janitor go on.                  *)
(***************************************************************************)
EXTENDS Integers, FiniteSets

CONSTANTS
    PushIds,
    Confirms,     \* requests: [push, right: is the cluster's name typed right?, id]
    MaxStrikes,   \* maxConfirmAttempts
    MaxRefused    \* bound: statements the database may refuse, and restarts

ASSUME DangerAssumption ==
    /\ MaxStrikes \in Nat \ {0}
    /\ MaxRefused \in Nat
    /\ IsFiniteSet(Confirms)
    /\ \A c \in Confirms : c.push \in PushIds

VARIABLES
    pushRow,    \* [PushIds -> PushRow], table pending_dangerous_pushes
    confirm,    \* [Confirms -> Confirm], requests in HandleConfirm
    delivered,  \* [PushIds -> Nat], config_push messages sent
    refused

dangerVars == <<pushRow, confirm, delivered, refused>>

PushRow == [state : {"none", "staged", "swept"}, attempts : Nat, consumed : BOOLEAN, expired : BOOLEAN]
\* "struck": a wrong string that was counted; "unrecorded": delivered, but the row was not consumed.
ConfirmAnswers == {"none", "notfound", "gone", "expired", "struck", "mismatch", "invalidated",
                   "offline", "ok", "unrecorded", "lost"}
Confirm == [at : {"idle", "loaded", "sent", "done"}, answer : ConfirmAnswers]

Struck(p) == {c \in Confirms : c.push = p /\ confirm[c].answer = "struck"}
Staged(p) == pushRow[p].state = "staged"
Consume(p) == pushRow' = IF Staged(p) THEN [pushRow EXCEPT ![p].consumed = TRUE] ELSE pushRow
Ends(c, answer) == confirm' = [confirm EXCEPT ![c].at = "done", ![c].answer = answer]
Refuses == refused < MaxRefused /\ refused' = refused + 1

DangerInit ==
    /\ pushRow = [p \in PushIds |-> [state |-> "none", attempts |-> 0, consumed |-> FALSE, expired |-> FALSE]]
    /\ confirm = [c \in Confirms |-> [at |-> "idle", answer |-> "none"]]
    /\ delivered = [p \in PushIds |-> 0]
    /\ refused = 0
-----------------------------------------------------------------------------
\* HandleStage: the plugin is dangerous, its payload valid and rendered.
StagesPush(p) ==
    /\ pushRow[p].state = "none"
    /\ pushRow' = [pushRow EXCEPT ![p].state = "staged"]
    /\ UNCHANGED <<confirm, delivered, refused>>

Expires(p) ==
    /\ Staged(p)
    /\ pushRow' = [pushRow EXCEPT ![p].expired = TRUE]
    /\ UNCHANGED <<confirm, delivered, refused>>

\* HandleConfirm reads the row.
Loads(c) ==
    LET p == c.push
    IN  /\ confirm[c].at = "idle"
        /\ \/ ~Staged(p) /\ Ends(c, "notfound")
           \/ Staged(p) /\ pushRow[p].consumed /\ Ends(c, "gone")
           \/ Staged(p) /\ ~pushRow[p].consumed /\ pushRow[p].expired /\ Ends(c, "expired")
           \/ /\ Staged(p) /\ ~pushRow[p].consumed /\ ~pushRow[p].expired
              /\ confirm' = [confirm EXCEPT ![c].at = "loaded"]
        /\ UNCHANGED <<pushRow, delivered, refused>>

\* Mutant: the lock-out is computed afresh, whatever consumed the row before.
Strikes_Afresh(c) ==
    LET p == c.push
    IN  /\ confirm[c].at = "loaded" /\ ~c.right
        /\ Staged(p)
        /\ pushRow' = [pushRow EXCEPT ![p].attempts = @ + 1,
                                      ![p].consumed = pushRow[p].attempts + 1 >= MaxStrikes]
        /\ Ends(c, "struck")
        /\ UNCHANGED <<delivered, refused>>
\* Mutant: one wrong string more than the limit.
Strikes_OneMore(c) ==
    LET p == c.push
    IN  /\ confirm[c].at = "loaded" /\ ~c.right
        /\ Staged(p)
        /\ pushRow' = [pushRow EXCEPT ![p].attempts = @ + 1,
                                      ![p].consumed = @ \/ pushRow[p].attempts + 1 > MaxStrikes]
        /\ Ends(c, "struck")
        /\ UNCHANGED <<delivered, refused>>
\* A wrong string is counted, and the row consumed by the last one, in one transaction.
Strikes(c) ==
    LET p == c.push
    IN  /\ confirm[c].at = "loaded" /\ ~c.right
        /\ Staged(p)
        /\ pushRow' = [pushRow EXCEPT ![p].attempts = @ + 1,
                                      ![p].consumed = @ \/ pushRow[p].attempts + 1 >= MaxStrikes]
        /\ Ends(c, "struck")
        /\ UNCHANGED <<delivered, refused>>

\* The row was swept meanwhile, or the transaction fails: the operator gets another try.
StrikeMisses(c) ==
    /\ confirm[c].at = "loaded" /\ ~c.right
    /\ \/ ~Staged(c.push) /\ UNCHANGED refused
       \/ Staged(c.push) /\ Refuses
    /\ Ends(c, "mismatch")
    /\ UNCHANGED <<pushRow, delivered>>

\* The plugin is gone, or finds fault with the payload now.
Invalidates(c) ==
    /\ confirm[c].at = "loaded" /\ c.right
    /\ \/ Consume(c.push) /\ UNCHANGED refused
       \/ UNCHANGED pushRow /\ Refuses
    /\ Ends(c, "invalidated")
    /\ UNCHANGED delivered

\* Hub.Send takes the message.
Delivers(c) ==
    /\ confirm[c].at = "loaded" /\ c.right
    /\ confirm' = [confirm EXCEPT ![c].at = "sent"]
    /\ delivered' = [delivered EXCEPT ![c.push] = @ + 1]
    /\ UNCHANGED <<pushRow, refused>>

\* The node is not connected, or its send channel is full: the push stays staged.
FindsOffline(c) ==
    /\ confirm[c].at = "loaded" /\ c.right
    /\ Ends(c, "offline")
    /\ UNCHANGED <<pushRow, delivered, refused>>

\* Mutant: the row is left for the janitor to consume.
Consumes_Not(c) ==
    /\ confirm[c].at = "sent"
    /\ Ends(c, "ok")
    /\ UNCHANGED <<pushRow, delivered, refused>>
Consumes(c) ==
    /\ confirm[c].at = "sent"
    /\ Consume(c.push)
    /\ Ends(c, "ok")
    /\ UNCHANGED <<delivered, refused>>

\* "Non-fatal: the push was already sent."
ConsumeRefused(c) ==
    /\ confirm[c].at = "sent"
    /\ Refuses
    /\ Ends(c, "unrecorded")
    /\ UNCHANGED <<pushRow, delivered>>

\* serverd stops: requests are cut off where they are.
PushServerRestarts ==
    /\ Refuses
    /\ confirm' = [c \in Confirms |->
           CASE confirm[c].at = "loaded" -> [confirm[c] EXCEPT !.at = "done", !.answer = "lost"]
             [] confirm[c].at = "sent"   -> [confirm[c] EXCEPT !.at = "done", !.answer = "unrecorded"]
             [] OTHER                    -> confirm[c]]
    /\ UNCHANGED <<pushRow, delivered>>

Stale(p) == Staged(p) /\ (pushRow[p].consumed \/ pushRow[p].expired)
\* The janitor deletes what is consumed or expired, in one statement.
Sweeps ==
    /\ \E p \in PushIds : Stale(p)
    /\ pushRow' = [p \in PushIds |-> IF Stale(p) THEN [pushRow[p] EXCEPT !.state = "swept"] ELSE pushRow[p]]
    /\ UNCHANGED <<confirm, delivered, refused>>
-----------------------------------------------------------------------------
Confirming(c) == \/ Loads(c) \/ Strikes(c) \/ StrikeMisses(c) \/ Invalidates(c) \/ Delivers(c)
                 \/ FindsOffline(c) \/ Consumes(c) \/ ConsumeRefused(c)
DangerNext == \/ \E p \in PushIds : StagesPush(p) \/ Expires(p)
              \/ \E c \in Confirms : Confirming(c)
              \/ PushServerRestarts
              \/ Sweeps
DangerSpec == DangerInit /\ [][DangerNext]_dangerVars
-----------------------------------------------------------------------------
DangerTypeOK ==
    /\ pushRow \in [PushIds -> PushRow]
    /\ confirm \in [Confirms -> Confirm]
    /\ delivered \in [PushIds -> Nat]
    /\ refused \in 0..MaxRefused

\* However confirms overlap, as many wrong strings as are allowed lock a push out
\* (IncrementDangerousPushAttempts counts and consumes in one transaction).
StrikesLockOut ==
    \A p \in PushIds : Cardinality(Struck(p)) >= MaxStrikes => pushRow[p].consumed

\* A push that was consumed, by its delivery, a lock-out or the loss of its plugin, is never open
\* to a confirm again, whatever confirms that read it before still do to its row.
SpentStaysSpent ==
    [][\A p \in PushIds : pushRow[p].consumed \/ pushRow[p].state = "swept" =>
           pushRow'[p].consumed \/ pushRow'[p].state = "swept"]_dangerVars

\* What has been delivered cannot be confirmed again, once its confirm is over; but a failed
\* statement or a restart after the message was sent leaves it open (HandleConfirm sends first).
DeliveredIsSpent ==
    \A p \in PushIds : delivered[p] > 0 =>
        \/ pushRow[p].consumed
        \/ pushRow[p].state = "swept"
        \/ \E c \in Confirms : c.push = p /\ (confirm[c].at = "sent" \/ confirm[c].answer = "unrecorded")

\* What operators may rely on (StagedPush): however confirms of a push, its expiry, the janitor,
\* refused statements and restarts overlap, it opens once, is delivered only by who found it open,
\* and every wrong string counts.
Door(p) == CASE pushRow[p].state = "none" -> "none"
             [] Staged(p) /\ ~pushRow[p].consumed /\ ~pushRow[p].expired -> "open"
             [] OTHER -> "shut"
At(c) == CASE confirm[c].at = "idle" -> "outside"
           [] confirm[c].at = "loaded" -> "inside"
           [] confirm[c].at = "sent" -> "sent"
           [] OTHER -> "gone"
Staging == INSTANCE StagedPush WITH
    Pushes  <- PushIds,
    door    <- [p \in PushIds |-> Door(p)],
    strikes <- [p \in PushIds |-> pushRow[p].attempts],
    sent    <- delivered,
    place   <- [c \in Confirms |-> At(c)],
    slips   <- refused
PushSpec == Staging!Spec
=============================================================================
