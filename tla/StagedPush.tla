----------------------------- MODULE StagedPush -----------------------------
(***************************************************************************)
(* What a staged push promises those who stage and confirm it, without     *)
(* rows, clocks or janitors.  It opens once and is shut for good: by its   *)
(* delivery, by as many wrong strings as are allowed, or by time.  Only    *)
(* who found it open may deliver it, once; who delivered it shuts it when  *)
(* he leaves, unless something goes wrong just then; and each wrong string *)
(* counts, however many are typed at the same time.                        *)
(***************************************************************************)
EXTENDS Integers

CONSTANTS
    Pushes,
    Confirms,   \* [push, right: is the string right?, ...]
    MaxStrikes  \* wrong strings that shut a push

VARIABLES
    door,       \* [Pushes -> {"none", "open", "shut"}]
    strikes,    \* [Pushes -> Nat], wrong strings
    sent,       \* [Pushes -> Nat], deliveries
    place,      \* [Confirms -> {"outside", "inside", "sent", "gone"}]
    slips       \* how often something went wrong

vars == <<door, strikes, sent, place, slips>>

Shut(p) == door' = [door EXCEPT ![p] = "shut"]
Goes(c, where) == place' = [place EXCEPT ![c] = where]

Init ==
    /\ door = [p \in Pushes |-> "none"]
    /\ strikes = [p \in Pushes |-> 0]
    /\ sent = [p \in Pushes |-> 0]
    /\ place = [c \in Confirms |-> "outside"]
    /\ slips = 0

Open(p) ==
    /\ door[p] = "none"
    /\ door' = [door EXCEPT ![p] = "open"]
    /\ UNCHANGED <<strikes, sent, place, slips>>

Expire(p) ==
    /\ door[p] = "open"
    /\ Shut(p)
    /\ UNCHANGED <<strikes, sent, place, slips>>

\* A confirm finds the push open, or is turned away.
Enter(c) ==
    /\ place[c] = "outside"
    /\ Goes(c, IF door[c.push] = "open" THEN "inside" ELSE "gone")
    /\ UNCHANGED <<door, strikes, sent, slips>>

Strike(c) ==
    /\ place[c] = "inside" /\ ~c.right
    /\ strikes' = [strikes EXCEPT ![c.push] = @ + 1]
    /\ IF strikes'[c.push] >= MaxStrikes THEN Shut(c.push) ELSE UNCHANGED door
    /\ Goes(c, "gone")
    /\ UNCHANGED <<sent, slips>>

Deliver(c) ==
    /\ place[c] = "inside" /\ c.right
    /\ sent' = [sent EXCEPT ![c.push] = @ + 1]
    /\ Goes(c, "sent")
    /\ UNCHANGED <<door, strikes, slips>>

\* Who delivered the push shuts it, as does who finds that it cannot be delivered any more.
ShutAndLeave(c) ==
    /\ place[c] = "sent" \/ (place[c] = "inside" /\ c.right)
    /\ Shut(c.push)
    /\ Goes(c, "gone")
    /\ UNCHANGED <<strikes, sent, slips>>

\* The node cannot be reached, or a wrong string comes too late to matter.
Leave(c) ==
    /\ place[c] = "inside"
    /\ c.right \/ door[c.push] = "shut"
    /\ Goes(c, "gone")
    /\ UNCHANGED <<door, strikes, sent, slips>>

\* Some confirms are cut off where they are: what they were about to write is not written.
Slip(S) ==
    /\ place' = [c \in Confirms |-> IF c \in S THEN "gone" ELSE place[c]]
    /\ slips' = slips + 1
    /\ UNCHANGED <<door, strikes, sent>>

Next ==
    \/ \E p \in Pushes : Open(p) \/ Expire(p)
    \/ \E c \in Confirms : Enter(c) \/ Strike(c) \/ Deliver(c) \/ ShutAndLeave(c) \/ Leave(c)
    \/ \E S \in SUBSET {c \in Confirms : place[c] \in {"inside", "sent"}} : Slip(S)

\* Init /\ [][Next]_vars, said so that no action is tried on a step that changes nothing here.
Spec == Init /\ [][vars' # vars /\ Next]_vars
=============================================================================
