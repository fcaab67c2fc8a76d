------------------------ MODULE DangerousPushProofs ------------------------
(***************************************************************************)
(* Theorems about DangerousPush, for any pushes, any finite set of         *)
(* confirms that overlap in any way, and any limit of wrong strings.       *)
(***************************************************************************)
EXTENDS DangerousPush, FiniteSetTheorems, TLAPS

(* A confirm has an answer only when it is over, and what it has read is still a row.      *)
UnderWay ==
    \A c \in Confirms : confirm[c].at # "done" =>
        /\ confirm[c].answer = "none"
        /\ confirm[c].at # "idle" => pushRow[c.push].state # "none"

(* The row counts the wrong strings, and the last one of them consumes it.                 *)
Counts ==
    \A p \in PushIds : /\ pushRow[p].attempts = Cardinality(Struck(p))
                       /\ pushRow[p].attempts >= MaxStrikes => pushRow[p].consumed

PushInv == DangerTypeOK /\ UnderWay /\ Counts /\ DeliveredIsSpent

(* What a step may do to a row: it counts at most one strike, and what is spent stays so.  *)
RowStep(p) ==
    /\ pushRow[p].state # "none" => pushRow'[p].state # "none"
    /\ pushRow[p].consumed => pushRow'[p].consumed
    /\ pushRow[p].state = "swept" => pushRow'[p].state = "swept"

(* In the initial state nothing is staged.                                                 *)
LEMMA InitPush == DangerInit => PushInv
<1> SUFFICES ASSUME DangerInit PROVE PushInv
  OBVIOUS
<1> USE DangerAssumption
<1>1. DangerTypeOK
  BY DEF DangerInit, DangerTypeOK, PushRow, Confirm, ConfirmAnswers
<1>2. UnderWay /\ DeliveredIsSpent
  BY DEF DangerInit, UnderWay, DeliveredIsSpent
<1>3. \A p \in PushIds : Struck(p) = {}
  BY DEF DangerInit, Struck
<1>4. Cardinality({}) = 0 /\ MaxStrikes \in Nat /\ MaxStrikes # 0
  BY FS_EmptySet DEF DangerAssumption
<1>5. ASSUME NEW p \in PushIds PROVE pushRow[p].attempts = 0 /\ Cardinality(Struck(p)) = 0
  BY <1>3, <1>4 DEF DangerInit
<1>6. Counts
  BY <1>4, <1>5 DEF Counts
<1> QED
  BY <1>1, <1>2, <1>6 DEF PushInv

(* Every step keeps the types, and each row goes on as RowStep says.                       *)
LEMMA StepTyped ==
    ASSUME DangerTypeOK, DangerNext
    PROVE  DangerTypeOK' /\ \A p \in PushIds : RowStep(p)
<1> USE DangerAssumption
<1>1. ASSUME NEW p \in PushIds, StagesPush(p) \/ Expires(p)
      PROVE  DangerTypeOK' /\ \A q \in PushIds : RowStep(q)
  <2>1. UNCHANGED <<confirm, delivered, refused>>
    BY <1>1 DEF StagesPush, Expires
  <2>2. CASE StagesPush(p)
    <3>1. pushRow' \in [PushIds -> PushRow]
      BY <2>2 DEF StagesPush, DangerTypeOK, PushRow
    <3>2. \A q \in PushIds : RowStep(q)
      BY <2>2 DEF StagesPush, DangerTypeOK, PushRow, RowStep
    <3> QED
      BY <2>1, <3>1, <3>2 DEF DangerTypeOK
  <2>3. CASE Expires(p)
    <3>1. pushRow' \in [PushIds -> PushRow]
      BY <2>3 DEF Expires, DangerTypeOK, PushRow
    <3>2. \A q \in PushIds : RowStep(q)
      BY <2>3 DEF Expires, DangerTypeOK, PushRow, RowStep
    <3> QED
      BY <2>1, <3>1, <3>2 DEF DangerTypeOK
  <2> QED
    BY <1>1, <2>2, <2>3
<1>2. ASSUME NEW c \in Confirms, Confirming(c)
      PROVE  DangerTypeOK' /\ \A q \in PushIds : RowStep(q)
  <2> DEFINE Over(a) == [confirm EXCEPT ![c].at = "done", ![c].answer = a]
  <2>1. \A a \in ConfirmAnswers : Over(a) \in [Confirms -> Confirm]
    BY DEF DangerTypeOK, Confirm
  <2>2. c.push \in PushIds
    OBVIOUS
  <2>3. CASE Consume(c.push) /\ UNCHANGED <<delivered, refused>> /\ \E a \in ConfirmAnswers : Ends(c, a)
    <3>1. pushRow' \in [PushIds -> PushRow]
      BY <2>2, <2>3 DEF Consume, DangerTypeOK, PushRow
    <3>2. \A q \in PushIds : RowStep(q)
      BY <2>2, <2>3 DEF Consume, DangerTypeOK, PushRow, RowStep
    <3>3. confirm' \in [Confirms -> Confirm]
      BY <2>1, <2>3 DEF Ends
    <3> QED
      BY <2>3, <3>1, <3>2, <3>3 DEF DangerTypeOK
  <2>4. CASE /\ UNCHANGED <<pushRow, delivered>> /\ (UNCHANGED refused \/ Refuses)
             /\ \E a \in ConfirmAnswers : Ends(c, a)
    <3>1. \A q \in PushIds : RowStep(q)
      BY <2>4 DEF RowStep
    <3>2. refused' \in 0..MaxRefused
      BY <2>4 DEF Refuses, DangerTypeOK, DangerAssumption
    <3>3. confirm' \in [Confirms -> Confirm]
      BY <2>1, <2>4 DEF Ends
    <3> QED
      BY <2>4, <3>1, <3>2, <3>3 DEF DangerTypeOK
  <2>5. CASE Loads(c)
    <3>1. [confirm EXCEPT ![c].at = "loaded"] \in [Confirms -> Confirm]
      BY DEF DangerTypeOK, Confirm
    <3> QED
      BY <2>1, <2>5, <3>1 DEF Loads, Ends, ConfirmAnswers, DangerTypeOK, RowStep
  <2>6. CASE Strikes(c)
    <3>1. pushRow' \in [PushIds -> PushRow] /\ \A q \in PushIds : RowStep(q)
      BY <2>2, <2>6 DEF Strikes, DangerTypeOK, PushRow, RowStep
    <3> QED
      BY <2>1, <2>6, <3>1 DEF Strikes, Ends, ConfirmAnswers, DangerTypeOK
  <2>7. CASE Delivers(c)
    <3>1. confirm' \in [Confirms -> Confirm] /\ delivered' \in [PushIds -> Nat]
      BY <2>2, <2>7 DEF Delivers, DangerTypeOK, Confirm
    <3> QED
      BY <2>7, <3>1 DEF Delivers, DangerTypeOK, RowStep
  <2> QED
    BY <1>2, <2>3, <2>4, <2>5, <2>6, <2>7
    DEF Confirming, StrikeMisses, Invalidates, FindsOffline, Consumes, ConsumeRefused, ConfirmAnswers
<1>3. CASE PushServerRestarts
  <2>1. \A q \in PushIds : RowStep(q)
    BY <1>3 DEF PushServerRestarts, RowStep
  <2>2. refused' \in 0..MaxRefused
    <3>1. refused < MaxRefused /\ refused' = refused + 1
      BY <1>3 DEF PushServerRestarts, Refuses
    <3> QED
      BY <3>1 DEF DangerTypeOK, DangerAssumption
  <2>3. confirm' \in [Confirms -> Confirm]
    BY <1>3 DEF PushServerRestarts, DangerTypeOK, Confirm, ConfirmAnswers
  <2> QED
    BY <1>3, <2>1, <2>2, <2>3 DEF PushServerRestarts, DangerTypeOK
<1>4. CASE Sweeps
  BY <1>4 DEF Sweeps, Stale, Staged, DangerTypeOK, PushRow, RowStep
<1> QED
  BY <1>1, <1>2, <1>3, <1>4 DEF DangerNext

(* A confirm that is over has its answer for good; one that is not has none yet.           *)
LEMMA StepUnderWay ==
    ASSUME PushInv, DangerNext
    PROVE  UnderWay'
<1> USE DangerAssumption
<1>0. \A p \in PushIds : pushRow[p].state # "none" => pushRow'[p].state # "none"
  BY StepTyped DEF PushInv, RowStep
<1>1. \A c \in Confirms : \/ confirm'[c] = confirm[c]
                          \/ confirm'[c].at = "done"
                          \/ confirm[c].at # "done" /\ confirm'[c].answer = confirm[c].answer
                             /\ pushRow[c.push].state # "none"
  <2>1. ASSUME NEW d \in Confirms, Confirming(d), NEW c \in Confirms
        PROVE  \/ confirm'[c] = confirm[c]
               \/ confirm'[c].at = "done"
               \/ confirm[c].at # "done" /\ confirm'[c].answer = confirm[c].answer
                  /\ pushRow[c.push].state # "none"
    BY <2>1 DEF Confirming, Loads, Strikes, StrikeMisses, Invalidates, Delivers, FindsOffline, Consumes,
                ConsumeRefused, Ends, Staged, PushInv, DangerTypeOK, Confirm, UnderWay
  <2>2. ASSUME PushServerRestarts, NEW c \in Confirms
        PROVE  confirm'[c] = confirm[c] \/ confirm'[c].at = "done"
    BY <2>2 DEF PushServerRestarts, PushInv, DangerTypeOK, Confirm
  <2>3. CASE (\E p \in PushIds : StagesPush(p) \/ Expires(p)) \/ Sweeps
    BY <2>3 DEF StagesPush, Expires, Sweeps
  <2> QED
    BY <2>1, <2>2, <2>3 DEF DangerNext
<1> QED
  BY <1>0, <1>1 DEF PushInv, UnderWay

(* While no wrong string is counted, the counts are what they were.                        *)
LEMMA NoStrike ==
    ASSUME PushInv,
           \A c \in Confirms : confirm'[c].answer = "struck" <=> confirm[c].answer = "struck",
           \A p \in PushIds : /\ pushRow'[p].attempts = pushRow[p].attempts
                              /\ pushRow[p].consumed => pushRow'[p].consumed
    PROVE  Counts'
<1>1. \A p \in PushIds : Struck(p)' = Struck(p)
  BY DEF Struck
<1> QED
  BY <1>1 DEF PushInv, Counts

(* A wrong string is one more in the set and one more in the row.                          *)
LEMMA StrikeCounts ==
    ASSUME PushInv, NEW c \in Confirms, Strikes(c)
    PROVE  Counts'
<1> USE DangerAssumption
<1>1. confirm' = [confirm EXCEPT ![c].at = "done", ![c].answer = "struck"] /\ c \notin Struck(c.push)
  BY DEF Strikes, Ends, Struck, PushInv, UnderWay
<1>2. Struck(c.push)' = Struck(c.push) \cup {c} /\ c.push \in PushIds
  BY <1>1 DEF Struck, PushInv, DangerTypeOK, Confirm
<1>3. \A p \in PushIds \ {c.push} : Struck(p)' = Struck(p)
  BY <1>1 DEF Struck, PushInv, DangerTypeOK, Confirm
<1>4. IsFiniteSet(Struck(c.push))
  BY FS_Subset DEF Struck
<1>5. Cardinality(Struck(c.push)') = Cardinality(Struck(c.push)) + 1
  BY <1>1, <1>2, <1>4, FS_AddElement
<1>6. /\ pushRow'[c.push].attempts = pushRow[c.push].attempts + 1
      /\ pushRow'[c.push].attempts >= MaxStrikes => pushRow'[c.push].consumed
      /\ \A p \in PushIds \ {c.push} : pushRow'[p] = pushRow[p]
  BY <1>2 DEF Strikes, PushInv, DangerTypeOK, PushRow
<1>7. ASSUME NEW p \in PushIds
      PROVE  /\ pushRow'[p].attempts = Cardinality(Struck(p)')
             /\ pushRow'[p].attempts >= MaxStrikes => pushRow'[p].consumed
  <2>1. CASE p = c.push
    BY <1>5, <1>6, <2>1 DEF PushInv, Counts
  <2>2. CASE p # c.push
    BY <1>3, <1>6, <2>2 DEF PushInv, Counts
  <2> QED
    BY <2>1, <2>2
<1> QED
  BY <1>7 DEF Counts

(* Every step keeps the count of wrong confirmations of a staged push.                        *)
LEMMA StepCounts ==
    ASSUME PushInv, DangerNext
    PROVE  Counts'
<1> USE DangerAssumption
<1>1. CASE \E c \in Confirms : Strikes(c)
  BY <1>1, StrikeCounts
<1>2. CASE ~\E c \in Confirms : Strikes(c)
  <2>1. \A p \in PushIds : pushRow[p].consumed => pushRow'[p].consumed
    BY StepTyped DEF PushInv, RowStep
  <2>2. \A p \in PushIds : pushRow'[p].attempts = pushRow[p].attempts
    <3>1. ASSUME NEW q \in PushIds, StagesPush(q) \/ Expires(q), NEW p \in PushIds
          PROVE  pushRow'[p].attempts = pushRow[p].attempts
      BY <3>1 DEF StagesPush, Expires, PushInv, DangerTypeOK, PushRow
    <3>2. ASSUME NEW c \in Confirms, Confirming(c), NEW p \in PushIds
          PROVE  pushRow'[p].attempts = pushRow[p].attempts
      <4>1. UNCHANGED pushRow \/ Consume(c.push)
        BY <1>2, <3>2 DEF Confirming, Loads, StrikeMisses, Invalidates, Delivers, FindsOffline,
                          Consumes, ConsumeRefused
      <4>2. CASE Consume(c.push)
        BY <4>2 DEF Consume, PushInv, DangerTypeOK, PushRow
      <4> QED
        BY <4>1, <4>2
    <3>3. ASSUME Sweeps, NEW p \in PushIds
          PROVE  pushRow'[p].attempts = pushRow[p].attempts
      BY <3>3 DEF Sweeps, PushInv, DangerTypeOK, PushRow
    <3>4. CASE PushServerRestarts
      BY <3>4 DEF PushServerRestarts
    <3> QED
      BY <3>1, <3>2, <3>3, <3>4 DEF DangerNext
  <2>3. \A c \in Confirms : confirm'[c].answer = "struck" <=> confirm[c].answer = "struck"
    <3>1. ASSUME NEW d \in Confirms, Confirming(d), NEW c \in Confirms
          PROVE  confirm'[c].answer = "struck" <=> confirm[c].answer = "struck"
      BY <1>2, <3>1 DEF Confirming, Loads, StrikeMisses, Invalidates, Delivers, FindsOffline, Consumes,
                        ConsumeRefused, Ends, PushInv, DangerTypeOK, Confirm, UnderWay
    <3>2. ASSUME PushServerRestarts, NEW c \in Confirms
          PROVE  confirm'[c].answer = "struck" <=> confirm[c].answer = "struck"
      BY <3>2 DEF PushServerRestarts, PushInv, DangerTypeOK, Confirm, UnderWay
    <3>3. CASE (\E p \in PushIds : StagesPush(p) \/ Expires(p)) \/ Sweeps
      BY <3>3 DEF StagesPush, Expires, Sweeps
    <3> QED
      BY <3>1, <3>2, <3>3 DEF DangerNext
  <2> QED
    BY <2>1, <2>2, <2>3, NoStrike
<1> QED
  BY <1>1, <1>2

(* A delivery is open to no confirm but the one that made it, which consumes the row or    *)
(* leaves the answer "unrecorded".                                                         *)
LEMMA StepDelivered ==
    ASSUME PushInv, DangerNext
    PROVE  DeliveredIsSpent'
<1> USE DangerAssumption
<1>0. \A p \in PushIds : RowStep(p)
  BY StepTyped DEF PushInv
<1>1. ASSUME NEW p \in PushIds, delivered'[p] > 0
      PROVE  \/ pushRow'[p].consumed
             \/ pushRow'[p].state = "swept"
             \/ \E c \in Confirms : c.push = p /\ (confirm'[c].at = "sent" \/ confirm'[c].answer = "unrecorded")
  <2>1. CASE delivered'[p] # delivered[p]
    <3>1. PICK c \in Confirms : Delivers(c) /\ c.push = p
      BY <2>1 DEF DangerNext, StagesPush, Expires, Confirming, Loads, Strikes, StrikeMisses, Invalidates,
                  Delivers, FindsOffline, Consumes, ConsumeRefused, PushServerRestarts, Sweeps,
                  PushInv, DangerTypeOK
    <3> QED
      BY <3>1 DEF Delivers, PushInv, DangerTypeOK, Confirm
  <2>2. CASE delivered'[p] = delivered[p] /\ (pushRow[p].consumed \/ pushRow[p].state = "swept")
    BY <1>0, <2>2 DEF RowStep
  <2>3. CASE /\ delivered'[p] = delivered[p]
             /\ \E c \in Confirms : c.push = p /\ (confirm[c].at = "sent" \/ confirm[c].answer = "unrecorded")
    <3>1. PICK c \in Confirms : c.push = p /\ (confirm[c].at = "sent" \/ confirm[c].answer = "unrecorded")
      BY <2>3
    <3>2. CASE Consumes(c)
      BY <3>1, <3>2 DEF Consumes, Consume, Staged, PushInv, DangerTypeOK, PushRow, UnderWay
    <3>3. CASE ~Consumes(c)
      <4>1. confirm'[c].at = "sent" \/ confirm'[c].answer = "unrecorded"
        <5>1. ASSUME NEW d \in Confirms, Confirming(d)
              PROVE  confirm'[c].at = "sent" \/ confirm'[c].answer = "unrecorded"
          BY <3>1, <3>3, <5>1 DEF Confirming, Loads, Strikes, StrikeMisses, Invalidates, Delivers,
                 FindsOffline, Consumes, ConsumeRefused, Ends, PushInv, DangerTypeOK, Confirm, UnderWay
        <5> QED
          BY <3>1, <5>1 DEF DangerNext, StagesPush, Expires, PushServerRestarts, Sweeps,
                 PushInv, DangerTypeOK, Confirm, UnderWay
      <4> QED
        BY <3>1, <4>1
    <3> QED
      BY <3>2, <3>3
  <2>4. delivered'[p] = delivered[p] => delivered[p] > 0
    BY <1>1
  <2> QED
    BY <2>1, <2>2, <2>3, <2>4 DEF PushInv, DeliveredIsSpent
<1> QED
  BY <1>1 DEF DeliveredIsSpent

(* The inductive invariant of the confirms and their rows.                                 *)
THEOREM PushIsInvariant == DangerSpec => []PushInv
<1>1. PushInv /\ [DangerNext]_dangerVars => PushInv'
  <2> SUFFICES ASSUME PushInv, [DangerNext]_dangerVars PROVE PushInv'
    OBVIOUS
  <2>1. CASE DangerNext
    BY <2>1, StepTyped, StepUnderWay, StepCounts, StepDelivered DEF PushInv
  <2>2. CASE UNCHANGED dangerVars
    BY <2>2 DEF dangerVars, PushInv, DangerTypeOK, UnderWay, Counts, Struck, DeliveredIsSpent
  <2> QED
    BY <2>1, <2>2
<1> QED
  BY <1>1, InitPush, PTL DEF DangerSpec

(* Wrong strings lock a push out however their confirms overlap.                           *)
THEOREM StrikesLockPushesOut == DangerSpec => []StrikesLockOut
<1>1. PushInv => StrikesLockOut
  BY DEF PushInv, Counts, StrikesLockOut
<1> QED
  BY <1>1, PushIsInvariant, PTL

(* No confirm opens a push again that was spent.                                           *)
THEOREM SpentPushesStaySpent == DangerSpec => SpentStaysSpent
<1> DEFINE Stays == \A p \in PushIds : pushRow[p].consumed \/ pushRow[p].state = "swept" =>
                        pushRow'[p].consumed \/ pushRow'[p].state = "swept"
<1>1. PushInv /\ [DangerNext]_dangerVars => [Stays]_dangerVars
  BY StepTyped DEF PushInv, RowStep
<1>2. DangerSpec => [][Stays]_dangerVars
  BY <1>1, PushIsInvariant, PTL DEF DangerSpec
<1> QED
  BY <1>2 DEF SpentStaysSpent

(* A delivered push is spent, unless a fault cut off the statement that consumes it.       *)
THEOREM DeliveredPushesAreSpent == DangerSpec => []DeliveredIsSpent
<1>1. PushInv => DeliveredIsSpent
  BY DEF PushInv
<1> QED
  BY <1>1, PushIsInvariant, PTL
-----------------------------------------------------------------------------
(* What StagedPush sees.                                                                    *)
Doors    == [p \in PushIds |-> Door(p)]
Attempts == [p \in PushIds |-> pushRow[p].attempts]
Placed   == [c \in Confirms |-> At(c)]

(* A row that was never staged is as it was made.                                           *)
Fresh == \A p \in PushIds : pushRow[p].state = "none" => ~pushRow[p].consumed /\ ~pushRow[p].expired

(* No step touches a row that is not staged, but to stage it.                               *)
LEMMA FreshInvariant == DangerSpec => []Fresh
<1>1. DangerInit => Fresh
  BY DEF DangerInit, Fresh
<1>2. PushInv /\ Fresh /\ [DangerNext]_dangerVars => Fresh'
  <2> SUFFICES ASSUME PushInv, Fresh, DangerNext, NEW p \in PushIds
               PROVE  pushRow'[p].state = "none" => pushRow'[p] = pushRow[p]
    BY DEF Fresh, dangerVars
  <2>1. ASSUME NEW q \in PushIds, StagesPush(q) \/ Expires(q)
        PROVE  pushRow'[p].state = "none" => pushRow'[p] = pushRow[p]
    BY <2>1 DEF StagesPush, Expires, Staged, PushInv, DangerTypeOK, PushRow
  <2>2. ASSUME NEW c \in Confirms, Confirming(c)
        PROVE  pushRow'[p].state = "none" => pushRow'[p] = pushRow[p]
    <3>1. CASE UNCHANGED pushRow
      BY <3>1
    <3>2. CASE Consume(c.push)
      BY <3>2 DEF Consume, Staged, PushInv, DangerTypeOK, PushRow
    <3>3. CASE Strikes(c)
      BY <3>3 DEF Strikes, Staged, PushInv, DangerTypeOK, PushRow
    <3> QED
      BY <2>2, <3>1, <3>2, <3>3 DEF Confirming, Loads, StrikeMisses, Invalidates, Delivers,
         FindsOffline, Consumes, ConsumeRefused
  <2>3. CASE PushServerRestarts
    BY <2>3 DEF PushServerRestarts
  <2>4. CASE Sweeps
    BY <2>4 DEF Sweeps, Stale, Staged, PushInv, DangerTypeOK, PushRow
  <2> QED
    BY <2>1, <2>2, <2>3, <2>4 DEF DangerNext
<1> QED
  BY <1>1, <1>2, PushIsInvariant, PTL DEF DangerSpec

(* Confirms go from place to place.                                                         *)
LEMMA PlacedOf ==
    ASSUME DangerTypeOK, NEW c \in Confirms, NEW at \in {"loaded", "sent", "done"},
           confirm'[c].at = at, \A d \in Confirms \ {c} : confirm'[d] = confirm[d]
    PROVE  Placed' = [Placed EXCEPT ![c] = CASE at = "loaded" -> "inside"
                                             [] at = "sent" -> "sent"
                                             [] at = "done" -> "gone"]
BY DEF Placed, At

(* Rows that nobody touches look as they did.                                               *)
LEMMA DoorsFrame ==
    ASSUME UNCHANGED pushRow
    PROVE  Doors' = Doors /\ Attempts' = Attempts
BY DEF Doors, Door, Staged, Attempts

(* Consuming a row shuts its door, if it has one.                                           *)
LEMMA DoorsShut ==
    ASSUME DangerTypeOK, NEW p \in PushIds, pushRow[p].state # "none", Consume(p)
    PROVE  Doors' = [Doors EXCEPT ![p] = "shut"] /\ Attempts' = Attempts
<1>1. CASE Staged(p)
  <2>1. pushRow' = [pushRow EXCEPT ![p].consumed = TRUE]
    BY <1>1 DEF Consume
  <2>2. /\ Door(p)' = "shut" /\ pushRow'[p].attempts = pushRow[p].attempts
        /\ \A q \in PushIds \ {p} : Door(q)' = Door(q) /\ pushRow'[q] = pushRow[q]
    BY <1>1, <2>1 DEF Door, Staged, DangerTypeOK, PushRow
  <2> QED
    BY <2>2 DEF Doors, Attempts
<1>2. CASE ~Staged(p)
  <2>1. Door(p) = "shut"
    BY <1>2 DEF Door
  <2> QED
    BY <1>2, <2>1, DoorsFrame DEF Consume, Doors
<1> QED
  BY <1>1, <1>2

(* What a confirm that is cut off looks like.                                               *)
LEMMA SlipOf ==
    ASSUME DangerTypeOK, NEW c \in Confirms, confirm[c].at \in {"loaded", "sent"},
           NEW a \in ConfirmAnswers, Ends(c, a), Refuses, UNCHANGED <<pushRow, delivered>>
    PROVE  Staging!Next
<1>1. Placed' = [Placed EXCEPT ![c] = "gone"]
  BY PlacedOf DEF Ends, DangerTypeOK, Confirm
<1>2. c \in {d \in Confirms : Placed[d] \in {"inside", "sent"}}
  BY DEF Placed, At
<1>3. Placed' = [d \in Confirms |-> IF d \in {c} THEN "gone" ELSE Placed[d]]
  BY <1>1 DEF Placed
<1>4. Staging!Slip({c})
  BY <1>3, DoorsFrame DEF Staging!Slip, Refuses, Doors, Attempts, Placed
<1>5. {c} \in SUBSET {d \in Confirms : Placed[d] \in {"inside", "sent"}}
  BY <1>2
<1> QED
  BY <1>4, <1>5 DEF Staging!Next, Placed

(* The initial states.                                                                      *)
LEMMA RefinesInit == DangerInit => Staging!Init
<1> SUFFICES ASSUME DangerInit PROVE Staging!Init
  OBVIOUS
<1>1. \A p \in PushIds : Door(p) = "none" /\ pushRow[p].attempts = 0
  <2>1. \A p \in PushIds : pushRow[p].state = "none" /\ pushRow[p].attempts = 0
    BY DEF DangerInit
  <2> QED
    BY <2>1 DEF Door, Staged
<1>2. \A c \in Confirms : At(c) = "outside"
  BY DEF DangerInit, At
<1> QED
  BY <1>1, <1>2 DEF DangerInit, Staging!Init

(* What a confirm does, StagedPush does or does not see.                                    *)
LEMMA RefinesConfirm ==
    ASSUME PushInv, Fresh, NEW c \in Confirms, Confirming(c)
    PROVE  Staging!Next \/ UNCHANGED Staging!vars
<1> USE DangerAssumption
<1>0. DangerTypeOK /\ c.push \in PushIds
  BY DEF PushInv
<1>1. CASE Loads(c)
  <2>1. confirm[c].at = "idle" /\ UNCHANGED <<pushRow, delivered, refused>>
    BY <1>1 DEF Loads
  <2>2. confirm'[c].at = IF Door(c.push) = "open" THEN "loaded" ELSE "done"
    BY <1>0, <1>1 DEF Loads, Ends, Door, Staged, DangerTypeOK, Confirm
  <2>3. \A d \in Confirms \ {c} : confirm'[d] = confirm[d]
    BY <1>0, <1>1 DEF Loads, Ends, DangerTypeOK
  <2>4. Placed' = [Placed EXCEPT ![c] = IF Doors[c.push] = "open" THEN "inside" ELSE "gone"]
    BY <1>0, <2>2, <2>3, PlacedOf DEF Doors
  <2>5. Placed[c] = "outside"
    BY <2>1 DEF Placed, At
  <2>6. Staging!Enter(c)
    BY <2>1, <2>4, <2>5, DoorsFrame DEF Staging!Enter, Staging!Goes, Doors, Attempts, Placed
  <2> QED
    BY <2>6 DEF Staging!Next
<1>2. CASE Strikes(c)
  <2>1. /\ Placed[c] = "inside" /\ ~c.right /\ Staged(c.push) /\ UNCHANGED <<delivered, refused>>
        /\ Ends(c, "struck")
    BY <1>2 DEF Strikes, Placed, At
  <2>2. Placed' = [Placed EXCEPT ![c] = "gone"]
    BY <1>0, <2>1, PlacedOf DEF Ends, DangerTypeOK, Confirm
  <2>3. /\ pushRow'[c.push].attempts = pushRow[c.push].attempts + 1
        /\ Door(c.push)' = IF pushRow[c.push].attempts + 1 >= MaxStrikes THEN "shut" ELSE Door(c.push)
        /\ \A q \in PushIds \ {c.push} : Door(q)' = Door(q) /\ pushRow'[q] = pushRow[q]
    BY <1>0, <1>2, <2>1 DEF Strikes, Door, Staged, DangerTypeOK, PushRow
  <2>4. Attempts' = [Attempts EXCEPT ![c.push] = @ + 1]
    BY <1>0, <2>3 DEF Attempts
  <2>5. IF Attempts'[c.push] >= MaxStrikes THEN Doors' = [Doors EXCEPT ![c.push] = "shut"] ELSE Doors' = Doors
    BY <1>0, <2>3 DEF Attempts, Doors
  <2>6. Staging!Strike(c)
    BY <2>1, <2>2, <2>4, <2>5 DEF Staging!Strike, Staging!Shut, Staging!Goes, Doors, Attempts, Placed
  <2> QED
    BY <2>6 DEF Staging!Next
<1>3. CASE StrikeMisses(c)
  <2>1. confirm[c].at = "loaded" /\ ~c.right /\ Ends(c, "mismatch") /\ UNCHANGED <<pushRow, delivered>>
    BY <1>3 DEF StrikeMisses
  <2>2. CASE Refuses
    BY <1>0, <2>1, <2>2, SlipOf DEF ConfirmAnswers
  <2>3. CASE ~Staged(c.push) /\ UNCHANGED refused
    <3>0. Placed[c] = "inside"
      BY <2>1 DEF Placed, At
    <3>1. Placed' = [Placed EXCEPT ![c] = "gone"]
      BY <1>0, <2>1, PlacedOf DEF Ends, DangerTypeOK, Confirm
    <3>2. Doors[c.push] = "shut"
      BY <1>0, <2>1, <2>3 DEF PushInv, UnderWay, Doors, Door
    <3>3. Staging!Leave(c)
      BY <2>1, <2>3, <3>0, <3>1, <3>2, DoorsFrame DEF Staging!Leave, Staging!Goes, Doors, Attempts, Placed
    <3> QED
      BY <3>3 DEF Staging!Next
  <2> QED
    BY <1>3, <2>2, <2>3 DEF StrikeMisses
<1>4. CASE Invalidates(c)
  <2>1. confirm[c].at = "loaded" /\ c.right /\ Ends(c, "invalidated") /\ UNCHANGED delivered
    BY <1>4 DEF Invalidates
  <2>2. CASE UNCHANGED pushRow /\ Refuses
    BY <1>0, <2>1, <2>2, SlipOf DEF ConfirmAnswers
  <2>3. CASE Consume(c.push) /\ UNCHANGED refused
    <3>0. Placed[c] = "inside"
      BY <2>1 DEF Placed, At
    <3>1. Placed' = [Placed EXCEPT ![c] = "gone"]
      BY <1>0, <2>1, PlacedOf DEF Ends, DangerTypeOK, Confirm
    <3>2. Doors' = [Doors EXCEPT ![c.push] = "shut"] /\ Attempts' = Attempts
      BY <1>0, <2>1, <2>3, DoorsShut DEF PushInv, UnderWay
    <3>3. Staging!ShutAndLeave(c)
      BY <2>1, <2>3, <3>0, <3>1, <3>2 DEF Staging!ShutAndLeave, Staging!Shut, Staging!Goes, Doors, Attempts, Placed
    <3> QED
      BY <3>3 DEF Staging!Next
  <2> QED
    BY <1>4, <2>2, <2>3 DEF Invalidates
<1>5. CASE Delivers(c)
  <2>1. Placed[c] = "inside" /\ c.right /\ UNCHANGED <<pushRow, refused>>
    BY <1>5 DEF Delivers, Placed, At
  <2>2. Placed' = [Placed EXCEPT ![c] = "sent"]
    BY <1>0, <1>5, PlacedOf DEF Delivers, DangerTypeOK, Confirm
  <2>3. Staging!Deliver(c)
    BY <1>5, <2>1, <2>2, DoorsFrame DEF Delivers, Staging!Deliver, Staging!Goes, Doors, Attempts, Placed
  <2> QED
    BY <2>3 DEF Staging!Next
<1>6. CASE FindsOffline(c)
  <2>1. Placed[c] = "inside" /\ c.right /\ Ends(c, "offline") /\ UNCHANGED <<pushRow, delivered, refused>>
    BY <1>6 DEF FindsOffline, Placed, At
  <2>2. Placed' = [Placed EXCEPT ![c] = "gone"]
    BY <1>0, <2>1, PlacedOf DEF Ends, DangerTypeOK, Confirm
  <2>3. Staging!Leave(c)
    BY <2>1, <2>2, DoorsFrame DEF Staging!Leave, Staging!Goes, Doors, Attempts, Placed
  <2> QED
    BY <2>3 DEF Staging!Next
<1>7. CASE Consumes(c)
  <2>1. /\ Placed[c] = "sent" /\ Consume(c.push) /\ Ends(c, "ok") /\ UNCHANGED <<delivered, refused>>
        /\ confirm[c].at = "sent"
    BY <1>7 DEF Consumes, Placed, At
  <2>2. Placed' = [Placed EXCEPT ![c] = "gone"]
    BY <1>0, <2>1, PlacedOf DEF Ends, DangerTypeOK, Confirm
  <2>3. Doors' = [Doors EXCEPT ![c.push] = "shut"] /\ Attempts' = Attempts
    BY <1>0, <2>1, DoorsShut DEF PushInv, UnderWay
  <2>4. Staging!ShutAndLeave(c)
    BY <2>1, <2>2, <2>3 DEF Staging!ShutAndLeave, Staging!Shut, Staging!Goes, Doors, Attempts, Placed
  <2> QED
    BY <2>4 DEF Staging!Next
<1>8. CASE ConsumeRefused(c)
  BY <1>0, <1>8, SlipOf DEF ConsumeRefused, ConfirmAnswers
<1> QED
  BY <1>1, <1>2, <1>3, <1>4, <1>5, <1>6, <1>7, <1>8 DEF Confirming

(* So does everything else: staging, time, the janitor and a restart.                       *)
LEMMA RefinesOthers ==
    ASSUME PushInv, Fresh,
           \/ \E p \in PushIds : StagesPush(p) \/ Expires(p)
           \/ PushServerRestarts \/ Sweeps
    PROVE  Staging!Next \/ UNCHANGED Staging!vars
<1>0. DangerTypeOK
  BY DEF PushInv
<1>1. ASSUME NEW p \in PushIds, StagesPush(p) PROVE Staging!Next
  <2>1. /\ Door(p) = "none" /\ Door(p)' = "open" /\ pushRow'[p].attempts = pushRow[p].attempts
        /\ \A q \in PushIds \ {p} : Door(q)' = Door(q) /\ pushRow'[q] = pushRow[q]
    BY <1>0, <1>1 DEF StagesPush, Fresh, Door, Staged, DangerTypeOK, PushRow
  <2>2. Doors[p] = "none" /\ Doors' = [Doors EXCEPT ![p] = "open"] /\ Attempts' = Attempts
    BY <2>1 DEF Doors, Attempts
  <2>3. Placed' = Placed
    BY <1>1 DEF StagesPush, Placed, At
  <2>4. Staging!Open(p)
    BY <1>1, <2>2, <2>3 DEF StagesPush, Staging!Open, Doors, Attempts, Placed
  <2> QED
    BY <2>4 DEF Staging!Next
<1>2. ASSUME NEW p \in PushIds, Expires(p) PROVE Staging!Next \/ UNCHANGED Staging!vars
  <2>1. /\ Door(p) \in {"open", "shut"} /\ Door(p)' = "shut" /\ pushRow'[p].attempts = pushRow[p].attempts
        /\ \A q \in PushIds \ {p} : Door(q)' = Door(q) /\ pushRow'[q] = pushRow[q]
    BY <1>0, <1>2 DEF Expires, Door, Staged, DangerTypeOK, PushRow
  <2>2. Doors[p] \in {"open", "shut"} /\ Doors' = [Doors EXCEPT ![p] = "shut"] /\ Attempts' = Attempts
    BY <2>1 DEF Doors, Attempts
  <2>3. Placed' = Placed /\ UNCHANGED <<delivered, refused>>
    BY <1>2 DEF Expires, Placed, At
  <2>4. CASE Doors[p] = "open"
    <3>1. Staging!Expire(p)
      BY <2>2, <2>3, <2>4 DEF Staging!Expire, Staging!Shut, Doors, Attempts, Placed
    <3> QED
      BY <3>1 DEF Staging!Next
  <2>5. CASE Doors[p] = "shut"
    <3>1. Doors' = Doors
      BY <2>2, <2>5 DEF Doors
    <3> QED
      BY <2>2, <2>3, <3>1 DEF Staging!vars, Doors, Attempts, Placed
  <2> QED
    BY <2>2, <2>4, <2>5
<1>3. CASE PushServerRestarts
  <2> DEFINE S == {c \in Confirms : Placed[c] \in {"inside", "sent"}}
  <2>1. \A c \in Confirms : At(c)' = IF At(c) \in {"inside", "sent"} THEN "gone" ELSE At(c)
    BY <1>0, <1>3 DEF PushServerRestarts, At, DangerTypeOK, Confirm
  <2>2. Placed' = [c \in Confirms |-> IF c \in S THEN "gone" ELSE Placed[c]]
    BY <2>1 DEF Placed
  <2>3. Doors' = Doors /\ Attempts' = Attempts
    BY <1>3, DoorsFrame DEF PushServerRestarts
  <2>4. Staging!Slip(S)
    BY <1>3, <2>2, <2>3 DEF PushServerRestarts, Refuses, Staging!Slip, Doors, Attempts, Placed
  <2>5. S \in SUBSET {c \in Confirms : Placed[c] \in {"inside", "sent"}}
    OBVIOUS
  <2> QED
    BY <2>4, <2>5 DEF Staging!Next, Placed
<1>4. CASE Sweeps
  <2>1. \A p \in PushIds : Door(p)' = Door(p) /\ pushRow'[p].attempts = pushRow[p].attempts
    BY <1>0, <1>4 DEF Sweeps, Stale, Staged, Door, DangerTypeOK, PushRow
  <2>2. Doors' = Doors /\ Attempts' = Attempts
    BY <2>1 DEF Doors, Attempts
  <2> QED
    BY <1>4, <2>2 DEF Sweeps, Staging!vars, Doors, Attempts, Placed, At
<1> QED
  BY <1>1, <1>2, <1>3, <1>4

(* However confirms, expiry, the janitor, refused statements and restarts overlap, a push  *)
(* keeps what StagedPush promises (HandleConfirm and the statements it makes).             *)
THEOREM KeepsPushPromise == DangerSpec => PushSpec
<1>1. PushInv /\ Fresh /\ [DangerNext]_dangerVars => [Staging!Next]_(Staging!vars)
  <2> SUFFICES ASSUME PushInv, Fresh, [DangerNext]_dangerVars
               PROVE  Staging!Next \/ UNCHANGED Staging!vars
    OBVIOUS
  <2>1. CASE UNCHANGED dangerVars
    BY <2>1, DoorsFrame DEF dangerVars, Staging!vars, Doors, Attempts, At
  <2>2. CASE DangerNext
    BY <2>2, RefinesConfirm, RefinesOthers DEF DangerNext
  <2> QED
    BY <2>1, <2>2
<1>2. [Staging!Next]_(Staging!vars) => [Staging!vars' # Staging!vars /\ Staging!Next]_(Staging!vars)
  OBVIOUS
<1> QED
  BY <1>1, <1>2, RefinesInit, PushIsInvariant, FreshInvariant, PTL DEF DangerSpec, PushSpec, Staging!Spec
=============================================================================
