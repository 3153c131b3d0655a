------------------------- MODULE BizStatusQueryProofs -------------------------
(* Proofs about the queries of the HTTP tunnel, for every number of bases, *)
(* calls and bound.                                                        *)
EXTENDS BizStatusQuery, TLAPS

(* Before the first call nothing is locked and nothing was seen.           *)
LEMMA QueryInvInit == Init => QueryInv
<1> SUFFICES ASSUME Init PROVE QueryInv
  OBVIOUS
<1>1. TypeOK
  <2>1. call \in [Call -> CallState]
    BY DEF Init, CallState, CallPc
  <2>2. left \in Left
    BY QueryBounds DEF Init, Left
  <2>3. QED
    BY <2>1, <2>2 DEF Init, TypeOK
<1>2. LockedWhileQuerying /\ SeenIsFresh
  BY DEF Init, LockedWhileQuerying, Querying, SeenIsFresh
<1>3. QED
  BY <1>1, <1>2 DEF QueryInv

(* Moving one call to another line leaves a well-formed call.              *)
LEMMA GotoType ==
    ASSUME TypeOK, NEW c \in Call, NEW pc \in CallPc, Goto(c, pc)
    PROVE  /\ call' \in [Call -> CallState]
           /\ call'[c].pc = pc /\ call'[c].node = call[c].node
           /\ call'[c].seen = call[c].seen
           /\ \A x \in Call \ {c} : call'[x] = call[x]
BY DEF TypeOK, Goto, CallState

(* A step of the lock holder between TryLock and Unlock keeps the lock.    *)
LEMMA HolderKeepsLock ==
    ASSUME QueryInv, NEW c \in Call, c \in Querying, UNCHANGED locked,
           call'[c].pc \in {"locked", "lookup", "calling", "answered", "unlock"},
           \A x \in Call \ {c} : call'[x] = call[x]
    PROVE  LockedWhileQuerying'
<1>1. locked /\ Querying = {c}
  BY DEF QueryInv, TypeOK, LockedWhileQuerying
<1>2. Querying' = Querying
  BY <1>1 DEF Querying
<1>3. QED
  BY <1>1, <1>2 DEF LockedWhileQuerying

(* A step of a call outside the lock, or of the surroundings, does too.    *)
LEMMA OthersKeepLock ==
    ASSUME QueryInv, UNCHANGED locked,
           \A x \in Call : \/ call'[x].pc = call[x].pc
                           \/ x \notin Querying /\ x \notin Querying'
    PROVE  LockedWhileQuerying'
<1>1. Querying' = Querying
  BY DEF Querying
<1>2. QED
  BY <1>1 DEF QueryInv, LockedWhileQuerying

(* The calls that have an answer in hand are where the freshness of what   *)
(* was seen matters; a step that moves no other call there, delivers       *)
(* nothing and lets no base forget keeps it.                               *)
LEMMA FreshnessKept ==
    ASSUME QueryInv, TypeOK', UNCHANGED delivered,
           \A n \in Node : biz'[n] >= biz[n],
           \A x \in Call : call'[x].pc = "answered" => call'[x] = call[x]
    PROVE  SeenIsFresh'
<1>1. /\ biz \in [Node -> Nat] /\ biz' \in [Node -> Nat]
      /\ delivered \in [Node -> Nat] /\ call \in [Call -> CallState]
  BY DEF QueryInv, TypeOK
<1>2. \A n \in Node : delivered'[n] <= biz'[n]
  BY <1>1 DEF QueryInv, SeenIsFresh
<1>3. ASSUME NEW x \in Call, call'[x].pc = "answered"
      PROVE  /\ delivered'[call'[x].node] <= call'[x].seen
             /\ call'[x].seen <= biz'[call'[x].node]
  <2>1. call'[x] = call[x] /\ call[x].node \in Node /\ call[x].seen \in Nat
    BY <1>1, <1>3 DEF CallState
  <2>2. QED
    BY <1>1, <1>3, <2>1 DEF QueryInv, SeenIsFresh
<1>4. QED
  BY <1>2, <1>3 DEF SeenIsFresh

(* What surrounds the tunnel: new calls, changing bases, registrations.    *)
LEMMA SurroundingsStep ==
    ASSUME QueryInv, NEW n \in Node,
           (\E c \in Call : Request(c, n)) \/ BizChanges(n) \/ KnownChanges(n)
    PROVE  QueryInv'
<1>1. TypeOK'
  <2>1. ASSUME NEW c \in Call, Request(c, n) PROVE TypeOK'
    BY <2>1 DEF QueryInv, TypeOK, Request, CallState, CallPc, Left
  <2>2. CASE BizChanges(n)
    BY <2>2 DEF QueryInv, TypeOK, BizChanges, Left
  <2>3. CASE KnownChanges(n)
    BY <2>3 DEF QueryInv, TypeOK, KnownChanges, Left
  <2>4. QED
    BY <2>1, <2>2, <2>3
<1>2. LockedWhileQuerying'
  <2>1. /\ UNCHANGED locked
        /\ \A x \in Call : \/ call'[x].pc = call[x].pc
                           \/ x \notin Querying /\ x \notin Querying'
    BY DEF QueryInv, TypeOK, Request, BizChanges, KnownChanges, Querying
  <2>2. QED
    BY <2>1, OthersKeepLock
<1>3. SeenIsFresh'
  <2>1. /\ UNCHANGED delivered
        /\ \A m \in Node : biz'[m] >= biz[m]
        /\ \A x \in Call : call'[x].pc = "answered" => call'[x] = call[x]
    BY DEF QueryInv, TypeOK, Request, BizChanges, KnownChanges
  <2>2. QED
    BY <1>1, <2>1, FreshnessKept
<1>4. QED
  BY <1>1, <1>2, <1>3 DEF QueryInv

(* The lines of a call that only move it on, outside the lock or inside.   *)
LEMMA PlainStep ==
    ASSUME QueryInv, NEW c \in Call,
           \/ MarkOutdated(c)
           \/ ResetOutdated(c)
           \/ Lookup(c)
           \/ BaseFails(c)
           \/ CheckOutdated(c)
    PROVE  QueryInv'
<1> USE DEF CallPc
<1>1. PICK pc \in CallPc \ {"answered"} : Goto(c, pc)
  BY DEF MarkOutdated, ResetOutdated, Lookup, BaseFails, CheckOutdated
<1>2. TypeOK
  BY DEF QueryInv
<1>3. /\ call' \in [Call -> CallState]
      /\ call'[c].pc = pc
      /\ \A x \in Call \ {c} : call'[x] = call[x]
  BY <1>1, <1>2, GotoType
<1>4. UNCHANGED <<locked, biz, delivered, known, left>>
  BY DEF MarkOutdated, ResetOutdated, Lookup, BaseFails, CheckOutdated
<1>5. outdated' \in BOOLEAN /\ pending' \in SUBSET Node
  BY <1>2 DEF TypeOK, MarkOutdated, ResetOutdated, Lookup, BaseFails, CheckOutdated
<1>6. TypeOK'
  BY <1>2, <1>3, <1>4, <1>5 DEF TypeOK
<1>7. LockedWhileQuerying'
  <2>1. CASE c \in Querying
    <3>1. pc \in {"lookup", "calling", "unlock"}
      BY <1>1, <1>2, <1>3, <2>1
         DEF MarkOutdated, ResetOutdated, Lookup, BaseFails, CheckOutdated, Goto,
             Querying, TypeOK, CallState
    <3>2. QED
      BY <1>3, <1>4, <2>1, <3>1, HolderKeepsLock
  <2>2. CASE c \notin Querying
    <3>1. pc \in {"idle", "start"}
      BY <1>1, <1>2, <1>3, <2>2
         DEF MarkOutdated, ResetOutdated, Lookup, BaseFails, CheckOutdated, Goto,
             Querying, TypeOK, CallState
    <3>2. c \notin Querying'
      BY <1>3, <3>1 DEF Querying
    <3>3. QED
      BY <1>3, <1>4, <2>2, <3>2, OthersKeepLock
  <2>3. QED
    BY <2>1, <2>2
<1>8. SeenIsFresh'
  <2>1. \A n \in Node : biz'[n] >= biz[n]
    BY <1>2, <1>4 DEF TypeOK
  <2>2. \A x \in Call : call'[x].pc = "answered" => call'[x] = call[x]
    BY <1>1, <1>3
  <2>3. QED
    BY <1>4, <1>6, <2>1, <2>2, FreshnessKept
<1>9. QED
  BY <1>6, <1>7, <1>8 DEF QueryInv

(* TryLock makes a call the only holder, or refuses it.                    *)
LEMMA TryLockStep ==
    ASSUME QueryInv, NEW c \in Call, TryLock(c)
    PROVE  QueryInv'
<1>1. PICK pc \in {"refused", "locked"} :
        Goto(c, pc) /\ (pc = "refused" <=> locked)
  BY DEF TryLock
<1>2. TypeOK
  BY DEF QueryInv
<1>3. /\ call' \in [Call -> CallState]
      /\ call'[c].pc = pc
      /\ \A x \in Call \ {c} : call'[x] = call[x]
  BY <1>1, <1>2, GotoType DEF CallPc
<1>4. /\ UNCHANGED <<outdated, known, biz, delivered, pending, left>>
      /\ locked' = TRUE /\ call[c].pc = "start"
  BY DEF TryLock
<1>5. TypeOK'
  BY <1>2, <1>3, <1>4 DEF TypeOK
<1>6. LockedWhileQuerying'
  <2>1. CASE locked
    <3>1. Querying' = Querying
      BY <1>1, <1>3, <1>4, <2>1 DEF Querying
    <3>2. QED
      BY <1>4, <2>1, <3>1 DEF QueryInv, LockedWhileQuerying
  <2>2. CASE ~locked
    <3>1. Querying = {} /\ pc = "locked"
      BY <1>1, <2>2 DEF QueryInv, LockedWhileQuerying
    <3>2. Querying' = {c}
      BY <1>3, <3>1 DEF Querying
    <3>3. QED
      BY <1>4, <3>2 DEF LockedWhileQuerying
  <2>3. QED
    BY <2>1, <2>2
<1>7. SeenIsFresh'
  <2>1. \A n \in Node : biz'[n] >= biz[n]
    BY <1>2, <1>4 DEF TypeOK
  <2>2. \A x \in Call : call'[x].pc = "answered" => call'[x] = call[x]
    BY <1>1, <1>3
  <2>3. QED
    BY <1>4, <1>5, <2>1, <2>2, FreshnessKept
<1>8. QED
  BY <1>5, <1>6, <1>7 DEF QueryInv

(* Unlock ends the query of the only holder.                               *)
LEMMA UnlockStep ==
    ASSUME QueryInv, NEW c \in Call, Unlock(c)
    PROVE  QueryInv'
<1>1. TypeOK
  BY DEF QueryInv
<1>2. /\ call' \in [Call -> CallState]
      /\ call'[c].pc = "check"
      /\ \A x \in Call \ {c} : call'[x] = call[x]
  BY <1>1, GotoType DEF CallPc, Unlock
<1>3. /\ UNCHANGED <<outdated, known, biz, delivered, pending, left>>
      /\ locked' = FALSE /\ c \in Querying
  BY DEF Unlock, Querying
<1>4. TypeOK'
  BY <1>1, <1>2, <1>3 DEF TypeOK
<1>5. LockedWhileQuerying'
  <2>1. Querying = {c}
    BY <1>1, <1>3 DEF QueryInv, LockedWhileQuerying, TypeOK
  <2>2. Querying' = {}
    BY <1>2, <2>1 DEF Querying
  <2>3. QED
    BY <1>3, <2>2 DEF LockedWhileQuerying
<1>6. SeenIsFresh'
  <2>1. \A n \in Node : biz'[n] >= biz[n]
    BY <1>1, <1>3 DEF TypeOK
  <2>2. \A x \in Call : call'[x].pc = "answered" => call'[x] = call[x]
    BY <1>2
  <2>3. QED
    BY <1>3, <1>4, <2>1, <2>2, FreshnessKept
<1>7. QED
  BY <1>4, <1>5, <1>6 DEF QueryInv

(* The base answers with what it has now, which is as new as anything that *)
(* was delivered before.                                                   *)
LEMMA BaseAnswersStep ==
    ASSUME QueryInv, NEW c \in Call, BaseAnswers(c)
    PROVE  QueryInv'
<1>1. TypeOK /\ call[c] \in CallState /\ call[c].pc = "calling"
  BY DEF QueryInv, TypeOK, BaseAnswers
<1>2. /\ call' \in [Call -> CallState]
      /\ call'[c].pc = "answered"
      /\ call'[c].node = call[c].node
      /\ call'[c].seen = biz[call[c].node]
      /\ \A x \in Call \ {c} : call'[x] = call[x]
  BY <1>1 DEF BaseAnswers, TypeOK, CallState, CallPc
<1>3. UNCHANGED <<locked, outdated, known, biz, delivered, left>>
  BY DEF BaseAnswers
<1>4. TypeOK'
  BY <1>1, <1>2, <1>3 DEF TypeOK, BaseAnswers
<1>5. LockedWhileQuerying'
  BY <1>1, <1>2, <1>3, HolderKeepsLock DEF Querying
<1>6. SeenIsFresh'
  <2>1. call[c].node \in Node /\ biz[call[c].node] \in Nat
    BY <1>1 DEF CallState, TypeOK
  <2>2. QED
    BY <1>2, <1>3, <2>1 DEF QueryInv, SeenIsFresh
<1>7. QED
  BY <1>4, <1>5, <1>6 DEF QueryInv

(* The only holder delivers what it has seen.                              *)
LEMMA DeliverStep ==
    ASSUME QueryInv, NEW c \in Call, Deliver(c)
    PROVE  /\ QueryInv'
           /\ \A n \in Node : delivered'[n] >= delivered[n]
<1>1. TypeOK /\ call[c] \in CallState /\ call[c].pc = "answered" /\ c \in Querying
  BY DEF QueryInv, TypeOK, Deliver, Querying
<1>2. /\ call' \in [Call -> CallState]
      /\ call'[c].pc = "unlock"
      /\ \A x \in Call \ {c} : call'[x] = call[x]
  BY <1>1, GotoType DEF CallPc, Deliver
<1>3. UNCHANGED <<locked, outdated, known, biz, pending, left>>
  BY DEF Deliver
<1>4. /\ call[c].node \in Node /\ call[c].seen \in Nat
      /\ delivered[call[c].node] <= call[c].seen
      /\ call[c].seen <= biz[call[c].node]
  BY <1>1 DEF QueryInv, SeenIsFresh, CallState
<1>5. /\ delivered' \in [Node -> Nat]
      /\ \A n \in Node : delivered'[n] >= delivered[n] /\ delivered'[n] <= biz[n]
  BY <1>1, <1>4 DEF Deliver, TypeOK, QueryInv, SeenIsFresh
<1>6. TypeOK'
  BY <1>1, <1>2, <1>3, <1>5 DEF TypeOK
<1>7. LockedWhileQuerying'
  BY <1>1, <1>2, <1>3, HolderKeepsLock
<1>8. SeenIsFresh'
  <2>1. Querying = {c}
    BY <1>1 DEF QueryInv, LockedWhileQuerying, TypeOK
  <2>2. \A x \in Call : call'[x].pc # "answered"
    BY <1>2, <2>1 DEF Querying
  <2>3. QED
    BY <1>3, <1>5, <2>2 DEF SeenIsFresh
<1>9. QED
  BY <1>5, <1>6, <1>7, <1>8 DEF QueryInv

(* Every step keeps the invariant and delivers nothing old.                *)
LEMMA QueryInvNext ==
    QueryInv /\ [Next]_vars =>
        QueryInv' /\ \A n \in Node : delivered'[n] >= delivered[n]
<1> SUFFICES ASSUME QueryInv, [Next]_vars
             PROVE  QueryInv' /\ \A n \in Node : delivered'[n] >= delivered[n]
  OBVIOUS
<1> DEFINE Goal == QueryInv' /\ \A n \in Node : delivered'[n] >= delivered[n]
<1>1. delivered' = delivered => \A n \in Node : delivered'[n] >= delivered[n]
  BY DEF QueryInv, TypeOK
<1>2. CASE UNCHANGED vars
  BY <1>1, <1>2 DEF vars, QueryInv, TypeOK, LockedWhileQuerying, Querying, SeenIsFresh
<1>3. ASSUME NEW n \in Node,
             (\E c \in Call : Request(c, n)) \/ BizChanges(n) \/ KnownChanges(n)
      PROVE  Goal
  BY <1>1, <1>3, SurroundingsStep DEF Request, BizChanges, KnownChanges
<1>4. ASSUME NEW c \in Call, Step(c) \/ BaseAnswers(c) \/ BaseFails(c)
      PROVE  Goal
  <2>1. CASE Deliver(c)
    BY <2>1, DeliverStep
  <2>2. CASE TryLock(c)
    BY <1>1, <2>2, TryLockStep DEF TryLock
  <2>3. CASE Unlock(c)
    BY <1>1, <2>3, UnlockStep DEF Unlock
  <2>4. CASE BaseAnswers(c)
    BY <1>1, <2>4, BaseAnswersStep DEF BaseAnswers
  <2>5. CASE \/ MarkOutdated(c)
             \/ ResetOutdated(c)
             \/ Lookup(c)
             \/ BaseFails(c)
             \/ CheckOutdated(c)
    BY <1>1, <2>5, PlainStep
       DEF MarkOutdated, ResetOutdated, Lookup, BaseFails, CheckOutdated
  <2>6. QED
    BY <1>4, <2>1, <2>2, <2>3, <2>4, <2>5 DEF Step
<1>5. QED
  BY <1>2, <1>3, <1>4 DEF Next

(* The lock is free, or exactly one call is between TryLock and Unlock:    *)
(* no error path leaves the tunnel locked and no two queries overlap.      *)
THEOREM LockNeverLeft == Spec => []LockedWhileQuerying
<1>1. QueryInv => LockedWhileQuerying
  BY DEF QueryInv
<1>2. QED
  BY <1>1, QueryInvInit, QueryInvNext, PTL DEF Spec

(* The lists of modules of a base reach the vnode controller in the order  *)
(* in which the base had them.                                             *)
THEOREM ListsInOrder == Spec => DeliveriesInOrder
<1>1. QueryInv /\ [Next]_vars => [\A n \in Node : delivered'[n] >= delivered[n]]_vars
  BY QueryInvNext
<1>2. QED
  BY <1>1, QueryInvInit, QueryInvNext, PTL DEF Spec, DeliveriesInOrder
=============================================================================
