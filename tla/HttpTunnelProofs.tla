--------------------------- MODULE HttpTunnelProofs ---------------------------
(* Proofs about the HTTP tunnel, for every number of bases, goroutines,    *)
(* restarts and calls.                                                     *)
EXTENDS HttpTunnel, TLAPS

(* A task that owes a report is a command past its lookup.                 *)
OwedAreCommands ==
    \A t \in owed : task[t].kind \in Command /\ task[t].pc \in {"idle", "calling", "answered"}

(* SUCCESS comes from a base that carried the call out.                    *)
SuccessIsCarried == \A t \in Task : task[t].outcome = "SUCCESS" => t \in carried

(* The goroutines of the discovery server handle heartbeats only.          *)
HandlersBeat == \A t \in Handler : task[t].kind = "heartbeat"

(* The inductive invariant.                                                *)
TunnelInv ==
    /\ TypeOK
    /\ MutexHeld
    /\ HeartbeatWins
    /\ OutcomesReported
    /\ OwedAreCommands
    /\ SuccessIsCarried
    /\ HandlersBeat

LEMMA TunnelInvInit == Init => TunnelInv
<1> SUFFICES ASSUME Init PROVE TunnelInv
  OBVIOUS
<1>1. /\ task \in [Task -> TaskState]
      /\ \A t \in Task : /\ task[t].pc = "idle" /\ task[t].outcome = "none"
                          /\ task[t].kind = "heartbeat"
  BY DEF Init, TaskState, Outcome
<1>2. [starts |-> MaxStarts, calls |-> MaxCalls] \in [starts : Nat, calls : Nat]
  BY TunnelBounds
<1>3. TypeOK
  <2>1. /\ incarnation \in [Node -> Nat \ {0}] /\ up \in SUBSET Node
        /\ installed \in SUBSET up /\ address \in [Node -> Nat]
        /\ holder \in SUBSET Task /\ owed \in SUBSET Task
        /\ carried \in SUBSET Task
    BY DEF Init
  <2>2. /\ callbacks \in BOOLEAN /\ discovered \in [Node -> Nat]
        /\ reported \in [Node -> {"none", "ACTIVATED", "BROKEN"}]
        /\ beat \in [Node -> Nat]
    BY DEF Init
  <2>3. left \in [starts : Nat, calls : Nat]
    BY <1>2 DEF Init
  <2>4. QED
    BY <1>1, <2>1, <2>2, <2>3 DEF TypeOK
<1>4. /\ MutexHeld /\ HeartbeatWins /\ OutcomesReported /\ OwedAreCommands
      /\ SuccessIsCarried /\ HandlersBeat
  BY <1>1 DEF Init, Task, MutexHeld, HeartbeatWins, OutcomesReported, OwedAreCommands,
              SuccessIsCarried, HandlersBeat
<1>5. QED
  BY <1>3, <1>4 DEF TunnelInv

-----------------------------------------------------------------------------
(* Steps by kind.  Each lemma covers all conjuncts of the invariant.       *)

(* A step that leaves the tasks alone, and so the mutex.                   *)
LEMMA SurroundingsStep ==
    ASSUME TunnelInv,
           \/ \E n \in Node : BaseStops(n) \/ BaseStarts(n)
           \/ RegisterCallback
           \/ UNCHANGED vars
    PROVE  TunnelInv'
<1>1. UNCHANGED <<task, holder, address, beat, owed, carried>>
  BY DEF BaseStops, BaseStarts, RegisterCallback, vars
<1>2. /\ MutexHeld' /\ HeartbeatWins' /\ OutcomesReported' /\ OwedAreCommands'
      /\ SuccessIsCarried' /\ HandlersBeat'
  BY <1>1 DEF TunnelInv, MutexHeld, HeartbeatWins, OutcomesReported, OwedAreCommands,
              SuccessIsCarried, HandlersBeat
<1>3. TypeOK'
  <2>1. TypeOK
    BY DEF TunnelInv
  <2>2. ASSUME NEW n \in Node, BaseStops(n) PROVE TypeOK'
    BY <2>1, <2>2 DEF TypeOK, BaseStops
  <2>3. ASSUME NEW n \in Node, BaseStarts(n) PROVE TypeOK'
    <3>1. incarnation' \in [Node -> Nat \ {0}]
      BY <2>1, <2>3 DEF TypeOK, BaseStarts
    <3>2. left' \in [starts : Nat, calls : Nat]
      BY <2>1, <2>3 DEF TypeOK, BaseStarts
    <3>3. QED
      BY <2>1, <2>3, <3>1, <3>2 DEF TypeOK, BaseStarts
  <2>4. CASE RegisterCallback
    BY <2>1, <2>4 DEF TypeOK, RegisterCallback, bases
  <2>5. CASE UNCHANGED vars
    BY <2>1, <2>5 DEF TypeOK, vars, bases
  <2>6. QED
    BY <2>2, <2>3, <2>4, <2>5
<1>4. QED
  BY <1>2, <1>3 DEF TunnelInv

(* One task moves between two places outside the mutex; it may settle what *)
(* it owes, and return without a word only from a stop that was carried    *)
(* out.                                                                    *)
LEMMA OutsideMutex ==
    ASSUME TunnelInv, TypeOK', NEW t \in Task, NEW r,
           task' = [task EXCEPT ![t] = r],
           task[t].pc # "locked", r.pc # "locked",
           UNCHANGED <<holder, address, beat>>,
           carried' \ {t} = carried \ {t},
           r.outcome = "SUCCESS" => t \in carried',
           t \in Handler => r.kind = "heartbeat",
           \/ /\ owed' = owed
              /\ t \in owed => /\ r.pc \in {"idle", "calling", "answered"}
                              /\ r.kind = task[t].kind
                              /\ (r.pc = "idle" => r.kind = "stop" /\ t \in carried')
           \/ owed' = owed \ {t}
    PROVE  TunnelInv'
<1>1. task \in [Task -> TaskState] /\ owed \in SUBSET Task /\ Handler \subseteq Task
  BY DEF TunnelInv, TypeOK, Task
<1>2. \A u \in Task : task'[u] = IF u = t THEN r ELSE task[u]
  BY <1>1
<1>3. MutexHeld'
  BY <1>2 DEF TunnelInv, MutexHeld
<1>4. HeartbeatWins'
  BY DEF TunnelInv, HeartbeatWins
<1>5. \A u : u # t => (u \in carried' <=> u \in carried)
  OBVIOUS
<1>6. OutcomesReported' /\ OwedAreCommands'
  <2>1. \A u \in owed' : u \in owed /\ u \in Task
    BY <1>1
  <2>2. ASSUME NEW u \in owed'
        PROVE  /\ task'[u].pc = "idle" => task'[u].kind = "stop" /\ u \in carried'
               /\ task'[u].kind \in Command
               /\ task'[u].pc \in {"idle", "calling", "answered"}
    <3>1. CASE u = t
      <4>1. owed' = owed
        BY <3>1
      <4>2. task'[u] = r
        BY <1>2, <2>1, <3>1
      <4>3. QED
        BY <2>1, <3>1, <4>1, <4>2 DEF TunnelInv, OwedAreCommands
    <3>2. CASE u # t
      BY <1>2, <1>5, <2>1, <3>2 DEF TunnelInv, OutcomesReported, OwedAreCommands
    <3>3. QED
      BY <3>1, <3>2
  <2>3. QED
    BY <2>2 DEF OutcomesReported, OwedAreCommands
<1>7. SuccessIsCarried'
  BY <1>2, <1>5 DEF TunnelInv, SuccessIsCarried
<1>8. HandlersBeat'
  BY <1>1, <1>2 DEF TunnelInv, HandlersBeat
<1>9. QED
  BY <1>3, <1>4, <1>6, <1>7, <1>8 DEF TunnelInv

(* The holder of the mutex gives it back.                                  *)
LEMMA LeaveMutex ==
    ASSUME TunnelInv, TypeOK', HeartbeatWins', NEW t \in Task, NEW r,
           task' = [task EXCEPT ![t] = r],
           task[t].pc = "locked", r.pc # "locked", holder' = {},
           UNCHANGED carried,
           r.kind = task[t].kind, r.outcome = task[t].outcome,
           \/ owed' = owed
           \/ owed' = owed \cup {t} /\ r.pc = "calling" /\ r.kind \in Command
    PROVE  TunnelInv'
<1>1. task \in [Task -> TaskState] /\ owed \in SUBSET Task /\ Handler \subseteq Task
  BY DEF TunnelInv, TypeOK, Task
<1>2. \A u \in Task : task'[u] = IF u = t THEN r ELSE task[u]
  BY <1>1
<1>3. holder = {t} /\ \A u \in Task : u # t => task[u].pc # "locked"
  BY DEF TunnelInv, MutexHeld
<1>4. MutexHeld'
  BY <1>2, <1>3 DEF MutexHeld
<1>5. t \notin owed
  BY DEF TunnelInv, OwedAreCommands
<1>6. OutcomesReported' /\ OwedAreCommands'
  BY <1>1, <1>2, <1>5 DEF TunnelInv, OutcomesReported, OwedAreCommands
<1>7. SuccessIsCarried' /\ HandlersBeat'
  BY <1>1, <1>2 DEF TunnelInv, SuccessIsCarried, HandlersBeat
<1>8. QED
  BY <1>4, <1>6, <1>7 DEF TunnelInv

(* A task enters the mutex.                                                *)
LEMMA LockStep ==
    ASSUME TunnelInv, NEW t \in Task, Lock(t)
    PROVE  TunnelInv'
<1>1. task \in [Task -> TaskState] /\ owed \in SUBSET Task /\ Handler \subseteq Task
  BY DEF TunnelInv, TypeOK, Task
<1>2. /\ task' = [task EXCEPT ![t].pc = "locked"] /\ holder = {} /\ holder' = {t}
      /\ UNCHANGED <<bases, address, callbacks, discovered, reported, beat, owed,
                   carried, left>>
  BY DEF Lock, Goto
<1>3. \A u \in Task : task'[u] = IF u = t THEN [task[t] EXCEPT !.pc = "locked"]
                                 ELSE task[u]
  BY <1>1, <1>2
<1>4. task' \in [Task -> TaskState]
  BY <1>1, <1>2 DEF TaskState
<1>5. TypeOK'
  BY <1>2, <1>4 DEF TunnelInv, TypeOK, bases
<1>6. MutexHeld'
  <2>1. \A u \in Task : task[u].pc # "locked"
    BY <1>2 DEF TunnelInv, MutexHeld
  <2>2. QED
    BY <1>1, <1>2, <1>3, <2>1 DEF MutexHeld, TaskState
<1>7. HeartbeatWins'
  BY <1>2 DEF TunnelInv, HeartbeatWins
<1>8. t \notin owed
  BY DEF TunnelInv, OwedAreCommands, Lock
<1>9. OutcomesReported' /\ OwedAreCommands'
  BY <1>1, <1>2, <1>3, <1>8 DEF TunnelInv, OutcomesReported, OwedAreCommands
<1>10. \A u \in Task : /\ task'[u].kind = task[u].kind
                       /\ task'[u].outcome = task[u].outcome
  BY <1>1, <1>3 DEF TaskState
<1>11. SuccessIsCarried' /\ HandlersBeat'
  BY <1>1, <1>2, <1>10 DEF TunnelInv, SuccessIsCarried, HandlersBeat
<1>12. QED
  BY <1>5, <1>6, <1>7, <1>9, <1>11 DEF TunnelInv

-----------------------------------------------------------------------------
(* The actions.                                                            *)

(* What a task may become.                                                 *)
LEMMA TaskType ==
    ASSUME TunnelInv, NEW t \in Task
    PROVE  /\ task \in [Task -> TaskState]
           /\ task[t] \in TaskState
           /\ task[t].node \in Node /\ task[t].address \in Nat
           /\ \A pc \in {"idle", "begin", "locked", "report", "calling", "answered"} :
                [task[t] EXCEPT !.pc = pc] \in TaskState
BY DEF TunnelInv, TypeOK, TaskState

LEMMA BeginStep ==
    ASSUME TunnelInv, NEW t \in Task, NEW n \in Node,
           \/ t \in Handler /\ Heartbeat(t, n)
           \/ t \in Caller /\ \E kind \in Method : CallMethod(t, kind, n)
    PROVE  TunnelInv'
<1>1. TypeOK /\ incarnation[n] \in Nat /\ discovered[n] \in Nat
  BY DEF TunnelInv, TypeOK
<1>2. PICK kind \in Method \cup {"heartbeat"}, a \in Nat :
        Begin(t, kind, n, a) /\ (t \in Handler => kind = "heartbeat")
  <2>1. CASE t \in Handler
    BY <1>1, <2>1, SlotAssumption DEF Heartbeat
  <2>2. CASE t \notin Handler
    BY <1>1, <2>2 DEF CallMethod
  <2>3. QED
    BY <2>1, <2>2
<1> DEFINE r == [pc |-> "begin", kind |-> kind, node |-> n, address |-> a,
                 outcome |-> "none"]
<1>3. r \in TaskState
  BY DEF TaskState, Outcome
<1>4. task[t].pc = "idle" /\ task' = [task EXCEPT ![t] = r]
  BY <1>2 DEF Begin
<1>5. UNCHANGED <<bases, address, holder, callbacks, discovered, reported, beat>>
  BY DEF Heartbeat, CallMethod
<1>6. left' \in [starts : Nat, calls : Nat]
  BY <1>1 DEF TypeOK, Heartbeat, CallMethod
<1>7. owed' = owed \ {t} /\ carried' \ {t} = carried \ {t} /\ carried' \in SUBSET Task
  <2>1. CASE t \in Handler
    <3>1. t \notin owed
      BY <2>1 DEF TunnelInv, OwedAreCommands, HandlersBeat, Command
    <3>2. owed' = owed /\ carried' = carried
      BY <2>1, SlotAssumption DEF Heartbeat
    <3>3. QED
      BY <1>1, <3>1, <3>2 DEF TypeOK
  <2>2. CASE t \notin Handler
    BY <1>1, <2>2 DEF CallMethod, TypeOK
  <2>3. QED
    BY <2>1, <2>2
<1>8. TypeOK'
  <2>1. task' \in [Task -> TaskState] /\ owed' \in SUBSET Task
    BY <1>1, <1>3, <1>4, <1>7 DEF TypeOK
  <2>2. QED
    BY <1>1, <1>5, <1>6, <1>7, <2>1 DEF TypeOK, bases
<1>9. /\ task[t].pc # "locked" /\ r.pc # "locked" /\ r.outcome # "SUCCESS"
      /\ t \in Handler => r.kind = "heartbeat"
  BY <1>2, <1>4
<1>10. UNCHANGED <<holder, address, beat>>
  BY <1>5
<1> HIDE DEF r
<1>11. QED
  BY <1>4, <1>7, <1>8, <1>9, <1>10, OutsideMutex

LEMMA CriticalStep ==
    ASSUME TunnelInv, NEW t \in Task, Locked(t)
    PROVE  TunnelInv'
<1>1. TypeOK /\ HeartbeatWins /\ task[t].pc = "locked"
  BY DEF TunnelInv, Locked, StoreHeartbeat, RegisterNode, UnRegisterNode, Lookup, At
<1>2. /\ task \in [Task -> TaskState] /\ task[t].node \in Node
      /\ task[t].address \in Nat
      /\ [task[t] EXCEPT !.pc = "report"] \in TaskState
      /\ [task[t] EXCEPT !.pc = "idle"] \in TaskState
  BY TaskType
<1>3. address \in [Node -> Nat] /\ beat \in [Node -> Nat]
  BY <1>1 DEF TypeOK
<1>4. CASE StoreHeartbeat(t)
  <2>1. /\ address' = [address EXCEPT ![task[t].node] = task[t].address]
        /\ beat' = [beat EXCEPT ![task[t].node] = task[t].address]
        /\ holder' = {} /\ task' = [task EXCEPT ![t].pc = "report"]
        /\ UNCHANGED <<bases, callbacks, discovered, reported, owed, carried, left>>
    BY <1>4 DEF StoreHeartbeat, Unlock, Goto
  <2>2. TypeOK'
    BY <1>1, <1>2, <2>1 DEF TypeOK, bases
  <2>3. HeartbeatWins'
    BY <1>1, <1>2, <1>3, <2>1 DEF HeartbeatWins
  <2>4. QED
    BY <1>1, <1>2, <2>1, <2>2, <2>3, LeaveMutex DEF TaskState
<1>5. CASE RegisterNode(t)
  <2>1. /\ address' = [address EXCEPT ![task[t].node] =
                            IF @ = 0 THEN task[t].address ELSE @]
        /\ holder' = {} /\ task' = [task EXCEPT ![t].pc = "idle"]
        /\ UNCHANGED <<bases, callbacks, discovered, reported, beat, owed, carried,
                     left>>
    BY <1>5 DEF RegisterNode, Unlock, Goto
  <2>2. address' \in [Node -> Nat]
    BY <1>2, <1>3, <2>1
  <2>3. TypeOK'
    BY <1>1, <1>2, <2>1, <2>2 DEF TypeOK, bases
  <2>4. HeartbeatWins'
    BY <1>1, <1>2, <1>3, <2>1 DEF HeartbeatWins
  <2>5. QED
    BY <1>1, <1>2, <2>1, <2>3, <2>4, LeaveMutex DEF TaskState
<1>6. CASE UnRegisterNode(t)
  <2>1. /\ address' = [address EXCEPT ![task[t].node] = 0]
        /\ beat' = [beat EXCEPT ![task[t].node] = 0]
        /\ holder' = {} /\ task' = [task EXCEPT ![t].pc = "idle"]
        /\ UNCHANGED <<bases, callbacks, discovered, reported, owed, carried, left>>
    BY <1>6 DEF UnRegisterNode, Unlock, Goto
  <2>2. TypeOK'
    BY <1>1, <1>2, <2>1 DEF TypeOK, bases
  <2>3. HeartbeatWins'
    BY <1>1, <1>2, <1>3, <2>1 DEF HeartbeatWins
  <2>4. QED
    BY <1>1, <1>2, <2>1, <2>2, <2>3, LeaveMutex DEF TaskState
<1>7. CASE Lookup(t)
  <2> DEFINE a == address[task[t].node]
             r == [task[t] EXCEPT !.pc = IF a = 0 THEN "idle" ELSE "calling",
                                  !.address = a]
  <2>1. /\ task' = [task EXCEPT ![t] = r] /\ holder' = {}
        /\ owed' = IF a # 0 /\ task[t].kind \in Command THEN owed \cup {t} ELSE owed
        /\ UNCHANGED <<bases, address, callbacks, discovered, reported, beat, carried,
                     left>>
    BY <1>2, <1>7 DEF Lookup, Unlock
  <2>2. task[t] \in TaskState /\ a \in Nat
    BY <1>2, <1>3
  <2>3. /\ r \in TaskState /\ r.kind = task[t].kind /\ r.outcome = task[t].outcome
        /\ r.pc = IF a = 0 THEN "idle" ELSE "calling"
    BY <2>2 DEF TaskState
  <2>4. HeartbeatWins'
    BY <1>1, <2>1 DEF HeartbeatWins
  <2>5. TypeOK'
    BY <1>1, <2>1, <2>3 DEF TypeOK, bases
  <2>6. r.pc # "locked" /\ (a # 0 => r.pc = "calling")
    BY <2>3
  <2>7. \/ owed' = owed
        \/ owed' = owed \cup {t} /\ r.pc = "calling" /\ r.kind \in Command
    BY <2>1, <2>3, <2>6
  <2>8. /\ task' = [task EXCEPT ![t] = r] /\ holder' = {} /\ UNCHANGED carried
        /\ r.kind = task[t].kind /\ r.outcome = task[t].outcome
    BY <2>1, <2>3
  <2> HIDE DEF r
  <2>9. QED
    BY <1>1, <2>4, <2>5, <2>6, <2>7, <2>8, LeaveMutex
<1>8. QED
  BY <1>4, <1>5, <1>6, <1>7 DEF Locked

(* HTTP calls and the returns of methods and handlers.                     *)
LEMMA CallStep ==
    ASSUME TunnelInv, NEW t \in Task,
           \/ \E code \in {"SUCCESS", "FAILED"} : BaseAnswers(t, code)
           \/ CallFails(t)
    PROVE  TunnelInv'
<1>1. TypeOK /\ task \in [Task -> TaskState] /\ task[t] \in TaskState
  BY DEF TunnelInv, TypeOK
<1>2. PICK code \in Outcome :
        /\ task' = [task EXCEPT ![t].pc = "answered", ![t].outcome = code]
        /\ carried' = IF code = "SUCCESS" THEN carried \cup {t} ELSE carried
  BY DEF BaseAnswers, CallFails, Outcome
<1> DEFINE r == [task[t] EXCEPT !.pc = "answered", !.outcome = code]
<1>3. r \in TaskState /\ r.pc = "answered" /\ r.kind = task[t].kind /\ r.outcome = code
  BY <1>1 DEF TaskState
<1>4. task' = [task EXCEPT ![t] = r]
  BY <1>1, <1>2
<1>5. /\ task[t].pc # "locked"
      /\ UNCHANGED <<incarnation, up, address, holder, callbacks, discovered,
                     reported, beat, owed, left>>
  BY DEF BaseAnswers, CallFails, bases
<1>6. installed' \in SUBSET up
  <2>1. CASE CallFails(t)
    BY <1>1, <2>1 DEF CallFails, bases, TypeOK
  <2>2. ASSUME NEW c \in {"SUCCESS", "FAILED"}, BaseAnswers(t, c)
        PROVE  installed' \in SUBSET up
    BY <1>1, <2>2 DEF BaseAnswers, TypeOK
  <2>3. QED
    BY <2>1, <2>2
<1>7. TypeOK'
  <2>1. task' \in [Task -> TaskState] /\ carried' \in SUBSET Task
    BY <1>1, <1>2, <1>3, <1>4 DEF TypeOK
  <2>2. QED
    BY <1>1, <1>5, <1>6, <2>1 DEF TypeOK
<1>8. /\ carried' \ {t} = carried \ {t}
      /\ r.outcome = "SUCCESS" => t \in carried'
  BY <1>2, <1>3
<1>9. t \in Handler => r.kind = "heartbeat"
  BY <1>3 DEF TunnelInv, HandlersBeat
<1> HIDE DEF r
<1>10. QED
  BY <1>3, <1>4, <1>5, <1>7, <1>8, <1>9, OutsideMutex

LEMMA FinishStep ==
    ASSUME TunnelInv, NEW t \in Task, Finish(t)
    PROVE  TunnelInv'
<1>1. TypeOK /\ task \in [Task -> TaskState] /\ task[t] \in TaskState
  BY DEF TunnelInv, TypeOK
<1> DEFINE r == [task[t] EXCEPT !.pc = "idle"]
<1>2. /\ r \in TaskState /\ r.pc = "idle" /\ r.kind = task[t].kind
      /\ r.outcome = task[t].outcome
  BY <1>1 DEF TaskState
<1>3. task' = [task EXCEPT ![t] = r] /\ task[t].pc \in {"report", "answered"}
  BY DEF Finish, ReportHeartbeat, HealthReturns, CommandReturns, Goto, At
<1>4. UNCHANGED <<bases, address, holder, callbacks, beat, carried, left>>
  BY DEF Finish, ReportHeartbeat, HealthReturns, CommandReturns
<1>5. r.outcome = "SUCCESS" => t \in carried'
  BY <1>2, <1>4 DEF TunnelInv, SuccessIsCarried
<1>6. \/ /\ owed' = owed
         /\ t \in owed => r.kind = "stop" /\ t \in carried'
      \/ owed' = owed \ {t}
  <2>1. CASE CommandReturns(t)
    <3>1. CASE task[t].outcome = "SUCCESS" /\ task[t].kind = "stop"
      BY <1>2, <1>5, <2>1, <3>1 DEF CommandReturns
    <3>2. CASE ~(task[t].outcome = "SUCCESS" /\ task[t].kind = "stop")
      BY <2>1, <3>2 DEF CommandReturns
    <3>3. QED
      BY <3>1, <3>2
  <2>2. CASE ReportHeartbeat(t)
    BY <2>2 DEF ReportHeartbeat, TunnelInv, OwedAreCommands
  <2>3. CASE HealthReturns(t)
    BY <2>3 DEF HealthReturns, At, TunnelInv, OwedAreCommands, Command
  <2>4. QED
    BY <2>1, <2>2, <2>3 DEF Finish
<1>7. /\ discovered' \in [Node -> Nat]
      /\ reported' \in [Node -> {"none", "ACTIVATED", "BROKEN"}]
  <2>1. discovered \in [Node -> Nat] /\ task[t].address \in Nat
    BY <1>1 DEF TypeOK, TaskState
  <2>2. reported \in [Node -> {"none", "ACTIVATED", "BROKEN"}]
    BY <1>1 DEF TypeOK
  <2>3. discovered' \in [Node -> Nat]
    BY <2>1 DEF Finish, ReportHeartbeat, HealthReturns, CommandReturns
  <2>4. reported' \in [Node -> {"none", "ACTIVATED", "BROKEN"}]
    BY <2>2 DEF Finish, ReportHeartbeat, HealthReturns, CommandReturns
  <2>5. QED
    BY <2>3, <2>4
<1>8. TypeOK'
  <2>1. task' \in [Task -> TaskState] /\ owed' \in SUBSET Task
    BY <1>1, <1>2, <1>3, <1>6 DEF TypeOK
  <2>2. QED
    BY <1>1, <1>4, <1>7, <2>1 DEF TypeOK, bases
<1>9. /\ task[t].pc # "locked" /\ r.pc # "locked" /\ UNCHANGED <<holder, address, beat>>
      /\ carried' \ {t} = carried \ {t}
  BY <1>2, <1>3, <1>4
<1>10. t \in Handler => r.kind = "heartbeat"
  BY <1>2 DEF TunnelInv, HandlersBeat
<1>11. r.pc = "idle" /\ r.kind = task[t].kind
  BY <1>2
<1> HIDE DEF r
<1>12. QED
  BY <1>3, <1>5, <1>6, <1>8, <1>9, <1>10, <1>11, OutsideMutex

LEMMA TunnelInvNext == TunnelInv /\ [Next]_vars => TunnelInv'
<1> SUFFICES ASSUME TunnelInv, [Next]_vars PROVE TunnelInv'
  OBVIOUS
<1>1. CASE \/ \E n \in Node : BaseStops(n) \/ BaseStarts(n)
           \/ RegisterCallback
           \/ UNCHANGED vars
  BY <1>1, SurroundingsStep
<1>2. ASSUME NEW t \in Task, NEW n \in Node,
             \/ t \in Handler /\ Heartbeat(t, n)
             \/ t \in Caller /\ \E kind \in Method : CallMethod(t, kind, n)
      PROVE  TunnelInv'
  BY <1>2, BeginStep
<1>3. ASSUME NEW t \in Task, Lock(t) PROVE TunnelInv'
  BY <1>3, LockStep
<1>4. ASSUME NEW t \in Task, Locked(t) PROVE TunnelInv'
  BY <1>4, CriticalStep
<1>5. ASSUME NEW t \in Task,
             CallFails(t) \/ \E code \in {"SUCCESS", "FAILED"} : BaseAnswers(t, code)
      PROVE  TunnelInv'
  BY <1>5, CallStep
<1>6. ASSUME NEW t \in Task, Finish(t) PROVE TunnelInv'
  BY <1>6, FinishStep
<1>7. Handler \subseteq Task /\ Caller \subseteq Task
  BY DEF Task
<1>8. QED
  BY <1>1, <1>2, <1>3, <1>4, <1>5, <1>6, <1>7 DEF Next

-----------------------------------------------------------------------------
(* The invariant holds in every reachable state of the tunnel.            *)
THEOREM TunnelInvariant == Spec => []TunnelInv
BY TunnelInvInit, TunnelInvNext, PTL DEF Spec

(* No path of a method or a handler leaves the tunnel's mutex locked, and  *)
(* no two of them are in their critical sections at once.                  *)
THEOREM MutexNeverLeft == Spec => []MutexHeld
<1>1. TunnelInv => MutexHeld
  BY DEF TunnelInv
<1>2. QED
  BY <1>1, TunnelInvariant, PTL

(* The address a heartbeat brought stays until the next heartbeat or an    *)
(* UnRegisterNode: no RegisterNode puts an older one over it.              *)
THEOREM HeartbeatsWin == Spec => []HeartbeatWins
<1>1. TunnelInv => HeartbeatWins
  BY DEF TunnelInv
<1>2. QED
  BY <1>1, TunnelInvariant, PTL

(* Past the lookup StartBiz and StopBiz call onOneBizDataArrived on every  *)
(* path but one: a stop that the base has carried out.                     *)
THEOREM NoSilentReturn == Spec => []OutcomesReported
<1>1. TunnelInv => OutcomesReported
  BY DEF TunnelInv
<1>2. QED
  BY <1>1, TunnelInvariant, PTL
=============================================================================
