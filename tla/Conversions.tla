----------------------------- MODULE Conversions ------------------------------
(***************************************************************************)
(* What the tunnels tell the vnode controller about bases, their health    *)
(* and their modules (src/common/utils/utils.go), as operators that are    *)
(* checked on all small inputs.                                            *)
(*                                                                         *)
(* A node name is a pair of an identity and an environment.  A label that  *)
(* may be missing is a set of at most one value.                           *)
(***************************************************************************)
EXTENDS Integers, Sequences, SequencesExt

CONSTANTS
    Port,               \* ports a base may announce; 0 for none
    State,              \* states a base may announce, in any case of letters
    Memory,             \* metaspace sizes; -1 for unknown
    Time,               \* change times of state records
    Reason,
    BizState,           \* states of a module
    MaxRecords          \* bound: state records of a module

VARIABLES
    status,             \* a heartbeat
    jvm,                \* the memory part of health data
    bizState,           \* the state a base lists a module with
    records,            \* the state records it lists with it
    arrival             \* the timestamp of the message that lists the module

vars == <<status, jvm, bizState, records, arrival>>

-----------------------------------------------------------------------------
(* Heartbeats.                                                             *)

DefaultPort == 1238

(* EqualFold and ToUpper.                                                  *)
Upper(state) == CASE state = "activated" -> "ACTIVATED"
                  [] state = "deactivated" -> "DEACTIVATED"
                  [] OTHER -> state

(* ConvertBaseStatusToNodeInfo: a port of 0 leaves no label.               *)
NodeInfo(s) ==
    [name |-> <<s.identity, "env">>, baseName |-> s.name,
     cluster |-> s.cluster, version |-> s.version, ip |-> s.ip, host |-> s.host,
     portLabel |-> {s.port} \ {0},
     state |-> IF Upper(s.state) = "ACTIVATED" THEN "ACTIVATED" ELSE "DEACTIVATED"]

(* Faulty variant: the port is not restored.                               *)
BaseStatusWithoutPort(info) ==
    [identity |-> info.name[1], name |-> "", cluster |-> info.cluster,
     version |-> info.version, ip |-> info.ip, host |-> info.host,
     port |-> DefaultPort, state |-> info.state]

(* ConvertBaseStatusFromNodeInfo: without a readable label the port is the *)
(* default one; the name is not restored.                                  *)
BaseStatus(info) ==
    [identity |-> info.name[1], name |-> "", cluster |-> info.cluster,
     version |-> info.version, ip |-> info.ip, host |-> info.host,
     port |-> IF info.portLabel = {} THEN DefaultPort
              ELSE CHOOSE p \in info.portLabel : TRUE,
     state |-> info.state]

-----------------------------------------------------------------------------
(* Health.                                                                 *)

(* Faulty variant: only the maximum is looked at.                          *)
NodeMemoryHalfChecked(j) ==
    [capacity |-> IF j.max # -1 THEN j.max ELSE 0,
     allocatable |-> IF j.max # -1 THEN j.max - j.committed ELSE 0]

(* ConvertHealthDataToNodeStatus; a quantity that is not set is 0.         *)
NodeMemory(j) ==
    [capacity |-> IF j.max # -1 THEN j.max ELSE 0,
     allocatable |-> IF j.max # -1 /\ j.committed # -1 THEN j.max - j.committed ELSE 0]

-----------------------------------------------------------------------------
(* Modules.                                                                *)

(* Faulty variant: takes the last of equal times.                          *)
LatestStateOfTies(rs) ==
    FoldLeft(LAMBDA latest, r : IF r.time >= latest.time THEN r ELSE latest,
             [state |-> "none", time |-> 0, reason |-> "none"], rs)

(* GetLatestState; of the record found, time and reason are used.          *)
LatestState(rs) ==
    FoldLeft(LAMBDA latest, r : IF r.time > latest.time THEN r ELSE latest,
             [state |-> "none", time |-> 0, reason |-> "none"], rs)

(* Faulty variant: a module without a record of its state has none.        *)
ContainerStatusOfRecord(state, rs, timestamp) ==
    LET latest == LatestState(rs)
    IN  [state |-> latest.state,
         time |-> IF latest.time # 0 THEN latest.time ELSE timestamp,
         reason |-> latest.reason]

(* TranslateBizInfosToContainerStatuses, for one module: the state is the  *)
(* one it is listed with, its time and reason are those of a record.       *)
ContainerStatus(state, rs, timestamp) ==
    LET latest == LatestState(rs)
    IN  [state |-> state,
         time |-> IF latest.time # 0 THEN latest.time ELSE timestamp,
         reason |-> latest.reason]

-----------------------------------------------------------------------------
Heartbeat == [identity : {"base"}, name : {"name"}, cluster : {"", "cluster"},
              version : {"1"}, ip : {"ip"}, host : {"host"}, port : Port,
              state : State]
Record == [state : BizState, time : Time, reason : Reason]

Init ==
    /\ status \in Heartbeat
    /\ jvm \in [max : Memory, committed : Memory]
    /\ bizState \in BizState
    /\ records = <<>>
    /\ arrival \in {t \in Time : t > 0}

(* The base changes the state and appends a record, as SetBizState does.   *)
StateChanges(r) ==
    /\ Len(records) < MaxRecords
    /\ records' = Append(records, r)
    /\ bizState' = r.state
    /\ UNCHANGED <<status, jvm, arrival>>

(* It changes the state without a record, as an installation does.         *)
StateChangesSilently(s) ==
    /\ bizState' = s
    /\ UNCHANGED <<status, jvm, records, arrival>>

Next ==
    \/ \E r \in Record : StateChanges(r)
    \/ \E s \in BizState : StateChangesSilently(s)

Spec == Init /\ [][Next]_vars

(* RegisterNode can call a base that it knows from the node's information  *)
(* only: the address a heartbeat announced survives the two conversions.   *)
(* A base without a port, which its heartbeats store as port 0, gets the   *)
(* default port this way.                                                  *)
AddressSurvives ==
    LET s == BaseStatus(NodeInfo(status))
    IN  /\ <<s.identity, s.cluster, s.version, s.ip, s.host>> =
           <<status.identity, status.cluster, status.version, status.ip, status.host>>
        /\ s.port = IF status.port = 0 THEN DefaultPort ELSE status.port
        /\ NodeInfo(s).state = NodeInfo(status).state

(* Unknown sizes (-1) never enter a computation: what a node offers is     *)
(* unset, or the difference of two known sizes.                            *)
UnknownMemoryUnset ==
    LET m == NodeMemory(jvm)
    IN  /\ -1 \in {jvm.max, jvm.committed} => m.allocatable = 0
        /\ m.allocatable <= m.capacity
        /\ m.capacity = 0 \/ m.capacity = jvm.max

(* A module is told with the state the base lists it with, also when its   *)
(* latest record is of another state.  The time and the reason are those   *)
(* of the latest record, the first one of several of the same time,        *)
(* whatever the order of the records; without a record of a positive time  *)
(* the state is as old as the message and has no reason.                   *)
ListedStateTold ==
    LET positive == {i \in DOMAIN records : records[i].time > 0}
        first(i) == \A j \in positive :
            \/ records[j].time < records[i].time
            \/ records[j].time = records[i].time /\ i <= j
        told == ContainerStatus(bizState, records, arrival)
    IN  /\ told.state = bizState
        /\ IF positive = {} THEN told.time = arrival /\ told.reason = "none"
           ELSE \E i \in positive :
                   first(i) /\ told.time = records[i].time /\ told.reason = records[i].reason
=============================================================================
