--------------------------- MODULE HttpModulesProofs --------------------------
(***************************************************************************)
(* Proofs about HttpModules: for every set of modules and calls, and any   *)
(* number of commands, failures and restarts, what the vnode controller is *)
(* told of a module was its state since the call began.                    *)
(*                                                                         *)
(* ToldWasTrue speaks of the step that tells.  Its cause lies steps before:*)
(* an answer that waits to be reported, and the part of a list that is     *)
(* read, must have been seen since the call began (AnswersSeen, ListSeen), *)
(* which holds because a call under way sees every change (BegunSees).     *)
(*                                                                         *)
(* And about MqttCommands: for every set of modules and goroutines and any *)
(* number of commands and crashes, what is told in the end is what the     *)
(* base has.  OutcomesAgree speaks of a module without responses under     *)
(* way; LastAgrees says of the others that the last response will be       *)
(* right, and AnswerAgrees that the one still held by the base will be.    *)
(***************************************************************************)
EXTENDS MCCommands, FiniteSetTheorems, TLAPS

(* A call under way has seen the present state of every module.            *)
BegunSees ==
    \A c \in Begun : \A b \in Biz : StateIn(installed, b) \in since[c][b]

(* An install that is answered has seen its module activated.              *)
AnswersSeen ==
    \A c \in Call :
        command[c].pc = "answered" /\ command[c].kind = "installBiz"
            => "activated" \in since[c][command[c].biz]

(* What is on the list, and what is left off it, has been seen so.         *)
ListSeen ==
    query.pc = "reading" =>
        \A b \in Biz \ query.unread : StateIn(query.list, b) \in since[Query][b]

(* A list holds only modules that are read.                                *)
ListRead == query.pc = "reading" => query.list \subseteq Biz \ query.unread

SeenInv == TypeOK /\ BegunSees /\ AnswersSeen /\ ListSeen /\ ListRead

-----------------------------------------------------------------------------
(* At first no call is under way.                                          *)
LEMMA SeenInit == Init => SeenInv
<1> SUFFICES ASSUME Init PROVE SeenInv
    OBVIOUS
<1>1. TypeOK
    BY ModuleBounds, SMT DEF Init, TypeOK, CommandState, QueryState, Query
<1>2. Begun = {}
    BY DEF Init, Begun
<1>3. BegunSees /\ AnswersSeen /\ ListSeen /\ ListRead
    BY <1>2 DEF Init, BegunSees, AnswersSeen, ListSeen, ListRead
<1> QED
    BY <1>1, <1>3 DEF SeenInv

(* A call keeps its domain when its pc moves.                              *)
LEMMA MoveTyped ==
    ASSUME command \in [Call -> CommandState], NEW c \in Call,
           NEW to \in {"idle", "sent", "answered", "failed"},
           command' = [command EXCEPT ![c].pc = to]
    PROVE  command' \in [Call -> CommandState]
<1>1. [command[c] EXCEPT !.pc = to] \in CommandState
    BY SMT DEF CommandState
<1> QED
    BY <1>1

(* A change of the modules keeps what the calls under way have seen, and   *)
(* adds the new state to it.                                               *)
LEMMA InstallSees ==
    ASSUME TypeOK, BegunSees, NEW modules \in SUBSET Biz, Install(modules)
    PROVE  /\ installed' \in SUBSET Biz
           /\ since' \in [Call \cup {Query} -> [Biz -> SUBSET {"absent", "activated"}]]
           /\ \A c \in Call \cup {Query} : \A b \in Biz : since[c][b] \subseteq since'[c][b]
           /\ \A c \in Begun : \A b \in Biz : StateIn(modules, b) \in since'[c][b]
<1>1. Begun \subseteq Call \cup {Query}
    BY DEF Begun
<1>2. DOMAIN since = Call \cup {Query}
    BY DEF TypeOK
<1>3. \A b : StateIn(modules, b) \in {"absent", "activated"}
    BY DEF StateIn
<1>4. since' = [c \in Call \cup {Query} |-> [b \in Biz |->
          since[c][b] \cup (IF c \in Begun THEN {StateIn(modules, b)} ELSE {})]]
    BY <1>2 DEF Install
<1>5. \A c \in Call \cup {Query} : \A b \in Biz :
          since[c][b] \subseteq {"absent", "activated"}
    BY DEF TypeOK
<1> QED
    BY <1>1, <1>3, <1>4, <1>5 DEF Install

-----------------------------------------------------------------------------
(* The steps of commands.                                                  *)

(* A call that begins sees the modules as they are.                        *)
LEMMA SendInv ==
    ASSUME SeenInv, NEW c \in Call, NEW b \in Biz,
           NEW kind \in {"installBiz", "uninstallBiz"}, SendCommand(c, kind, b)
    PROVE  SeenInv'
<1> USE DEF SeenInv, SendCommand, Begins
<1>1. /\ since' \in [Call \cup {Query} -> [Biz -> SUBSET {"absent", "activated"}]]
      /\ \A x \in Biz : since'[c][x] = {StateIn(installed, x)}
      /\ \A d \in Call \cup {Query} : d # c => since'[d] = since[d]
    BY SMT DEF TypeOK, StateIn
<1>2. TypeOK'
    BY <1>1, SMT DEF TypeOK, CommandState
<1>3. Query # c
    BY QueryIsNoCall DEF Query
<1>4. /\ command'[c].pc = "sent"
      /\ \A d \in Call : d # c => command'[d] = command[d]
    BY SMT DEF TypeOK, CommandState
<1>5. BegunSees'
    BY <1>1, <1>4 DEF BegunSees, Begun, TypeOK
<1>6. AnswersSeen'
    BY <1>1, <1>4 DEF AnswersSeen, TypeOK
<1>7. ListSeen' /\ ListRead'
    BY <1>1, <1>3 DEF ListSeen, ListRead
<1> QED
    BY <1>2, <1>5, <1>6, <1>7

(* The base carries out a command.                                         *)
LEMMA ProcessInv ==
    ASSUME SeenInv, NEW c \in Call, ProcessInstallBiz(c) \/ ProcessUnInstallBiz(c)
    PROVE  SeenInv'
<1> USE DEF SeenInv
<1> DEFINE modules == IF command[c].kind = "installBiz"
                      THEN installed \cup {command[c].biz}
                      ELSE installed \ {command[c].biz}
<1>1. command[c] \in CommandState /\ command[c].biz \in Biz
    BY DEF TypeOK, CommandState
<1>2. /\ command[c].pc = "sent"
      /\ command' = [command EXCEPT ![c].pc = "answered"]
      /\ Install(modules)
      /\ UNCHANGED <<query, told, left>>
    BY <1>1 DEF ProcessInstallBiz, ProcessUnInstallBiz, CommandState
<1>3. modules \in SUBSET Biz
    BY <1>1 DEF TypeOK
<1>4. command[c].kind = "installBiz" => StateIn(modules, command[c].biz) = "activated"
    BY DEF StateIn
<1>5. installed' = modules
    BY <1>2 DEF Install
<1> HIDE DEF modules
<1>6. /\ installed' \in SUBSET Biz
      /\ since' \in [Call \cup {Query} -> [Biz -> SUBSET {"absent", "activated"}]]
      /\ \A d \in Call \cup {Query} : \A b \in Biz : since[d][b] \subseteq since'[d][b]
      /\ \A d \in Begun : \A b \in Biz : StateIn(modules, b) \in since'[d][b]
    BY <1>2, <1>3, InstallSees
<1>7. TypeOK'
  <2>1. command' \in [Call -> CommandState]
      BY <1>2, MoveTyped DEF TypeOK
  <2> QED
      BY <1>2, <1>6, <2>1 DEF TypeOK
<1>8. /\ command'[c].pc = "answered" /\ command'[c].kind = command[c].kind
      /\ command'[c].biz = command[c].biz
      /\ \A d \in Call : d # c => command'[d] = command[d]
    BY <1>2, SMT DEF TypeOK, CommandState
<1>9. Begun' = Begun /\ c \in Begun
    BY <1>2, <1>8 DEF Begun
<1>10. BegunSees'
    BY <1>5, <1>6, <1>9 DEF BegunSees
<1>11. AnswersSeen'
  <2> SUFFICES ASSUME NEW d \in Call, command'[d].pc = "answered",
                      command'[d].kind = "installBiz"
               PROVE  "activated" \in since'[d][command'[d].biz]
      BY DEF AnswersSeen
  <2>1. CASE d = c
      BY <2>1, <1>1, <1>4, <1>6, <1>8, <1>9
  <2>2. CASE d # c
    <3>1. "activated" \in since[d][command[d].biz] /\ command[d].biz \in Biz
        BY <2>2, <1>8 DEF AnswersSeen, TypeOK, CommandState
    <3> QED
        BY <2>2, <3>1, <1>6, <1>8
  <2> QED
      BY <2>1, <2>2
<1>12. ListSeen' /\ ListRead'
    BY <1>2, <1>6 DEF ListSeen, ListRead
<1> QED
    BY <1>7, <1>10, <1>11, <1>12

(* A call fails.                                                           *)
LEMMA FailInv ==
    ASSUME SeenInv, NEW c \in Call, CommandFails(c)
    PROVE  SeenInv'
<1> USE DEF SeenInv, CommandFails
<1>1. TypeOK'
  <2>1. command' \in [Call -> CommandState]
      BY MoveTyped DEF TypeOK
  <2>2. left' \in [commands : Nat, failures : Nat, restarts : Nat]
      BY SMT DEF TypeOK
  <2> QED
      BY <2>1, <2>2 DEF TypeOK
<1>2. /\ command'[c].pc = "failed"
      /\ \A d \in Call : d # c => command'[d] = command[d]
    BY SMT DEF TypeOK, CommandState
<1>3. Begun' \subseteq Begun
    BY <1>2 DEF Begun
<1>4. BegunSees' /\ AnswersSeen' /\ ListSeen' /\ ListRead'
    BY <1>2, <1>3 DEF BegunSees, AnswersSeen, ListSeen, ListRead
<1> QED
    BY <1>1, <1>4

(* A call ends, and the vnode controller is told or not.                   *)
LEMMA TellInv ==
    ASSUME SeenInv, NEW c \in Call, NEW b \in Biz,
           NEW state \in {"absent", "activated", "broken"}, Tell(c, b, state)
    PROVE  SeenInv'
<1> USE DEF SeenInv, Tell, Ends
<1>1. TypeOK'
  <2>1. command' \in [Call -> CommandState]
      BY MoveTyped DEF TypeOK
  <2>2. told' \in [Biz -> {"absent", "activated", "broken"}]
      BY DEF TypeOK
  <2>3. since' \in [Call \cup {Query} -> [Biz -> SUBSET {"absent", "activated"}]]
      BY DEF TypeOK
  <2> QED
      BY <2>1, <2>2, <2>3 DEF TypeOK
<1>2. /\ command'[c].pc = "idle"
      /\ \A d \in Call : d # c => command'[d] = command[d]
    BY SMT DEF TypeOK, CommandState
<1>3. \A d \in Call \cup {Query} : d # c => since'[d] = since[d]
    BY SMT DEF TypeOK
<1>4. Query # c
    BY QueryIsNoCall DEF Query
<1>5. Begun' = Begun \ {c} /\ Begun \subseteq Call \cup {Query}
    BY <1>2, <1>4 DEF Begun
<1>6. BegunSees'
    BY <1>3, <1>5 DEF BegunSees
<1>7. AnswersSeen'
    BY <1>2, <1>3 DEF AnswersSeen
<1>8. ListSeen' /\ ListRead'
    BY <1>3, <1>4 DEF ListSeen, ListRead
<1> QED
    BY <1>1, <1>6, <1>7, <1>8

(* What Report tells is in the domain of told.                             *)
LEMMA ReportTells ==
    ASSUME TypeOK, NEW c \in Call, Report(c)
    PROVE  \E state \in {"absent", "activated", "broken"} :
              Tell(c, command[c].biz, state)
    BY DEF Report, TypeOK, CommandState

-----------------------------------------------------------------------------
(* The steps of a list, and of the base.                                   *)
LEMMA QueryInv ==
    ASSUME SeenInv, QueryBegins \/ QueryReports \/ QueryReturns \/ QueryFails
    PROVE  SeenInv'
<1> USE DEF SeenInv
<1>0. Query \notin Call
    BY QueryIsNoCall DEF Query
<1>1. CASE QueryBegins
  <2> USE <1>1 DEF QueryBegins, Begins
  <2>1. /\ since' \in [Call \cup {Query} -> [Biz -> SUBSET {"absent", "activated"}]]
        /\ \A x \in Biz : since'[Query][x] = {StateIn(installed, x)}
        /\ \A d \in Call : since'[d] = since[d]
      BY <1>0, SMT DEF TypeOK, StateIn
  <2>2. TypeOK'
      BY <2>1, SMT DEF TypeOK, QueryState
  <2>3. Begun' \ {Query} \subseteq Begun /\ Begun \subseteq Call \cup {Query}
      BY DEF Begun
  <2>4. BegunSees'
      BY <2>1, <2>3, <1>0 DEF BegunSees, Begun
  <2>5. AnswersSeen' /\ ListSeen' /\ ListRead'
      BY <2>1 DEF AnswersSeen, ListSeen, ListRead
  <2> QED
      BY <2>2, <2>4, <2>5
<1>2. CASE QueryReports \/ QueryReturns
  <2> USE <1>2 DEF QueryReports, QueryReturns, Ends
  <2>1. \A d \in Call : since'[d] = since[d]
      BY <1>0, SMT DEF TypeOK
  <2>2. told' \in [Biz -> {"absent", "activated", "broken"}]
      BY DEF TypeOK, StateIn
  <2>3. TypeOK'
      BY <2>2, SMT DEF TypeOK, QueryState
  <2>4. query'.pc = "idle"
      BY SMT DEF TypeOK, QueryState
  <2>5. Begun' \subseteq Begun \cap Call
      BY <2>4 DEF Begun
  <2>6. BegunSees'
      BY <2>1, <2>5 DEF BegunSees
  <2>7. AnswersSeen' /\ ListSeen' /\ ListRead'
      BY <2>1, <2>4 DEF AnswersSeen, ListSeen, ListRead
  <2> QED
      BY <2>3, <2>6, <2>7
<1>3. CASE QueryFails
  <2> USE <1>3 DEF QueryFails
  <2>1. TypeOK'
      BY SMT DEF TypeOK, QueryState
  <2>2. query'.pc = "failed"
      BY SMT DEF TypeOK, QueryState
  <2>3. Begun' \subseteq Begun
      BY <2>2 DEF Begun
  <2>4. BegunSees' /\ AnswersSeen' /\ ListSeen' /\ ListRead'
      BY <2>2, <2>3 DEF BegunSees, AnswersSeen, ListSeen, ListRead
  <2> QED
      BY <2>1, <2>4
<1> QED
    BY <1>1, <1>2, <1>3

(* The base puts one module on the list, or leaves it off: the call has    *)
(* seen the state it has now.                                              *)
LEMMA ReadInv ==
    ASSUME SeenInv, NEW b \in Biz, QueryReads(b)
    PROVE  SeenInv'
<1> USE DEF SeenInv, QueryReads
<1>1. TypeOK'
  <2>1. /\ query.unread \ {b} \in SUBSET Biz
        /\ query.list \cup ({b} \cap installed) \in SUBSET Biz
      BY DEF TypeOK, QueryState
  <2> DEFINE unread == query.unread \ {b}
             list == query.list \cup ({b} \cap installed)
  <2>2. query \in QueryState /\ query' = [query EXCEPT !.unread = unread, !.list = list]
      BY DEF TypeOK
  <2>3. unread \in SUBSET Biz /\ list \in SUBSET Biz
      BY <2>1
  <2> HIDE DEF unread, list
  <2>4. query' = [pc |-> query.pc, unread |-> unread, list |-> list]
      BY <2>2 DEF QueryState
  <2>5. query' \in QueryState
      BY <2>2, <2>3, <2>4 DEF QueryState
  <2> QED
      BY <2>5 DEF TypeOK
<1>2. /\ query'.pc = "reading"
      /\ query'.unread = query.unread \ {b}
      /\ query'.list = query.list \cup ({b} \cap installed)
    BY SMT DEF TypeOK, QueryState
<1>3. Begun' = Begun /\ Query \in Begun
    BY <1>2 DEF Begun
<1>4. BegunSees' /\ AnswersSeen'
    BY <1>3 DEF BegunSees, AnswersSeen
<1>5. b \notin query.list
    BY DEF ListRead
<1>6. ListSeen'
  <2> SUFFICES ASSUME NEW x \in Biz, x \notin query'.unread
               PROVE  StateIn(query'.list, x) \in since'[Query][x]
      BY DEF ListSeen
  <2>1. CASE x = b
    <3>1. StateIn(query'.list, b) = StateIn(installed, b)
        BY <1>2, <1>5 DEF StateIn
    <3> QED
        BY <2>1, <3>1, <1>3 DEF BegunSees
  <2>2. CASE x # b
    <3>1. StateIn(query'.list, x) = StateIn(query.list, x) /\ x \notin query.unread
        BY <2>2, <1>2 DEF StateIn
    <3> QED
        BY <3>1 DEF ListSeen
  <2> QED
      BY <2>1, <2>2
<1>7. ListRead'
    BY <1>2 DEF ListRead
<1> QED
    BY <1>1, <1>4, <1>6, <1>7

(* A base that starts anew: the calls under way see its modules go.        *)
LEMMA RestartInv ==
    ASSUME SeenInv, BaseRestarts
    PROVE  SeenInv'
<1> USE DEF SeenInv, BaseRestarts
<1>1. /\ installed' \in SUBSET Biz
      /\ since' \in [Call \cup {Query} -> [Biz -> SUBSET {"absent", "activated"}]]
      /\ \A d \in Call \cup {Query} : \A b \in Biz : since[d][b] \subseteq since'[d][b]
      /\ \A d \in Begun : \A b \in Biz : StateIn({}, b) \in since'[d][b]
    BY InstallSees
<1>2. TypeOK'
    BY <1>1, SMT DEF TypeOK
<1>3. Begun' = Begun /\ installed' = {}
    BY DEF Begun, Install
<1>4. BegunSees'
    BY <1>1, <1>3 DEF BegunSees
<1>5. \A d \in Call : command[d].biz \in Biz
    BY DEF TypeOK, CommandState
<1>6. AnswersSeen' /\ ListSeen' /\ ListRead'
    BY <1>1, <1>5 DEF AnswersSeen, ListSeen, ListRead
<1> QED
    BY <1>2, <1>4, <1>6

(* No step breaks the invariant.                                           *)
LEMMA SeenNext == SeenInv /\ [Next]_vars => SeenInv'
<1> SUFFICES ASSUME SeenInv, [Next]_vars PROVE SeenInv'
    OBVIOUS
<1>1. CASE \E c \in Call : Commands(c) \/ CommandFails(c)
  <2>1. PICK c \in Call : Commands(c) \/ CommandFails(c)
      BY <1>1
  <2>2. CASE ProcessInstallBiz(c) \/ ProcessUnInstallBiz(c)
      BY <2>2, ProcessInv
  <2>3. CASE Report(c)
    <3>1. PICK state \in {"absent", "activated", "broken"} :
              Tell(c, command[c].biz, state)
        BY <2>3, ReportTells DEF SeenInv
    <3>2. command[c].biz \in Biz
        BY DEF SeenInv, TypeOK, CommandState
    <3> QED
        BY <3>1, <3>2, TellInv
  <2>4. CASE CommandFails(c)
      BY <2>4, FailInv
  <2> QED
      BY <2>1, <2>2, <2>3, <2>4 DEF Commands
<1>2. CASE \E c \in Call, b \in Biz : StartBiz(c, b) \/ StopBiz(c, b)
    BY <1>2, SendInv DEF StartBiz, StopBiz
<1>3. CASE QuerySteps \/ QueryFails
    BY <1>3, QueryInv, ReadInv DEF QuerySteps
<1>4. CASE BaseRestarts
    BY <1>4, RestartInv
<1>5. CASE UNCHANGED vars
    BY <1>5 DEF vars, SeenInv, TypeOK, BegunSees, Begun, AnswersSeen, ListSeen,
                ListRead
<1> QED
    BY <1>1, <1>2, <1>3, <1>4, <1>5 DEF Next

-----------------------------------------------------------------------------
(* What one step may tell.                                                 *)
Witnessed(b) == UNION {since[c][b] : c \in Begun \ Begun'}

(* A report of a command tells a failure, or what its call has seen.       *)
LEMMA ReportTrue ==
    ASSUME SeenInv, NEW c \in Call, Report(c), NEW b \in Biz
    PROVE  told'[b] \in {told[b], "broken"} \cup Witnessed(b)
<1> USE DEF SeenInv
<1>1. PICK state \in {"absent", "activated", "broken"} : Tell(c, command[c].biz, state)
    BY ReportTells
<1>2. /\ command'[c].pc = "idle" /\ command[c].pc # "idle"
      /\ \A d \in Call : d # c => command'[d] = command[d]
    BY <1>1, SMT DEF Report, Tell, TypeOK, CommandState
<1>3. c \in Begun /\ c \notin Begun'
    BY <1>2, QueryIsNoCall DEF Begun, Query
<1>4. since[c][b] \subseteq Witnessed(b)
    BY <1>3 DEF Witnessed
<1>5. CASE b # command[c].biz
    BY <1>5, SMT DEF Report, Tell, TypeOK, CommandState
<1>6. CASE b = command[c].biz
  <2>1. told'[b] \in {told[b], "broken"}
            \/ (told'[b] = "activated" /\ command[c].pc = "answered"
                   /\ command[c].kind = "installBiz")
      BY <1>6, SMT DEF Report, Tell, TypeOK, CommandState
  <2> QED
      BY <2>1, <1>4, <1>6 DEF AnswersSeen
<1> QED
    BY <1>5, <1>6

(* A list tells what its call has seen.                                    *)
LEMMA ListTrue ==
    ASSUME SeenInv, QueryReports, NEW b \in Biz
    PROVE  told'[b] \in {told[b], "broken"} \cup Witnessed(b)
<1>1. Query \in Begun /\ Query \notin Begun'
    BY QueryIsNoCall, SMT DEF SeenInv, TypeOK, QueryState, QueryReports, Begun, Query
<1>2. told'[b] \in since[Query][b]
    BY DEF SeenInv, ListSeen, QueryReports
<1> QED
    BY <1>1, <1>2 DEF Witnessed

(* Every other step leaves told alone.                                     *)
LEMMA StepTrue ==
    SeenInv /\ [Next]_vars =>
        [\A b \in Biz :
            told'[b] \in {told[b], "broken"}
                         \cup UNION {since[c][b] : c \in Begun \ Begun'}]_vars
<1> SUFFICES ASSUME SeenInv, [Next]_vars, NEW b \in Biz
             PROVE  told'[b] \in {told[b], "broken"} \cup Witnessed(b)
    BY DEF Witnessed
<1>1. CASE \E c \in Call : Report(c)
    BY <1>1, ReportTrue
<1>2. CASE QueryReports
    BY <1>2, ListTrue
<1>3. CASE UNCHANGED told
    BY <1>3
<1> QED
    BY <1>1, <1>2, <1>3
    DEF Next, Commands, CommandFails, ProcessInstallBiz, ProcessUnInstallBiz,
        StartBiz, StopBiz, SendCommand, QuerySteps, QueryBegins, QueryReads,
        QueryReturns, QueryFails, BaseRestarts, vars

(* The invariant holds in every reachable state.                           *)
LEMMA SeenInvariance == Spec => []SeenInv
    BY SeenInit, SeenNext, PTL DEF Spec

(* Whatever the interleaving of commands, lists, failures and restarts,    *)
(* the outcome or list that bizOperationResponseCallback and               *)
(* allBizMsgCallback tell of a module was true since the call began.       *)
THEOREM ToldTheTruth == Spec => ToldWasTrue
    BY SeenInvariance, StepTrue, PTL DEF Spec, ToldWasTrue

-----------------------------------------------------------------------------
(* Commands over MQTT and their outcomes (MqttCommands).                   *)

MqttCommand ==
    [command : {"installBiz", "uninstallBiz"}, biz : MqttBiz, pod : Nat, id : Nat]
    \cup [command : {"health", "queryAllBiz"}, id : Nat]
    \cup [command : {"baseline"}, content : SUBSET MqttBiz, id : Nat]

MqttResponse == [command : {"installBiz", "uninstallBiz"}, biz : MqttBiz,
                 code : {"SUCCESS", "FAILED"}, life : Nat]

CommandsTyped ==
    /\ published \in Nat
    /\ pods \subseteq [biz : MqttBiz, pod : Nat]
    /\ retained \subseteq MqttCommand /\ IsFiniteSet(retained)
    /\ inbox \in Seq(MqttCommand)
    /\ job \in [Worker -> SUBSET MqttCommand]

BizStates == {"absent", "RESOLVED", "ACTIVATED", "BROKEN"}

OutcomesTyped ==
    /\ life \in Nat
    /\ mqttInstalled \in [MqttBiz -> BizStates]
    /\ answering \subseteq [by : SUBSET Worker, response : MqttResponse]
    /\ responses \in Seq(MqttResponse)
    /\ mqttTold \in [MqttBiz -> [state : {"none", "BROKEN", "ACTIVATED", "STOPPED"}, life : Nat]]

(* One goroutine of a base that runs has the mutex, and nothing is heard   *)
(* of a start of the base that is still to come.                           *)
LivesPast ==
    /\ answering # {} => up
    /\ \A a, c \in answering : a = c
    /\ \A a \in answering : a.response.life = life
    /\ \A i \in DOMAIN responses : responses[i].life <= life
    /\ \A b \in MqttBiz : mqttTold[b].life <= life

Agreed(state, b) ==
    /\ state = "ACTIVATED" => mqttInstalled[b] = "ACTIVATED"
    /\ state = "STOPPED" => mqttInstalled[b] # "ACTIVATED"

LastAbout(i) ==
    \A j \in DOMAIN responses : j > i => responses[j].biz # responses[i].biz

Unanswered(b) == \A a \in answering : a.response.biz # b

(* The response that is being published, or else the last response about a *)
(* module, is about what the base has.                                     *)
AnswerAgrees ==
    \A a \in answering :
       a.response.biz \notin silent => Agreed(Mqtt!Outcome(a.response), a.response.biz)

LastAgrees ==
    \A i \in DOMAIN responses :
       up /\ responses[i].life = life /\ LastAbout(i)
         /\ responses[i].biz \notin silent /\ Unanswered(responses[i].biz)
           => Agreed(Mqtt!Outcome(responses[i]), responses[i].biz)

Agreement == LivesPast /\ AnswerAgrees /\ LastAgrees /\ OutcomesAgree

OutcomeInv == CommandsTyped /\ OutcomesTyped /\ Agreement

LEMMA OutcomeInit == Mqtt!Init => OutcomeInv
<1> SUFFICES ASSUME Mqtt!Init PROVE OutcomeInv
    OBVIOUS
<1> USE DEF Mqtt!Init
<1>1. CommandsTyped
    BY FS_EmptySet DEF CommandsTyped
<1>2. OutcomesTyped
    BY DEF OutcomesTyped, BizStates
<1>3. LivesPast /\ LastAgrees /\ AnswerAgrees
    BY DEF LivesPast, LastAgrees, AnswerAgrees
<1>4. OutcomesAgree
    BY DEF OutcomesAgree, Mqtt!OutcomesAgree
<1>5. QED BY <1>1, <1>2, <1>3, <1>4 DEF OutcomeInv, Agreement

LEMMA ResponsesTyped ==
    ASSUME OutcomesTyped
    PROVE  /\ \A i \in DOMAIN responses : responses[i].life \in Nat /\ responses[i].biz \in MqttBiz
           /\ \A b \in MqttBiz : mqttTold[b].life \in Nat
           /\ \A a \in answering : a.response \in MqttResponse /\ a.response.biz \in MqttBiz
<1>1. \A i \in DOMAIN responses : responses[i] \in MqttResponse
    BY DEF OutcomesTyped
<1>2. \A b \in MqttBiz : mqttTold[b].life \in Nat
    BY DEF OutcomesTyped
<1>3. \A a \in answering : a.response \in MqttResponse
    BY DEF OutcomesTyped
<1>4. QED BY <1>1, <1>2, <1>3 DEF MqttResponse

(* Steps that tell nothing and answer nothing, and leave a base that runs  *)
(* with the modules it has activated, except for those it changes without  *)
(* an answer.                                                              *)
LEMMA OutcomesStay ==
    ASSUME OutcomesTyped, Agreement,
           UNCHANGED <<responses, mqttTold>>,
           \/ up' = FALSE /\ life' = life /\ answering' = {}
           \/ ~up /\ life' = life + 1 /\ answering' = answering
           \/ /\ UNCHANGED <<up, life, answering>>
              /\ silent \subseteq silent'
              /\ \A b \in MqttBiz \ silent' : mqttInstalled'[b] = "ACTIVATED"
                                    <=> mqttInstalled[b] = "ACTIVATED"
    PROVE  Agreement'
<1> USE DEF Agreement
<1>1. life' \in Nat /\ life <= life'
    BY DEF OutcomesTyped
<1>2. CASE up' = FALSE /\ life' = life /\ answering' = {}
    <2>1. LivesPast'
        BY <1>2 DEF LivesPast
    <2>2. LastAgrees'
        BY <1>2 DEF LastAgrees
    <2>3. AnswerAgrees'
        BY <1>2 DEF AnswerAgrees
    <2>4. OutcomesAgree'
        BY <1>2 DEF OutcomesAgree, Mqtt!OutcomesAgree
    <2>5. QED BY <2>1, <2>2, <2>3, <2>4
<1>3. CASE ~up /\ life' = life + 1 /\ answering' = answering
    <2>1. answering = {} /\ answering' = {}
        BY <1>3 DEF LivesPast
    <2>2. LivesPast'
        BY <1>1, <1>3, <2>1, ResponsesTyped DEF LivesPast, OutcomesTyped
    <2>3. /\ \A i \in DOMAIN responses : responses'[i].life # life'
          /\ \A b \in MqttBiz : mqttTold'[b].life # life'
        BY <1>3, ResponsesTyped DEF LivesPast, OutcomesTyped
    <2>4. QED BY <2>1, <2>2, <2>3
          DEF LastAgrees, AnswerAgrees, OutcomesAgree, Mqtt!OutcomesAgree
<1>4. CASE /\ UNCHANGED <<up, life, answering>>
           /\ silent \subseteq silent'
           /\ \A b \in MqttBiz \ silent' : mqttInstalled'[b] = "ACTIVATED"
                                    <=> mqttInstalled[b] = "ACTIVATED"
    <2>1. \A state, b \in MqttBiz \ silent' : Agreed(state, b)' <=> Agreed(state, b)
        BY <1>4 DEF Agreed
    <2>2. LivesPast'
        BY <1>4 DEF LivesPast
    <2>3. LastAgrees'
        <3> SUFFICES ASSUME NEW i \in DOMAIN responses,
                            up, responses[i].life = life, LastAbout(i),
                            responses[i].biz \notin silent', Unanswered(responses[i].biz)
                     PROVE  Agreed(Mqtt!Outcome(responses[i]), responses[i].biz)'
            BY <1>4 DEF LastAgrees, LastAbout, Unanswered
        <3>1. responses[i].biz \in MqttBiz \ silent'
            BY ResponsesTyped
        <3>2. Agreed(Mqtt!Outcome(responses[i]), responses[i].biz)
            BY <1>4 DEF LastAgrees
        <3>3. QED BY <1>4, <3>1, <3>2 DEF Agreed, Mqtt!Outcome
    <2>4. AnswerAgrees'
        <3> SUFFICES ASSUME NEW a \in answering, a.response.biz \notin silent'
                     PROVE  Agreed(Mqtt!Outcome(a.response), a.response.biz)'
            BY <1>4 DEF AnswerAgrees
        <3>1. a.response.biz \in MqttBiz \ silent'
            BY ResponsesTyped
        <3>2. Agreed(Mqtt!Outcome(a.response), a.response.biz)
            BY <1>4 DEF AnswerAgrees
        <3>3. QED BY <1>4, <3>1, <3>2 DEF Agreed, Mqtt!Outcome
    <2>5. OutcomesAgree'
        BY <1>4 DEF OutcomesAgree, Mqtt!OutcomesAgree, Mqtt!Awaited
    <2>6. QED BY <2>2, <2>3, <2>4, <2>5
<1>5. QED BY <1>2, <1>3, <1>4

(* A change of one module awaits its answer, which is what has become of   *)
(* it.                                                                     *)
LEMMA ChangeAwaited ==
    ASSUME OutcomesTyped, Agreement,
           NEW by \in SUBSET Worker, NEW b \in MqttBiz, NEW state \in BizStates,
           NEW kind \in {"installBiz", "uninstallBiz"}, NEW code \in {"SUCCESS", "FAILED"},
           Mqtt!Change(by, b, state, kind, code),
           code = "SUCCESS" => state = IF kind = "installBiz" THEN "ACTIVATED"
                                       ELSE "absent"
    PROVE  OutcomesTyped' /\ Agreement'
<1> DEFINE r == [command |-> kind, biz |-> b, code |-> code, life |-> life]
           a == [by |-> by, response |-> r]
<1>0. /\ up /\ answering = {} /\ answering' = {a}
      /\ mqttInstalled' = [mqttInstalled EXCEPT ![b] = state]
      /\ silent' = silent \ {b}
      /\ UNCHANGED <<up, life, responses, mqttTold>>
    BY DEF Mqtt!Change, Mqtt!base
<1>1. r \in MqttResponse /\ r.biz = b /\ r.life = life
    BY DEF MqttResponse, OutcomesTyped
<1>2. Agreed(Mqtt!Outcome(r), b)'
    BY <1>0 DEF Agreed, Mqtt!Outcome, OutcomesTyped
<1>3. OutcomesTyped'
    BY <1>0, <1>1 DEF OutcomesTyped
<1>4. \A q \in MqttBiz \ {b} : mqttInstalled'[q] = mqttInstalled[q]
    BY <1>0 DEF OutcomesTyped
<1>5. a.response = r
    OBVIOUS
<1>6. Mqtt!Outcome(r)' = Mqtt!Outcome(r)
    BY <1>0 DEF Mqtt!Outcome
<1> HIDE DEF r, a
<1>7. LivesPast'
    BY <1>0, <1>1, <1>5 DEF LivesPast, Agreement
<1>8. AnswerAgrees'
    BY <1>0, <1>1, <1>2, <1>5, <1>6 DEF AnswerAgrees, Mqtt!Outcome, Agreed
<1>9. LastAgrees'
    <2> SUFFICES ASSUME NEW i \in DOMAIN responses', up', responses'[i].life = life',
                        LastAbout(i)', responses'[i].biz \notin silent',
                        Unanswered(responses[i].biz)'
                 PROVE  Agreed(Mqtt!Outcome(responses[i]), responses[i].biz)'
        BY DEF LastAgrees
    <2>0. /\ i \in DOMAIN responses /\ responses[i].life = life /\ LastAbout(i)
          /\ responses[i].biz \notin silent' /\ \A c \in answering' : c.response.biz # responses[i].biz
        BY <1>0 DEF LastAbout, Unanswered
    <2>1. responses[i].biz # b
        BY <1>0, <1>1, <1>5, <2>0
    <2>2. responses[i].biz \in MqttBiz \ {b}
        BY <2>0, <2>1, ResponsesTyped
    <2>3. Agreed(Mqtt!Outcome(responses[i]), responses[i].biz)
        BY <1>0, <2>0, <2>1 DEF LastAgrees, Unanswered, Agreement
    <2>4. QED BY <1>0, <1>4, <2>2, <2>3 DEF Agreed, Mqtt!Outcome
<1>10. OutcomesAgree'
    <2> SUFFICES ASSUME NEW q \in MqttBiz \ silent', mqttTold[q].life = life, ~Mqtt!Awaited(q)'
                 PROVE  Agreed(mqttTold[q].state, q)'
        BY <1>0 DEF OutcomesAgree, Mqtt!OutcomesAgree, Agreed
    <2>1. q # b
        BY <1>0, <1>1, <1>5 DEF Mqtt!Awaited
    <2>2. ~Mqtt!Awaited(q)
        BY <1>0 DEF Mqtt!Awaited
    <2>3. Agreed(mqttTold[q].state, q)
        BY <1>0, <2>1, <2>2 DEF OutcomesAgree, Mqtt!OutcomesAgree, Agreed, Agreement
    <2>4. QED BY <1>0, <1>4, <2>1, <2>3 DEF Agreed
<1>11. QED BY <1>3, <1>7, <1>8, <1>9, <1>10 DEF Agreement

(* A response goes to the tunnel, and the mutex is given back, unless the  *)
(* acknowledgement is lost.                                                *)
LEMMA AnswerPublished ==
    ASSUME OutcomesTyped, Agreement, NEW a \in answering,
           UNCHANGED <<up, life, mqttInstalled, silent, mqttTold>>,
           responses' = Append(responses, a.response),
           answering' = answering \/ answering' = answering \ {a}
    PROVE  OutcomesTyped' /\ Agreement'
<1> DEFINE r == a.response
           n == Len(responses)
<1>1. r \in MqttResponse /\ r.biz \in MqttBiz /\ r.life = life /\ life \in Nat
    BY ResponsesTyped DEF LivesPast, Agreement, OutcomesTyped
<1>2. \A c \in answering : c = a
    BY DEF LivesPast, Agreement
<1>3. answering' = answering \/ answering' = {}
    BY <1>2
<1>4. /\ n \in Nat /\ DOMAIN responses = 1..n /\ DOMAIN responses' = 1..(n + 1)
      /\ responses'[n + 1] = r
      /\ \A i \in 1..n : responses'[i] = responses[i] /\ responses[i] \in MqttResponse
    BY <1>1 DEF OutcomesTyped
<1>5. \A state, q : Agreed(state, q)' <=> Agreed(state, q)
    BY DEF Agreed
<1>6. OutcomesTyped'
    <2>1. responses' \in Seq(MqttResponse)
        BY <1>1 DEF OutcomesTyped
    <2>2. QED BY <2>1, <1>3 DEF OutcomesTyped
<1> HIDE DEF n
<1>7. LivesPast'
    <2>1. \A i \in 1..(n + 1) : i \in 1..n \/ i = n + 1
        BY <1>4
    <2>2. \A i \in 1..n : responses[i].life <= life
        BY <1>4 DEF LivesPast, Agreement
    <2>3. r.life <= life
        BY <1>1
    <2>4. \A i \in 1..(n + 1) : responses'[i].life <= life
        BY <1>4, <2>1, <2>2, <2>3
    <2>5. QED BY <1>3, <1>4, <2>4 DEF LivesPast, Agreement
<1>8. AnswerAgrees'
    BY <1>3 DEF AnswerAgrees, Agreement, Agreed, Mqtt!Outcome
<1>9. LastAgrees'
    <2> SUFFICES ASSUME NEW i \in DOMAIN responses', up', responses'[i].life = life',
                        LastAbout(i)', responses'[i].biz \notin silent',
                        Unanswered(responses[i].biz)'
                 PROVE  Agreed(Mqtt!Outcome(responses[i]), responses[i].biz)'
        BY DEF LastAgrees
    <2>0. /\ i \in 1..(n + 1) /\ up /\ responses'[i].life = life
          /\ responses'[i].biz \notin silent
          /\ \A c \in answering' : c.response.biz # responses'[i].biz
        BY <1>4 DEF Unanswered
    <2>a. SUFFICES Agreed(Mqtt!Outcome(responses'[i]), responses'[i].biz)
        BY <1>5 DEF Mqtt!Outcome, Agreed
    <2>1. CASE i = n + 1
        <3>1. responses'[i] = r
            BY <1>4, <2>1
        <3>2. Agreed(Mqtt!Outcome(r), r.biz)
            BY <2>0, <3>1 DEF AnswerAgrees, Agreement
        <3>3. QED BY <3>1, <3>2
    <2>2. CASE i \in 1..n
        <3>1. responses'[i] = responses[i]
            BY <1>4, <2>2
        <3>2. responses[i].biz # r.biz
            BY <1>4, <2>2, <3>1 DEF LastAbout
        <3>3. LastAbout(i)
            BY <1>4, <2>2, <3>1 DEF LastAbout
        <3>4. Unanswered(responses[i].biz)
            BY <1>2, <3>2 DEF Unanswered
        <3>5. QED BY <1>4, <2>0, <2>2, <3>1, <3>3, <3>4 DEF LastAgrees, Agreement
    <2>3. QED BY <1>4, <2>0, <2>1, <2>2
<1>10. OutcomesAgree'
    <2> SUFFICES ASSUME NEW q \in MqttBiz \ silent, up, mqttTold[q].life = life,
                        ~Mqtt!Awaited(q)'
                 PROVE  Agreed(mqttTold[q].state, q)
        BY <1>5 DEF OutcomesAgree, Mqtt!OutcomesAgree, Agreed
    <2>1. q # r.biz
        BY <1>4 DEF Mqtt!Awaited
    <2>2. ~Mqtt!Awaited(q)
        BY <1>2, <1>4, <2>1 DEF Mqtt!Awaited
    <2>3. QED BY <2>2 DEF OutcomesAgree, Mqtt!OutcomesAgree, Agreed, Agreement
<1>11. QED BY <1>6, <1>7, <1>8, <1>9, <1>10 DEF Agreement

(* The callback tells the first response, which the last about its module  *)
(* may be.                                                                 *)
LEMMA OutcomeTold ==
    ASSUME OutcomeInv, Mqtt!BizOperationResponse
    PROVE  OutcomeInv'
<1> DEFINE r == Head(responses)
           n == Len(responses)
<1>1. /\ responses # <<>> /\ responses' = Tail(responses)
      /\ mqttTold' = [mqttTold EXCEPT
            ![r.biz] = [state |-> Mqtt!Outcome(r), life |-> r.life]]
      /\ UNCHANGED <<published, pods, retained, up, life, mqttInstalled, answering,
                     silent, inbox, job>>
    BY DEF Mqtt!BizOperationResponse, Mqtt!tunnel, Mqtt!base, Mqtt!modules
<1>2. /\ n \in Nat \ {0} /\ DOMAIN responses = 1..n /\ DOMAIN responses' = 1..(n - 1)
      /\ r = responses[1]
      /\ \A i \in 1..n : responses[i] \in MqttResponse
      /\ \A i \in 1..(n - 1) : responses'[i] = responses[i + 1]
      /\ responses' \in Seq(MqttResponse)
    BY <1>1 DEF OutcomeInv, OutcomesTyped
<1>3. r \in MqttResponse /\ r.biz \in MqttBiz /\ r.life \in Nat
    BY <1>2 DEF MqttResponse
<1>4. Mqtt!Outcome(r) \in {"BROKEN", "ACTIVATED", "STOPPED"}
    BY DEF Mqtt!Outcome
<1>5. /\ \A q \in MqttBiz \ {r.biz} : mqttTold'[q] = mqttTold[q]
      /\ mqttTold'[r.biz] = [state |-> Mqtt!Outcome(r), life |-> r.life]
    BY <1>1, <1>3 DEF OutcomeInv, OutcomesTyped
<1>6. CommandsTyped'
    BY <1>1 DEF OutcomeInv, CommandsTyped
<1>7. OutcomesTyped'
    BY <1>1, <1>2, <1>3, <1>4 DEF OutcomeInv, OutcomesTyped
<1>a. r.life <= life
    BY <1>2 DEF OutcomeInv, LivesPast, Agreement
<1>b. \A state, q : Agreed(state, q)' <=> Agreed(state, q)
    BY <1>1 DEF Agreed
<1> HIDE DEF r, n
<1>8. LivesPast'
    <2>1. \A i \in 1..(n - 1) : responses'[i].life <= life
        BY <1>2 DEF OutcomeInv, LivesPast, Agreement
    <2>2. \A q \in MqttBiz : mqttTold'[q].life <= life
        BY <1>5, <1>a DEF OutcomeInv, LivesPast, Agreement
    <2>3. QED BY <1>1, <1>2, <2>1, <2>2 DEF LivesPast, OutcomeInv, Agreement
<1>c. AnswerAgrees'
    BY <1>1, <1>b DEF OutcomeInv, Agreement, AnswerAgrees, Agreed, Mqtt!Outcome
<1>9. LastAgrees'
    <2> SUFFICES ASSUME NEW i \in DOMAIN responses', up', responses'[i].life = life',
                        LastAbout(i)', responses'[i].biz \notin silent',
                        Unanswered(responses[i].biz)'
                 PROVE  Agreed(Mqtt!Outcome(responses[i]), responses[i].biz)'
        BY DEF LastAgrees
    <2>0. /\ i \in 1..(n - 1) /\ up /\ responses'[i].life = life
          /\ responses'[i].biz \notin silent /\ Unanswered(responses'[i].biz)
        BY <1>1, <1>2 DEF Unanswered
    <2>1. i + 1 \in 1..n /\ responses'[i] = responses[i + 1]
        BY <1>2, <2>0
    <2>2. LastAbout(i + 1)
        <3> SUFFICES ASSUME NEW j \in 1..n, j > i + 1
                     PROVE  responses[j].biz # responses[i + 1].biz
            BY <1>2 DEF LastAbout
        <3>1. j - 1 \in 1..(n - 1) /\ j - 1 > i /\ (j - 1) + 1 = j
            BY <1>2, <2>0
        <3>2. responses'[j - 1] = responses[j]
            BY <1>2, <3>1
        <3>3. QED BY <1>2, <2>1, <3>1, <3>2 DEF LastAbout
    <2>3. Agreed(Mqtt!Outcome(responses[i + 1]), responses[i + 1].biz)
        BY <1>2, <2>0, <2>1, <2>2 DEF OutcomeInv, LastAgrees, Agreement
    <2>4. Mqtt!Outcome(responses[i])' = Mqtt!Outcome(responses[i + 1])
        BY <2>1 DEF Mqtt!Outcome
    <2>5. QED BY <1>b, <2>1, <2>3, <2>4 DEF Agreed
<1>10. OutcomesAgree'
    <2> SUFFICES ASSUME NEW q \in MqttBiz \ silent, up, mqttTold'[q].life = life, ~Mqtt!Awaited(q)'
                 PROVE  Agreed(mqttTold'[q].state, q)
        BY <1>1, <1>b DEF OutcomesAgree, Mqtt!OutcomesAgree, Agreed
    <2>1. \A i \in 2..n : responses[i].biz # q
        <3> SUFFICES ASSUME NEW i \in 2..n PROVE responses[i].biz # q
            OBVIOUS
        <3>1. i - 1 \in 1..(n - 1) /\ (i - 1) + 1 = i
            BY <1>2
        <3>2. responses'[i - 1] = responses[i]
            BY <1>2, <3>1
        <3>3. QED BY <1>2, <3>1, <3>2 DEF Mqtt!Awaited
    <2>2. CASE q = r.biz
        <3>1. LastAbout(1)
            BY <1>2, <2>1, <2>2 DEF LastAbout
        <3>2. mqttTold'[q].state = Mqtt!Outcome(responses[1]) /\ responses[1].life = life
            BY <1>2, <1>5, <2>2
        <3>3. 1 \in DOMAIN responses
            BY <1>2
        <3>a. Unanswered(q)
            BY <1>1 DEF Mqtt!Awaited, Unanswered
        <3>4. QED BY <1>2, <2>2, <3>1, <3>2, <3>3, <3>a DEF OutcomeInv, LastAgrees, Agreement
    <2>3. CASE q # r.biz
        <3>1. mqttTold'[q] = mqttTold[q]
            BY <1>5, <2>3
        <3>2. ~Mqtt!Awaited(q)
            <4>1. \A i \in 1..n : i = 1 \/ i \in 2..n
                BY <1>2
            <4>2. QED BY <1>1, <1>2, <2>1, <2>3, <4>1 DEF Mqtt!Awaited
        <3>3. QED BY <3>1, <3>2 DEF OutcomeInv, OutcomesAgree, Mqtt!OutcomesAgree, Agreed, Agreement
    <2>4. QED BY <2>2, <2>3
<1>11. QED BY <1>6, <1>7, <1>8, <1>9, <1>10, <1>c DEF OutcomeInv, Agreement

-----------------------------------------------------------------------------
(* What is published is a command of a module, a query or a baseline.      *)
LEMMA PubTyped ==
    ASSUME OutcomeInv, NEW m \in MqttCommand, Mqtt!Pub(m),
           pods' \subseteq [biz : MqttBiz, pod : Nat]
    PROVE  OutcomeInv'
<1>1. /\ published' = published + 1
      /\ retained' = {q \in retained : q.command # m.command} \cup {m}
      /\ inbox' = IF connected THEN Append(inbox, m) ELSE inbox
      /\ UNCHANGED <<up, life, mqttInstalled, answering, silent, job, responses, mqttTold>>
    BY DEF Mqtt!Pub, Mqtt!base, Mqtt!modules
<1>2. {q \in retained : q.command # m.command} \in SUBSET retained
    OBVIOUS
<1>3. IsFiniteSet(retained')
    BY <1>1, <1>2, FS_Subset, FS_AddElement DEF OutcomeInv, CommandsTyped
<1>4. inbox' \in Seq(MqttCommand)
    BY <1>1 DEF OutcomeInv, CommandsTyped
<1>5. CommandsTyped'
    BY <1>1, <1>3, <1>4 DEF OutcomeInv, CommandsTyped
<1>6. OutcomesTyped'
    BY <1>1 DEF OutcomeInv, OutcomesTyped
<1>7. QED BY <1>1, <1>5, <1>6, OutcomesStay DEF OutcomeInv

LEMMA TunnelPublishes ==
    ASSUME OutcomeInv,
           \/ \E b \in MqttBiz : Mqtt!StartBiz(b)
           \/ \E p \in pods : Mqtt!StopBiz(p)
           \/ \E kind \in QueryCommand : Mqtt!AskBase(kind)
           \/ \E content \in SUBSET MqttBiz : Mqtt!AnswerBaseline(content)
    PROVE  OutcomeInv'
<1>0. published \in Nat /\ pods \subseteq [biz : MqttBiz, pod : Nat]
    BY DEF OutcomeInv, CommandsTyped
<1>1. ASSUME NEW b \in MqttBiz, Mqtt!StartBiz(b) PROVE OutcomeInv'
    <2> DEFINE m == [command |-> "installBiz", biz |-> b,
                     pod |-> published, id |-> published]
    <2>1. m \in MqttCommand
        BY <1>0 DEF MqttCommand
    <2>2. Mqtt!Pub(m) /\ pods' = pods \cup {[biz |-> b, pod |-> published]}
        BY <1>1 DEF Mqtt!StartBiz
    <2>3. pods' \subseteq [biz : MqttBiz, pod : Nat]
        BY <1>0, <2>2
    <2> HIDE DEF m
    <2>4. QED BY <2>1, <2>2, <2>3, PubTyped
<1>2. ASSUME NEW p \in pods, Mqtt!StopBiz(p) PROVE OutcomeInv'
    <2> DEFINE m == [command |-> "uninstallBiz", biz |-> p.biz,
                     pod |-> p.pod, id |-> published]
    <2>1. m \in MqttCommand
        BY <1>0 DEF MqttCommand
    <2>2. Mqtt!Pub(m) /\ pods' = pods \ {p}
        BY <1>2 DEF Mqtt!StopBiz
    <2>3. pods' \subseteq [biz : MqttBiz, pod : Nat]
        BY <1>0, <2>2
    <2> HIDE DEF m
    <2>4. QED BY <2>1, <2>2, <2>3, PubTyped
<1>3. ASSUME NEW kind \in QueryCommand, Mqtt!AskBase(kind) PROVE OutcomeInv'
    <2> DEFINE m == [command |-> kind, id |-> published]
    <2>1. m \in MqttCommand
        BY <1>0, QueriesOnly DEF MqttCommand
    <2>2. Mqtt!Pub(m) /\ pods' = pods
        BY <1>3 DEF Mqtt!AskBase
    <2> HIDE DEF m
    <2>3. QED BY <1>0, <2>1, <2>2, PubTyped
<1>4. ASSUME NEW content \in SUBSET MqttBiz, Mqtt!AnswerBaseline(content) PROVE OutcomeInv'
    <2> DEFINE m == [command |-> "baseline", content |-> content, id |-> published]
    <2>1. m \in MqttCommand
        BY <1>0 DEF MqttCommand
    <2>2. Mqtt!Pub(m) /\ pods' = pods
        BY <1>4 DEF Mqtt!AnswerBaseline
    <2> HIDE DEF m
    <2>3. QED BY <1>0, <2>1, <2>2, PubTyped
<1>5. QED BY <1>1, <1>2, <1>3, <1>4

(* What is retained, and the messages that a lost connection has not taken *)
(* along, are sequences of messages again.                                 *)
LEMMA BaseConnects ==
    ASSUME OutcomeInv, Mqtt!BaseConnects
    PROVE  OutcomeInv'
<1> USE DEF OutcomeInv
<1>1. UNCHANGED <<published, pods, retained, up, life, job, mqttInstalled, answering, silent,
                  responses, mqttTold>>
    BY DEF Mqtt!BaseConnects, Mqtt!tunnel, Mqtt!modules
<1>2. Mqtt!Cardinality(retained) = Cardinality(retained)
    BY DEF Cardinality, Mqtt!Cardinality
<1>3. PICK q \in [1..Cardinality(retained) -> retained] : inbox' = inbox \o q
    BY <1>2 DEF Mqtt!BaseConnects
<1>4. Cardinality(retained) \in Nat /\ retained \subseteq MqttCommand
    BY FS_CardinalityType DEF CommandsTyped
<1>5. q \in Seq(MqttCommand)
    BY <1>4
<1>6. inbox' \in Seq(MqttCommand)
    BY <1>3, <1>5 DEF CommandsTyped
<1>7. CommandsTyped' /\ OutcomesTyped'
    BY <1>1, <1>6 DEF CommandsTyped, OutcomesTyped
<1>8. QED BY <1>1, <1>7, OutcomesStay

LEMMA InboxCut ==
    ASSUME CommandsTyped, Mqtt!ConnectionLost, UNCHANGED <<published, pods, retained, job>>
    PROVE  CommandsTyped'
<1>1. PICK k \in 0..Len(inbox) : inbox' = SubSeq(inbox, 1, k)
    BY DEF Mqtt!ConnectionLost
<1>2. inbox' \in Seq(MqttCommand)
    BY <1>1 DEF CommandsTyped
<1>3. QED BY <1>2 DEF CommandsTyped

LEMMA BaseConnection ==
    ASSUME OutcomeInv,
           Mqtt!BaseDisconnects \/ Mqtt!BaseCrashes \/ Mqtt!BaseStarts
    PROVE  OutcomeInv'
<1> USE DEF OutcomeInv
<1>1. CASE Mqtt!BaseDisconnects
    <2>1. UNCHANGED <<published, pods, retained, up, life, job, mqttInstalled, answering,
                      silent, responses, mqttTold>>
        BY <1>1 DEF Mqtt!BaseDisconnects, Mqtt!tunnel, Mqtt!modules
    <2>2. CommandsTyped' /\ OutcomesTyped'
        BY <1>1, <2>1, InboxCut DEF Mqtt!BaseDisconnects, OutcomesTyped
    <2>3. QED BY <2>1, <2>2, OutcomesStay
<1>2. CASE Mqtt!BaseCrashes
    <2>1. /\ up' = FALSE /\ inbox' = <<>> /\ answering' = {} /\ silent' = {}
          /\ job' = [w \in Worker |-> {}]
          /\ mqttInstalled' = [b \in MqttBiz |-> "absent"]
          /\ UNCHANGED <<published, pods, retained, life, responses, mqttTold>>
        BY <1>2 DEF Mqtt!BaseCrashes, Mqtt!tunnel
    <2>2. CommandsTyped' /\ OutcomesTyped'
        BY <2>1 DEF CommandsTyped, OutcomesTyped, BizStates
    <2>3. QED BY <2>1, <2>2, OutcomesStay
<1>3. CASE Mqtt!BaseStarts
    <2>1. /\ ~up /\ life' = life + 1
          /\ UNCHANGED <<published, pods, retained, inbox, job, mqttInstalled, answering,
                         silent, responses, mqttTold>>
        BY <1>3 DEF Mqtt!BaseStarts, Mqtt!tunnel, Mqtt!modules
    <2>2. CommandsTyped' /\ OutcomesTyped'
        BY <2>1 DEF CommandsTyped, OutcomesTyped
    <2>3. QED BY <2>1, <2>2, OutcomesStay
<1>4. QED BY <1>1, <1>2, <1>3

(* A goroutine of the base takes a command ...                             *)
LEMMA CommandTaken ==
    ASSUME OutcomeInv, NEW w \in Worker, Mqtt!ProcessCommand(w)
    PROVE  OutcomeInv'
<1> USE DEF OutcomeInv
<1>1. /\ inbox # <<>> /\ inbox' = Tail(inbox)
      /\ job' = [job EXCEPT ![w] = {Head(inbox)}]
      /\ UNCHANGED <<published, pods, retained, up, life, mqttInstalled, answering, silent,
                     responses, mqttTold>>
    BY DEF Mqtt!ProcessCommand, Mqtt!tunnel, Mqtt!base, Mqtt!modules
<1>2. Head(inbox) \in MqttCommand /\ inbox' \in Seq(MqttCommand)
    BY <1>1 DEF CommandsTyped
<1>3. job' \in [Worker -> SUBSET MqttCommand]
    BY <1>1, <1>2 DEF CommandsTyped
<1>4. CommandsTyped' /\ OutcomesTyped'
    BY <1>1, <1>2, <1>3 DEF CommandsTyped, OutcomesTyped
<1>5. QED BY <1>1, <1>4, OutcomesStay

(* ... and the callback a baseline.                                        *)
LEMMA BaselineTaken ==
    ASSUME OutcomeInv, Mqtt!ProcessBaseline
    PROVE  OutcomeInv'
<1> USE DEF OutcomeInv
<1> DEFINE content == Head(inbox).content
<1>1. /\ inbox # <<>> /\ inbox' = Tail(inbox)
      /\ mqttInstalled' = [b \in MqttBiz |->
             IF b \in content THEN "ACTIVATED" ELSE mqttInstalled[b]]
      /\ silent' = silent \cup {b \in content : mqttInstalled[b] # "ACTIVATED"}
      /\ UNCHANGED <<published, pods, retained, up, life, job, answering,
                     responses, mqttTold>>
    BY DEF Mqtt!ProcessBaseline, Mqtt!tunnel, Mqtt!base
<1> HIDE DEF content
<1>2. inbox' \in Seq(MqttCommand)
    BY <1>1 DEF CommandsTyped
<1>3. mqttInstalled' \in [MqttBiz -> BizStates]
    BY <1>1 DEF OutcomesTyped, BizStates
<1>4. CommandsTyped' /\ OutcomesTyped'
    BY <1>1, <1>2, <1>3 DEF CommandsTyped, OutcomesTyped
<1>5. \A b \in MqttBiz \ silent' : mqttInstalled'[b] = "ACTIVATED"
                                    <=> mqttInstalled[b] = "ACTIVATED"
    BY <1>1
<1>6. QED BY <1>1, <1>4, <1>5, OutcomesStay

(* A change of one module by a command or by the base itself.              *)
LEMMA ModuleChanged ==
    ASSUME OutcomeInv,
           NEW by \in SUBSET Worker, NEW b \in MqttBiz, NEW state \in BizStates,
           NEW kind \in {"installBiz", "uninstallBiz"}, NEW code \in {"SUCCESS", "FAILED"},
           Mqtt!Change(by, b, state, kind, code),
           code = "SUCCESS" => state = IF kind = "installBiz" THEN "ACTIVATED"
                                       ELSE "absent"
    PROVE  OutcomeInv'
<1>1. CommandsTyped'
    BY DEF OutcomeInv, CommandsTyped, Mqtt!Change, Mqtt!tunnel
<1>2. QED BY <1>1, ChangeAwaited DEF OutcomeInv

(* A goroutine of the base carries its command out.                        *)
LEMMA CommandDone ==
    ASSUME OutcomeInv, NEW w \in Worker, Mqtt!Process(w)
    PROVE  OutcomeInv'
<1> USE DEF OutcomeInv
<1>1. PICK m \in job[w] :
         \/ Mqtt!ProcessInstallBiz(w, m)
         \/ Mqtt!ProcessUnInstallBiz(w, m)
         \/ Mqtt!UnInstallFails(w, m)
         \/ Mqtt!ProcessQuery(w, m)
    BY DEF Mqtt!Process
<1>2. m \in MqttCommand
    BY DEF CommandsTyped
<1>3. m.command \in {"installBiz", "uninstallBiz"} => m.biz \in MqttBiz
    BY <1>2 DEF MqttCommand
<1>4. CASE Mqtt!ProcessInstallBiz(w, m)
    <2>1. /\ m.biz \in MqttBiz
          /\ mqttInstalled' = [mqttInstalled EXCEPT
                ![m.biz] = IF @ = "absent" THEN "RESOLVED" ELSE @]
          /\ job' = [job EXCEPT ![w] = {}]
          /\ UNCHANGED <<published, pods, retained, inbox, up, life, answering, silent,
                         responses, mqttTold>>
        BY <1>3, <1>4 DEF Mqtt!ProcessInstallBiz, Mqtt!Done, Mqtt!tunnel, Mqtt!base
    <2>2. CommandsTyped'
        BY <2>1 DEF CommandsTyped
    <2>3. OutcomesTyped'
        BY <2>1 DEF OutcomesTyped, BizStates
    <2>4. \A b \in MqttBiz : mqttInstalled'[b] = "ACTIVATED" <=> mqttInstalled[b] = "ACTIVATED"
        BY <2>1 DEF OutcomesTyped
    <2>5. QED BY <2>1, <2>2, <2>3, <2>4, OutcomesStay
<1>5. CASE Mqtt!ProcessUnInstallBiz(w, m)
    <2>1. m.biz \in MqttBiz /\ Mqtt!Change({w}, m.biz, "absent", "uninstallBiz", "SUCCESS")
        BY <1>3, <1>5 DEF Mqtt!ProcessUnInstallBiz
    <2>2. "absent" \in BizStates
        BY DEF BizStates
    <2>3. QED BY <2>1, <2>2, ModuleChanged
<1>6. CASE Mqtt!UnInstallFails(w, m)
    <2>1. /\ m.biz \in MqttBiz
          /\ Mqtt!Change({w}, m.biz, mqttInstalled[m.biz], "uninstallBiz", "FAILED")
        BY <1>3, <1>6 DEF Mqtt!UnInstallFails
    <2>2. mqttInstalled[m.biz] \in BizStates
        BY <2>1 DEF OutcomesTyped
    <2>3. QED BY <2>1, <2>2, ModuleChanged
<1>7. CASE Mqtt!ProcessQuery(w, m)
    <2>1. /\ job' = [job EXCEPT ![w] = {}]
          /\ UNCHANGED <<published, pods, retained, inbox, up, life, mqttInstalled,
                         answering, silent, responses, mqttTold>>
        BY <1>7 DEF Mqtt!ProcessQuery, Mqtt!Done, Mqtt!tunnel, Mqtt!base, Mqtt!modules
    <2>2. CommandsTyped' /\ OutcomesTyped'
        BY <2>1 DEF CommandsTyped, OutcomesTyped
    <2>3. QED BY <2>1, <2>2, OutcomesStay
<1>8. QED BY <1>1, <1>4, <1>5, <1>6, <1>7

(* An installation ends, or a module changes by itself.                    *)
LEMMA InstallationEnds ==
    ASSUME OutcomeInv, NEW b \in MqttBiz,
           Mqtt!SetBizState(b) \/ Mqtt!ModuleFails(b) \/ Mqtt!InstallFails(b)
    PROVE  OutcomeInv'
<1> USE DEF OutcomeInv
<1>1. "ACTIVATED" \in BizStates /\ "absent" \in BizStates /\ "BROKEN" \in BizStates
    BY DEF BizStates
<1>2. CASE Mqtt!SetBizState(b)
    BY <1>1, <1>2, ModuleChanged DEF Mqtt!SetBizState
<1>3. CASE Mqtt!InstallFails(b)
    BY <1>1, <1>3, ModuleChanged DEF Mqtt!InstallFails
<1>4. CASE Mqtt!ModuleFails(b)
    <2>1. /\ mqttInstalled' = [mqttInstalled EXCEPT ![b] = "BROKEN"]
          /\ silent' = silent \cup {b}
          /\ UNCHANGED <<published, pods, retained, inbox, job, up, life, answering,
                         responses, mqttTold>>
        BY <1>4 DEF Mqtt!ModuleFails, Mqtt!tunnel, Mqtt!base
    <2>2. CommandsTyped' /\ OutcomesTyped'
        BY <1>1, <2>1 DEF CommandsTyped, OutcomesTyped
    <2>3. \A q \in MqttBiz \ silent' : mqttInstalled'[q] = "ACTIVATED"
                                    <=> mqttInstalled[q] = "ACTIVATED"
        BY <2>1 DEF OutcomesTyped
    <2>4. QED BY <2>1, <2>2, <2>3, OutcomesStay
<1>5. QED BY <1>2, <1>3, <1>4

(* A response is published, with or without the broker's acknowledgement.  *)
LEMMA ResponsePublished ==
    ASSUME OutcomeInv, NEW a \in answering,
           Mqtt!ResponseSent(a) \/ Mqtt!AcknowledgementLost(a)
    PROVE  OutcomeInv'
<1> USE DEF OutcomeInv
<1>1. CASE Mqtt!ResponseSent(a)
    <2>1. /\ responses' = Append(responses, a.response)
          /\ answering' = answering \ {a}
          /\ job' = [w \in Worker |-> IF w \in a.by THEN {} ELSE job[w]]
          /\ UNCHANGED <<published, pods, retained, inbox, up, life, mqttInstalled, silent,
                         mqttTold>>
        BY <1>1 DEF Mqtt!ResponseSent, Mqtt!tunnel, Mqtt!base
    <2>2. job' \in [Worker -> SUBSET MqttCommand]
        BY <2>1 DEF CommandsTyped
    <2>3. CommandsTyped'
        BY <2>1, <2>2 DEF CommandsTyped
    <2>4. QED BY <2>1, <2>3, AnswerPublished
<1>2. CASE Mqtt!AcknowledgementLost(a)
    <2>1. /\ responses' = Append(responses, a.response)
          /\ UNCHANGED <<published, pods, retained, job, up, life, mqttInstalled, answering,
                         silent, mqttTold>>
        BY <1>2 DEF Mqtt!AcknowledgementLost, Mqtt!tunnel, Mqtt!modules
    <2>2. CommandsTyped'
        BY <1>2, <2>1, InboxCut DEF Mqtt!AcknowledgementLost
    <2>3. QED BY <2>1, <2>2, AnswerPublished
<1>3. QED BY <1>1, <1>2

LEMMA OutcomeNext == OutcomeInv /\ [PartsNext]_<<part, vars, mqttVars>> => OutcomeInv'
<1> SUFFICES ASSUME OutcomeInv, [PartsNext]_<<part, vars, mqttVars>> PROVE OutcomeInv'
    OBVIOUS
<1>1. CASE UNCHANGED mqttVars
    <2>1. CommandsTyped' /\ OutcomesTyped'
        BY <1>1 DEF mqttVars, OutcomeInv, CommandsTyped, OutcomesTyped
    <2>2. QED BY <1>1, <2>1, OutcomesStay DEF mqttVars, OutcomeInv
<1>2. CASE Mqtt!Next
    BY <1>2, TunnelPublishes, BaseConnects, BaseConnection, CommandTaken, CommandDone,
       BaselineTaken, InstallationEnds, ResponsePublished, OutcomeTold
    DEF Mqtt!Next
<1>3. QED BY <1>1, <1>2 DEF PartsNext

(* Once no response about a module is under way, the last outcome that     *)
(* bizOperationResponseCallback told is what the base has, whatever the    *)
(* order in which its goroutines ran the commands, however often the base  *)
(* lost its connection while it answered, and however often the broker     *)
(* repeated commands: the mutex is held until the answer is published.     *)
(* Left out are modules that the base changed since without an answer, as  *)
(* a repeated baseline or a failure does.                                  *)
THEOREM OutcomesToldAgree == PartsSpec => []OutcomesAgree
<1>1. PartsInit => OutcomeInv
    BY OutcomeInit DEF PartsInit
<1>2. OutcomeInv => OutcomesAgree
    BY DEF OutcomeInv, Agreement
<1>3. QED BY <1>1, <1>2, OutcomeNext, PTL DEF PartsSpec
=============================================================================
