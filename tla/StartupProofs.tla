----------------------------- MODULE StartupProofs ----------------------------
(***************************************************************************)
(* Proofs about Startup: for every configuration and any number of         *)
(* heartbeats, the manager runs only with all its tunnels, and a heartbeat *)
(* that is acknowledged was told; and about BaseNodes: for any number of   *)
(* namespaces, base pods, removals and log requests, a request is answered *)
(* with a base of its own node if that is in the pod's namespace.          *)
(*                                                                         *)
(* RunsWithItsTunnels speaks of the last step of main only.  What makes it *)
(* inductive is what each earlier step of main has settled (Settled); what *)
(* acknowledged heartbeats rest on is who got the callbacks (Heard).       *)
(* Likewise LogsOfOwnBase speaks of a lookup that is done; LookupInv says  *)
(* of each earlier step that what it will read next is accounted for.      *)
(***************************************************************************)
EXTENDS MCStartup, TLAPS

(* What main has settled when it comes to a step.                          *)
Settled ==
    /\ pc \in {"manager.New", "lookupProxyServiceIP", "setupDeployments",
               "startMqtt"} => started = {} /\ failed = {}
    /\ pc = "startHttp" =>
          /\ started \cap failed = {}
          /\ started \cup failed = config.tunnels \cap {"mqtt"}
    /\ pc = "chooseTunnel" =>
          /\ started \cap failed = {}
          /\ started \cup failed = config.tunnels
    /\ pc \in {"setupVNodes", "startProxy", "manager.Start", "running"} =>
          /\ started = config.tunnels
          /\ tunnel # {} /\ tunnel \subseteq started

(* The HTTP tunnel has the callbacks only when it is the one enabled, and  *)
(* what they were called for was told.                                     *)
Heard ==
    /\ tunnel = {"http"} => config.tunnels = {"http"}
    /\ DOMAIN beat = Beat
    /\ \A h \in Beat : beat[h] \in {"called", "acknowledged"} =>
          h \in told /\ config.tunnels = {"http"}

IInv ==
    /\ config.tunnels \subseteq Tunnel
    /\ Settled
    /\ Heard

-----------------------------------------------------------------------------
(* Every configuration starts with nothing settled.                        *)
LEMMA InvInit == Init => IInv
<1> SUFFICES ASSUME Init PROVE IInv
    OBVIOUS
<1> USE DEF Init
<1>1. config.tunnels \subseteq Tunnel
    BY DEF Config
<1>2. Settled
    BY DEF Settled
<1>3. Heard
    BY DEF Heard
<1> QED
    BY <1>1, <1>2, <1>3 DEF IInv

(* A death leaves nothing that the invariant speaks about.                 *)
LEMMA DieInv ==
    ASSUME IInv, Die,
           UNCHANGED <<config, started, failed, tunnel, signal, cancelled, beat, told>>
    PROVE  IInv'
    BY SMT DEF IInv, Settled, Heard, Die

(* The steps that go on or die.                                            *)
LEMMA StepInv ==
    ASSUME IInv, NEW from, NEW to, NEW mayFail, Step(from, to, mayFail),
           \/ from = "manager.New" /\ to = "lookupProxyServiceIP"
           \/ from = "lookupProxyServiceIP" /\ to = "setupDeployments"
           \/ from = "setupDeployments" /\ to = "startMqtt"
           \/ from = "setupVNodes" /\ to = "startProxy"
    PROVE  IInv'
<1>1. CASE Die
    BY <1>1, DieInv DEF Step
<1>2. CASE pc' = to /\ UNCHANGED Servers
    BY <1>2, SMT DEF Step, Servers, IInv, Settled, Heard
<1> QED
    BY <1>1, <1>2 DEF Step

(* The tunnels start, and one is chosen.                                   *)
LEMMA TunnelsInv ==
    ASSUME IInv, StartMqtt \/ StartHttp \/ ChooseTunnel
    PROVE  IInv'
<1> USE DEF IInv, Settled, Heard, Servers, Tunnel
<1>0. config.tunnels \subseteq {"mqtt", "http"}
    OBVIOUS
<1>1. CASE StartMqtt /\ Die
    BY <1>1, DieInv DEF StartMqtt
<1>2. CASE StartMqtt /\ ~Die
  <2>1. CASE "mqtt" \notin config.tunnels /\ UNCHANGED <<started, failed, Servers>>
    <3>1. pc = "startMqtt" /\ pc' = "startHttp"
        BY <1>2, <2>1 DEF StartMqtt
    <3>2. UNCHANGED <<config, started, failed, tunnel, mqtt, discovery, proxy,
                      cache, signal, cancelled, beat, told>>
        BY <1>2, <2>1 DEF StartMqtt
    <3>3. config.tunnels \cap {"mqtt"} = {}
        BY <2>1
    <3> QED
        BY <3>1, <3>2, <3>3, SMT
  <2>2. CASE /\ "mqtt" \in config.tunnels
             /\ started' = started \cup {"mqtt"} /\ mqtt' = "listening"
             /\ failed' = failed
    <3>1. pc = "startMqtt" /\ pc' = "startHttp"
        BY <1>2, <2>2 DEF StartMqtt
    <3>2. UNCHANGED <<config, tunnel, discovery, proxy, cache, signal,
                      cancelled, beat, told>>
        BY <1>2, <2>2 DEF StartMqtt, Die
    <3>3. config.tunnels \cap {"mqtt"} = {"mqtt"}
        BY <2>2
    <3> QED
        BY <2>2, <3>1, <3>2, <3>3, SMT
  <2>3. CASE /\ "mqtt" \in config.tunnels
             /\ failed' = failed \cup {"mqtt"}
             /\ started' = started /\ mqtt' = mqtt
    <3>1. pc = "startMqtt" /\ pc' = "startHttp"
        BY <1>2, <2>3 DEF StartMqtt
    <3>2. UNCHANGED <<config, tunnel, discovery, proxy, cache, signal,
                      cancelled, beat, told>>
        BY <1>2, <2>3 DEF StartMqtt, Die
    <3>3. config.tunnels \cap {"mqtt"} = {"mqtt"}
        BY <2>3
    <3> QED
        BY <2>3, <3>1, <3>2, <3>3, SMT
  <2> QED
      BY <1>2, <2>1, <2>2, <2>3 DEF StartMqtt
<1>3. CASE StartHttp
    BY <1>3, SMT DEF StartHttp
<1>4. CASE ChooseTunnel /\ Die /\ UNCHANGED tunnel
    BY <1>4, DieInv DEF ChooseTunnel
<1>5. CASE ChooseTunnel /\ ~(failed # {} \/ started = {})
    BY <1>5, SMT DEF ChooseTunnel
<1> QED
    BY <1>1, <1>2, <1>3, <1>4, <1>5 DEF ChooseTunnel

(* The last steps of main.                                                 *)
LEMMA LastStepsInv ==
    ASSUME IInv, StartProxy \/ StartManager \/ ManagerStops
    PROVE  IInv'
<1>1. CASE StartProxy
    BY <1>1, DieInv, SMT
       DEF StartProxy, IInv, Settled, Heard
<1>2. CASE StartManager
    BY <1>2, SMT DEF StartManager, IInv, Settled, Heard
<1>3. CASE ManagerStops
    BY <1>3, DieInv DEF ManagerStops
<1> QED
    BY <1>1, <1>2, <1>3

(* A heartbeat goes on.                                                    *)
LEMMA HeartbeatInv ==
    ASSUME IInv, NEW h \in Beat, HttpHeartbeat(h) \/ TellHeartbeat(h) \/ AnswerHeartbeat(h)
    PROVE  IInv'
<1>1. UNCHANGED <<config, pc, started, failed, tunnel>>
    BY DEF HttpHeartbeat, TellHeartbeat, AnswerHeartbeat
<1>2. Heard'
  <2>1. CASE HttpHeartbeat(h)
      BY <1>1, <2>1, SMT DEF HttpHeartbeat, IInv, Heard
  <2>2. CASE TellHeartbeat(h)
      BY <1>1, <2>2, SMT DEF TellHeartbeat, IInv, Heard
  <2>3. CASE AnswerHeartbeat(h)
      BY <1>1, <2>3, SMT DEF AnswerHeartbeat, IInv, Heard
  <2> QED
      BY <2>1, <2>2, <2>3
<1> QED
    BY <1>1, <1>2 DEF IInv, Settled

(* The goroutines and the signals change neither pc nor the tunnels, but   *)
(* for the death that a proxy that cannot listen brings.                   *)
LEMMA GoroutinesInv ==
    ASSUME IInv,
           \/ DiscoveryListens \/ ProxyListens \/ Shutdown \/ Signal \/ Cancel
           \/ \E h \in Beat : HttpHeartbeat(h) \/ TellHeartbeat(h) \/ AnswerHeartbeat(h)
    PROVE  IInv'
<1> USE DEF IInv, Settled, Heard, Servers
<1>1. CASE DiscoveryListens
    BY <1>1, SMT DEF DiscoveryListens
<1>2. CASE ProxyListens
    BY <1>2, DieInv, SMT DEF ProxyListens
<1>3. CASE Shutdown
    BY <1>3, SMT DEF Shutdown
<1>4. ASSUME NEW h \in Beat, HttpHeartbeat(h) \/ TellHeartbeat(h) \/ AnswerHeartbeat(h)
      PROVE  IInv'
    BY <1>4, HeartbeatInv
<1>5. CASE Signal
    BY <1>5, SMT DEF Signal
<1>6. CASE Cancel
    BY <1>6, SMT DEF Cancel
<1> QED
    BY <1>1, <1>2, <1>3, <1>4, <1>5, <1>6

(* No step of the process breaks the invariant.                            *)
LEMMA InvNext == IInv /\ [Next]_vars => IInv'
<1> SUFFICES ASSUME IInv, [Next]_vars PROVE IInv'
    OBVIOUS
<1>1. CASE NewManager \/ LookupProxyServiceIP \/ SetupDeployments \/ SetupVNodes
    BY <1>1, StepInv
       DEF NewManager, LookupProxyServiceIP, SetupDeployments, SetupVNodes
<1>2. CASE StartMqtt \/ StartHttp \/ ChooseTunnel
    BY <1>2, TunnelsInv
<1>3. CASE StartProxy \/ StartManager \/ ManagerStops
    BY <1>3, LastStepsInv
<1>4. CASE \/ DiscoveryListens \/ ProxyListens \/ Shutdown \/ Signal \/ Cancel
           \/ \E h \in Beat : HttpHeartbeat(h) \/ TellHeartbeat(h) \/ AnswerHeartbeat(h)
    BY <1>4, GoroutinesInv
<1>5. CASE UNCHANGED vars
    BY <1>5 DEF vars, IInv, Settled, Heard
<1> QED
    BY <1>1, <1>2, <1>3, <1>4, <1>5 DEF Next, Main

-----------------------------------------------------------------------------
(* The invariant holds in every reachable state.                           *)
LEMMA Invariance == Spec => []IInv
    BY InvInit, InvNext, PTL DEF Spec

(* A tunnel that failed to start, or none enabled, never leaves a running  *)
(* manager behind (startTunnels), in any configuration.                    *)
THEOREM RunsWithTunnels == Spec => []RunsWithItsTunnels
<1>1. IInv => RunsWithItsTunnels
    BY DEF IInv, Settled, RunsWithItsTunnels
<1> QED
    BY Invariance, <1>1, PTL

(* A heartbeat answered with success was told to the vnode controller      *)
(* before, and the HTTP tunnel is the only one enabled, however early the  *)
(* heartbeat comes, whichever tunnels fail, and wherever between storing,  *)
(* telling and answering the start or a death comes.                       *)
THEOREM AcknowledgedWasTold == Spec => []AcknowledgedMeansTold
<1>1. IInv => AcknowledgedMeansTold
    BY DEF IInv, Heard, AcknowledgedMeansTold
<1> QED
    BY Invariance, <1>1, PTL

-----------------------------------------------------------------------------
(* The node object of a base and the log requests on it (BaseNodes).       *)

(* Between the steps of a lookup: a label the node has now, or the name    *)
(* read from it, is of a base the node had since the pod was read.         *)
LookupInv ==
    /\ DOMAIN lookup = Reader /\ DOMAIN hosts = Reader
    /\ \A r \in Reader :
       /\ lookup[r].pc = "node" /\ Nodes!BaseHost(vnode) # 0 =>
             Nodes!BaseHost(vnode) \in hosts[r]
       /\ lookup[r].pc = "base" => lookup[r].name \in hosts[r]
       /\ lookup[r].pc = "done" =>
             /\ lookup[r].answer.name \in hosts[r]
             /\ lookup[r].answer.namespace = lookup[r].namespace

(* The labels that GetPod notes hold the one that OrElse picks.            *)
LEMMA BaseHostNoted ==
    ASSUME NEW node
    PROVE  Nodes!BaseHost(node) \in node.baseHost \cup
              (IF node.baseHost = {} THEN {node.hostname} ELSE {})
<1>1. CASE node.baseHost = {}
    BY <1>1 DEF Nodes!BaseHost
<1>2. CASE node.baseHost # {}
    <2>1. Nodes!BaseHost(node) = CHOOSE h \in node.baseHost : TRUE
        BY <1>2 DEF Nodes!BaseHost
    <2>2. (CHOOSE h \in node.baseHost : TRUE) \in node.baseHost
        BY <1>2
    <2>3. QED BY <2>1, <2>2
<1>3. QED BY <1>1, <1>2

LEMMA LookupInit == Nodes!Init => LookupInv
BY DEF Nodes!Init, Nodes!Idle, LookupInv

(* Steps that leave the labels, the lookups and their histories alone.     *)
LEMMA LookupUntouched ==
    ASSUME LookupInv, UNCHANGED <<lookup, hosts>>,
           Nodes!BaseHost(vnode)' \in {0, Nodes!BaseHost(vnode)}
    PROVE  LookupInv'
BY DEF LookupInv

(* One lookup goes on, with a name or an answer that is noted.             *)
LEMMA LookupGoes ==
    ASSUME LookupInv, NEW r \in Reader, NEW new,
           lookup' = [lookup EXCEPT ![r] = new], UNCHANGED <<vnode, hosts>>,
           new.pc # "node",
           new.pc = "base" => new.name \in hosts[r],
           new.pc = "done" => new.answer.name \in hosts[r]
                                /\ new.answer.namespace = new.namespace
    PROVE  LookupInv'
<1>1. DOMAIN lookup' = Reader
    BY DEF LookupInv
<1>2. lookup'[r] = new
    BY DEF LookupInv
<1>3. \A q \in Reader \ {r} : lookup'[q] = lookup[q]
    BY DEF LookupInv
<1>4. Nodes!BaseHost(vnode)' = Nodes!BaseHost(vnode)
    BY DEF Nodes!BaseHost
<1>5. QED BY <1>1, <1>2, <1>3, <1>4 DEF LookupInv

(* A lookup that ends as not found or with an error is idle.               *)
LEMMA LookupEnds ==
    ASSUME LookupInv, NEW r \in Reader, UNCHANGED <<vnode, hosts>>,
           lookup' = [lookup EXCEPT ![r] = Nodes!Idle]
    PROVE  LookupInv'
<1>1. Nodes!Idle.pc = "idle"
    BY DEF Nodes!Idle
<1>2. QED BY <1>1, LookupGoes

(* A heartbeat that changes the node is noted by every lookup under way.   *)
LEMMA NodeReadyLookup ==
    ASSUME LookupInv, NEW oldStyle, NEW hostname, Nodes!NodeReady(oldStyle, hostname)
    PROVE  LookupInv'
<1>1. lookup' = lookup
    BY DEF Nodes!NodeReady
<1>2. hosts' = [r \in Reader |-> IF lookup[r].pc \in {"node", "base"}
                                 THEN hosts[r] \cup {base} ELSE hosts[r]]
    BY DEF Nodes!NodeReady, Nodes!Witness
<1>3. Nodes!BaseHost(vnode') = base
    <2>1. Nodes!BaseHost(vnode') \in vnode'.baseHost \cup
              (IF vnode'.baseHost = {} THEN {vnode'.hostname} ELSE {})
        BY BaseHostNoted
    <2>2. vnode' = [exists |-> TRUE, ready |-> TRUE,
                    baseHost |-> IF oldStyle THEN {} ELSE {base},
                    hostname |-> IF oldStyle THEN base ELSE hostname]
        BY DEF Nodes!NodeReady
    <2>3. CASE oldStyle
        BY <2>1, <2>2, <2>3
    <2>4. CASE ~oldStyle
        BY <2>1, <2>2, <2>4
    <2>5. QED BY <2>3, <2>4
<1>4. Nodes!BaseHost(vnode)' = base
    BY <1>3
<1>5. QED BY <1>1, <1>2, <1>4 DEF LookupInv

(* What the pod is read with is noted, so the labels it leads to are.      *)
LEMMA GetPodLookup ==
    ASSUME LookupInv, NEW r \in Reader, NEW n, Nodes!GetPod(r, n)
    PROVE  LookupInv'
<1> DEFINE now == vnode.baseHost \cup
            (IF vnode.baseHost = {} THEN {vnode.hostname} ELSE {})
<1>1. /\ DOMAIN lookup' = Reader
      /\ lookup'[r].pc = "node"
      /\ \A q \in Reader \ {r} : lookup'[q] = lookup[q]
    BY DEF Nodes!GetPod, Nodes!Idle, LookupInv
<1>2. /\ DOMAIN hosts' = Reader
      /\ hosts'[r] = now
      /\ \A q \in Reader \ {r} : hosts'[q] = hosts[q]
    BY DEF Nodes!GetPod, LookupInv
<1>3. Nodes!BaseHost(vnode) \in now
    BY BaseHostNoted
<1>4. Nodes!BaseHost(vnode)' = Nodes!BaseHost(vnode)
    BY DEF Nodes!GetPod, Nodes!BaseHost
<1> HIDE DEF now
<1>5. QED BY <1>1, <1>2, <1>3, <1>4 DEF LookupInv

LEMMA LookupStep ==
    ASSUME LookupInv, Nodes!Next
    PROVE  LookupInv'
<1>1. CASE Nodes!BaseStarts \/ Nodes!BaseStops \/ Nodes!CacheCatchesUp
    <2>1. UNCHANGED <<vnode, lookup, hosts>>
        BY <1>1 DEF Nodes!BaseStarts, Nodes!BaseStops, Nodes!CacheCatchesUp
    <2>2. QED BY <2>1, LookupUntouched DEF Nodes!BaseHost
<1>a. ASSUME NEW n \in Namespace,
             Nodes!PodMoves(n) \/ \E name \in 1..MaxPods :
                 Nodes!OtherPodCreated(Nodes!Pod(n, name))
      PROVE  LookupInv'
    <2>1. UNCHANGED <<vnode, lookup, hosts>>
        BY <1>a DEF Nodes!PodMoves, Nodes!OtherPodCreated
    <2>2. QED BY <2>1, LookupUntouched DEF Nodes!BaseHost
<1>2. CASE Nodes!NodeNotReady
    <2>1. /\ UNCHANGED <<lookup, hosts>>
          /\ vnode' = [vnode EXCEPT !.ready = FALSE]
        BY <1>2 DEF Nodes!NodeNotReady
    <2>2. vnode'.baseHost = vnode.baseHost /\ vnode'.hostname = vnode.hostname
        BY <2>1
    <2>3. QED BY <2>1, <2>2, LookupUntouched DEF Nodes!BaseHost
<1>3. ASSUME NEW p \in basePods, Nodes!PodDeleted(p) PROVE LookupInv'
    BY <1>3, LookupUntouched DEF Nodes!PodDeleted, Nodes!BaseHost
<1>4. ASSUME NEW oldStyle \in BOOLEAN, NEW hostname \in 0..MaxPods,
             Nodes!NodeReady(oldStyle, hostname)
      PROVE  LookupInv'
    BY <1>4, NodeReadyLookup
<1>5. ASSUME NEW c \in Remover,
             Nodes!OnNodeNotReady(c) \/ Nodes!GetNode(c) \/ Nodes!RemovalFails(c)
      PROVE  LookupInv'
    <2>1. UNCHANGED <<vnode, lookup, hosts>>
        BY <1>5 DEF Nodes!OnNodeNotReady, Nodes!GetNode, Nodes!RemovalFails
    <2>2. QED BY <2>1, LookupUntouched DEF Nodes!BaseHost
<1>6. ASSUME NEW c \in Remover, Nodes!DeleteNode(c) PROVE LookupInv'
    <2>1. UNCHANGED <<lookup, hosts>> /\ vnode' = Nodes!None
        BY <1>6 DEF Nodes!DeleteNode
    <2>2. Nodes!BaseHost(vnode)' = 0
        BY <2>1 DEF Nodes!BaseHost, Nodes!None
    <2>3. QED BY <2>1, <2>2, LookupUntouched
<1>7. ASSUME NEW r \in Reader, NEW n \in Namespace, Nodes!GetPod(r, n) PROVE LookupInv'
    BY <1>7, GetPodLookup
<1>8. ASSUME NEW r \in Reader, Nodes!GetLabels(r) PROVE LookupInv'
    <2>1. UNCHANGED <<vnode, hosts>> /\ lookup[r].pc = "node"
        BY <1>8 DEF Nodes!GetLabels
    <2>2. CASE Nodes!BaseHost(vnode) = 0
        <3>1. lookup' = [lookup EXCEPT ![r] = Nodes!Idle]
            BY <1>8, <2>2 DEF Nodes!GetLabels
        <3>2. QED BY <2>1, <3>1, LookupEnds
    <2>3. CASE Nodes!BaseHost(vnode) # 0
        <3> DEFINE new == [lookup[r] EXCEPT !.pc = "base", !.name = Nodes!BaseHost(vnode)]
        <3>1. lookup' = [lookup EXCEPT ![r] = new]
            BY <1>8, <2>3 DEF Nodes!GetLabels, LookupInv
        <3>2. Nodes!BaseHost(vnode) \in hosts[r]
            BY <2>1, <2>3 DEF LookupInv
        <3>3. new.pc = "base" /\ new.name = Nodes!BaseHost(vnode)
            BY DEF LookupInv
        <3> HIDE DEF new
        <3>4. QED BY <2>1, <3>1, <3>2, <3>3, LookupGoes
    <2>4. QED BY <2>2, <2>3
<1>9. ASSUME NEW r \in Reader, Nodes!GetBasePod(r) PROVE LookupInv'
    <2>1. UNCHANGED <<vnode, hosts>> /\ lookup[r].pc = "base"
        BY <1>9 DEF Nodes!GetBasePod
    <2> DEFINE p == Nodes!Pod(lookup[r].namespace, lookup[r].name)
               new == [lookup[r] EXCEPT !.pc = "done", !.answer = p]
    <2>2. \/ lookup' = [lookup EXCEPT ![r] = new]
          \/ lookup' = [lookup EXCEPT ![r] = Nodes!Idle]
        BY <1>9 DEF Nodes!GetBasePod, LookupInv
    <2>3. lookup[r].name \in hosts[r]
        BY <2>1 DEF LookupInv
    <2>4. p.name = lookup[r].name /\ p.namespace = lookup[r].namespace
        BY DEF Nodes!Pod
    <2> HIDE DEF p
    <2>5. new.pc = "done" /\ new.answer = p /\ new.namespace = lookup[r].namespace
        BY DEF LookupInv
    <2> HIDE DEF new
    <2>6. QED BY <2>1, <2>2, <2>3, <2>4, <2>5, LookupGoes, LookupEnds
<1>10. ASSUME NEW r \in Reader, Nodes!LookupFails(r) \/ Nodes!StreamEnds(r)
       PROVE  LookupInv'
    <2>1. UNCHANGED <<vnode, hosts>> /\ lookup' = [lookup EXCEPT ![r] = Nodes!Idle]
        BY <1>10 DEF Nodes!LookupFails, Nodes!StreamEnds
    <2>2. QED BY <2>1, LookupEnds
<1>11. QED
    BY <1>1, <1>a, <1>2, <1>3, <1>4, <1>5, <1>6, <1>7, <1>8, <1>9, <1>10
    DEF Nodes!Next, Nodes!Remove

(* A log request is answered with a pod that has the name of a base pod of *)
(* the node since the request read the pod, and that is this base pod when *)
(* it is of the namespace of the request, whatever heartbeats, removals of *)
(* the node, crashes of the base and pods of the same name elsewhere come  *)
(* between its reads.                                                      *)
THEOREM LogsComeFromOwnBase == PartsSpec => []LogsOfOwnBase
<1>1. PartsInit => LookupInv
    BY LookupInit DEF PartsInit
<1>2. LookupInv /\ [PartsNext]_<<part, vars, nodeVars>> => LookupInv'
    <2> SUFFICES ASSUME LookupInv, [PartsNext]_<<part, vars, nodeVars>>
                 PROVE  LookupInv'
        OBVIOUS
    <2>1. CASE Nodes!Next
        BY <2>1, LookupStep
    <2>2. CASE UNCHANGED nodeVars
        BY <2>2, LookupUntouched DEF nodeVars, Nodes!BaseHost
    <2>3. QED BY <2>1, <2>2 DEF PartsNext
<1>3. LookupInv => LogsOfOwnBase
    BY DEF LookupInv, LogsOfOwnBase, Nodes!LogsOfOwnBase
<1>4. QED
    BY <1>1, <1>2, <1>3, PTL DEF PartsSpec
=============================================================================
