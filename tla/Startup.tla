-------------------------------- MODULE Startup -------------------------------
(***************************************************************************)
(* The start and the end of the controller process: main and startTunnels  *)
(* (src/cmd/module-controller/main.go), Start of the two tunnels and       *)
(* StartKubeletProxy (src/staging/kubelet_proxy/proxy.go).                 *)
(*                                                                         *)
(* main runs its steps in order; servers run in goroutines of their own,   *)
(* which a signal ends through the context.  A step that fails ends the    *)
(* process, by a return, an exit, a fatal log or a panic, all of which are *)
(* "dead" here.  Two handlers of signals exist: that of main, from its     *)
(* first lines on, cancels the context; that of the manager, from          *)
(* manager.Start on, stops the manager.                                    *)
(***************************************************************************)
CONSTANTS
    Beat                \* heartbeats over HTTP

VARIABLES
    config,         \* what the environment variables enable
    pc,             \* the next step of main
    started,        \* the tunnels whose Start returned nil
    failed,         \* the tunnels whose Start returned an error
    tunnel,         \* the tunnel that has the callbacks
    mqtt,           \* the MQTT client
    discovery,      \* the discovery server of the HTTP tunnel
    proxy,          \* the server for logs
    cache,          \* has the manager started the caches
    signal,         \* signals: to nobody yet, to main, to both
    cancelled,      \* is the context of main cancelled
    beat,           \* how far each heartbeat over HTTP has come
    told            \* history: heartbeats told to the vnode controller

vars == <<config, pc, started, failed, tunnel, mqtt, discovery, proxy, cache,
          signal, cancelled, beat, told>>

Tunnel == {"mqtt", "http"}
Config == [tunnels : SUBSET Tunnel, proxy : BOOLEAN]
Server == {"off", "starting", "listening", "failed", "closed"}

Init ==
    /\ config \in Config
    /\ pc = "manager.New"
    /\ started = {}
    /\ failed = {}
    /\ tunnel = {}
    /\ mqtt = "off"
    /\ discovery = "off"
    /\ proxy = "off"
    /\ cache = FALSE
    /\ signal = "none"
    /\ cancelled = FALSE
    /\ beat = [h \in Beat |-> "none"]
    /\ told = {}

Alive == pc # "dead"

(* A dead process has no servers.                                          *)
Die ==
    /\ pc' = "dead"
    /\ mqtt' = "off" /\ discovery' = "off" /\ proxy' = "off" /\ cache' = FALSE

Servers == <<mqtt, discovery, proxy, cache>>

-----------------------------------------------------------------------------
(* The steps of main.                                                      *)

(* A step that succeeds, or ends the process with an error.                *)
Step(from, to, mayFail) ==
    /\ pc = from
    /\ \/ pc' = to /\ UNCHANGED Servers
       \/ mayFail /\ Die
    /\ UNCHANGED <<config, started, failed, tunnel, signal, cancelled, beat, told>>

(* The manager, the address of the proxy's service (exactly one service    *)
(* with a cluster IP, or the process ends) and the deployment controller.  *)
NewManager == Step("manager.New", "lookupProxyServiceIP", TRUE)
LookupProxyServiceIP == Step("lookupProxyServiceIP", "setupDeployments", config.proxy)
SetupDeployments == Step("setupDeployments", "startMqtt", TRUE)

(* MqttTunnel.Start: waits for the broker; a failure of NewMqttClient is   *)
(* overwritten, and the missing client panics.                             *)
StartMqtt ==
    /\ pc = "startMqtt"
    /\ \/ /\ "mqtt" \notin config.tunnels
          /\ pc' = "startHttp"
          /\ UNCHANGED <<started, failed, Servers>>
       \/ /\ "mqtt" \in config.tunnels
          /\ pc' = "startHttp"
          /\ \/ started' = started \cup {"mqtt"} /\ mqtt' = "listening" /\ UNCHANGED failed
             \/ failed' = failed \cup {"mqtt"} /\ UNCHANGED <<started, mqtt>>
          /\ UNCHANGED <<discovery, proxy, cache>>
       \/ /\ "mqtt" \in config.tunnels
          /\ Die
          /\ UNCHANGED <<started, failed>>
    /\ UNCHANGED <<config, tunnel, signal, cancelled, beat, told>>

(* HttpTunnel.Start: starts the discovery server and does not wait for it. *)
StartHttp ==
    /\ pc = "startHttp"
    /\ pc' = "chooseTunnel"
    /\ IF "http" \in config.tunnels
       THEN started' = started \cup {"http"} /\ discovery' = "starting"
       ELSE UNCHANGED <<started, discovery>>
    /\ UNCHANGED <<config, failed, tunnel, mqtt, proxy, cache, signal, cancelled,
                   beat, told>>

(* Faulty variant: one tunnel that started is enough.                      *)
ChooseAnyTunnel ==
    /\ pc = "chooseTunnel"
    /\ IF started = {}
       THEN Die /\ UNCHANGED tunnel
       ELSE /\ tunnel' = {IF "mqtt" \in started THEN "mqtt" ELSE "http"}
            /\ pc' = "setupVNodes"
            /\ UNCHANGED Servers
    /\ UNCHANGED <<config, started, failed, signal, cancelled, beat, told>>

(* The end of startTunnels: a panic if a tunnel failed or there is none;   *)
(* otherwise the first gets the callbacks (NewVNodeController).            *)
ChooseTunnel ==
    /\ pc = "chooseTunnel"
    /\ IF failed # {} \/ started = {}
       THEN Die /\ UNCHANGED tunnel
       ELSE /\ tunnel' = {IF "mqtt" \in started THEN "mqtt" ELSE "http"}
            /\ pc' = "setupVNodes"
            /\ UNCHANGED Servers
    /\ UNCHANGED <<config, started, failed, signal, cancelled, beat, told>>

SetupVNodes == Step("setupVNodes", "startProxy", TRUE)

(* StartKubeletProxy: unreadable certificates end the process.             *)
StartProxy ==
    /\ pc = "startProxy"
    /\ \/ /\ pc' = "manager.Start"
          /\ proxy' = IF config.proxy THEN "starting" ELSE proxy
          /\ UNCHANGED <<mqtt, discovery, cache>>
       \/ config.proxy /\ Die
    /\ UNCHANGED <<config, started, failed, tunnel, signal, cancelled, beat, told>>

(* manager.Start, from here on with a signal handler of its own.           *)
StartManager ==
    /\ pc = "manager.Start"
    /\ pc' = "running"
    /\ cache' = TRUE
    /\ UNCHANGED <<config, started, failed, tunnel, mqtt, discovery, proxy,
                   signal, cancelled, beat, told>>

(* manager.Start returns after a signal it heard, or with an error.        *)
ManagerStops ==
    /\ pc = "running"
    /\ Die
    /\ UNCHANGED <<config, started, failed, tunnel, signal, cancelled, beat, told>>

ManagerHearsSignal == signal = "both" /\ ManagerStops

-----------------------------------------------------------------------------
(* Goroutines.                                                             *)

(* ListenAndServe of the discovery server: an error is logged, no more.    *)
DiscoveryListens ==
    /\ discovery = "starting"
    /\ discovery' \in {"listening", "failed"}
    /\ UNCHANGED <<config, pc, started, failed, tunnel, mqtt, proxy, cache,
                   signal, cancelled, beat, told>>

(* Faulty variant: the error is logged, no more.                           *)
ProxyListensOrNot ==
    /\ proxy = "starting"
    /\ proxy' \in {"listening", "failed"}
    /\ UNCHANGED <<config, pc, started, failed, tunnel, mqtt, discovery, cache,
                   signal, cancelled, beat, told>>

(* ListenAndServeTLS of the proxy: an error ends the process.              *)
ProxyListens ==
    /\ proxy = "starting"
    /\ \/ proxy' = "listening" /\ UNCHANGED <<pc, mqtt, discovery, cache>>
       \/ Die
    /\ UNCHANGED <<config, started, failed, tunnel, signal, cancelled, beat, told>>

(* The first signal, to those who listen for signals by then.              *)
Signal ==
    /\ Alive
    /\ signal = "none"
    /\ signal' = IF pc = "running" THEN "both" ELSE "main"
    /\ UNCHANGED <<config, pc, started, failed, tunnel, Servers, cancelled,
                   beat, told>>

Cancel ==
    /\ Alive
    /\ signal # "none" /\ ~cancelled
    /\ cancelled' = TRUE
    /\ UNCHANGED <<config, pc, started, failed, tunnel, Servers, signal, beat, told>>

(* Faulty variant: nobody shuts the proxy down.                            *)
ShutdownButProxy ==
    /\ cancelled
    /\ Alive
    /\ \/ mqtt = "listening" /\ mqtt' = "closed" /\ UNCHANGED discovery
       \/ /\ discovery \in {"starting", "listening", "failed"}
          /\ discovery' = "closed"
          /\ UNCHANGED mqtt
    /\ UNCHANGED <<config, pc, started, failed, tunnel, proxy, cache, signal,
                   cancelled, beat, told>>

(* The goroutines that wait for the end of the context: Disconnect and     *)
(* Shutdown, after which a server that has yet to listen never does.       *)
Shutdown ==
    /\ cancelled
    /\ Alive
    /\ \/ mqtt = "listening" /\ mqtt' = "closed" /\ UNCHANGED <<discovery, proxy>>
       \/ /\ discovery \in {"starting", "listening", "failed"}
          /\ discovery' = "closed"
          /\ UNCHANGED <<mqtt, proxy>>
       \/ /\ proxy \in {"starting", "listening"}
          /\ proxy' = "closed"
          /\ UNCHANGED <<mqtt, discovery>>
    /\ UNCHANGED <<config, pc, started, failed, tunnel, cache, signal, cancelled,
                   beat, told>>

(* /heartbeat stores the status of the base, ...                           *)
HttpHeartbeat(h) ==
    /\ discovery = "listening"
    /\ beat[h] = "none"
    /\ beat' = [beat EXCEPT ![h] = "stored"]
    /\ UNCHANGED <<config, pc, started, failed, tunnel, Servers, signal, cancelled, told>>

(* Faulty variant: without callbacks the heartbeat is skipped.             *)
TellHeartbeatUnlessNil(h) ==
    /\ Alive
    /\ beat[h] = "stored"
    /\ beat' = [beat EXCEPT ![h] = "called"]
    /\ told' = IF tunnel = {"http"} THEN told \cup {h} ELSE told
    /\ UNCHANGED <<config, pc, started, failed, tunnel, Servers, signal, cancelled>>

(* ... calls onBaseDiscovered, which the tunnel in use has some time after *)
(* it was chosen and the other never: the call of a nil function panics,   *)
(* which the server turns into a broken connection, ...                    *)
TellHeartbeat(h) ==
    /\ Alive
    /\ beat[h] = "stored"
    /\ \/ beat' = [beat EXCEPT ![h] = "broken"] /\ UNCHANGED told
       \/ /\ tunnel = {"http"}
          /\ beat' = [beat EXCEPT ![h] = "called"]
          /\ told' = told \cup {h}
    /\ UNCHANGED <<config, pc, started, failed, tunnel, Servers, signal, cancelled>>

(* ... and answers.  Shutdown leaves those under way some time for it.     *)
AnswerHeartbeat(h) ==
    /\ Alive
    /\ beat[h] = "called"
    /\ beat' = [beat EXCEPT ![h] = "acknowledged"]
    /\ UNCHANGED <<config, pc, started, failed, tunnel, Servers, signal, cancelled, told>>

Main ==
    \/ NewManager \/ LookupProxyServiceIP \/ SetupDeployments
    \/ StartMqtt \/ StartHttp \/ ChooseTunnel
    \/ SetupVNodes \/ StartProxy \/ StartManager

Next ==
    \/ Main \/ ManagerStops
    \/ DiscoveryListens \/ ProxyListens \/ Shutdown
    \/ \E h \in Beat : HttpHeartbeat(h) \/ TellHeartbeat(h) \/ AnswerHeartbeat(h)
    \/ Signal \/ Cancel

Spec == Init /\ [][Next]_vars

(* Goroutines run, and the manager heeds its signal.                       *)
Fairness ==
    /\ WF_vars(Main) /\ WF_vars(Cancel) /\ WF_vars(Shutdown)
    /\ WF_vars(DiscoveryListens) /\ WF_vars(ProxyListens)
    /\ WF_vars(ManagerHearsSignal)

FairSpec == Spec /\ Fairness

-----------------------------------------------------------------------------
(* Every variable stays in its domain.                                     *)
TypeOK ==
    /\ config \in Config
    /\ pc \in {"manager.New", "lookupProxyServiceIP", "setupDeployments",
               "startMqtt", "startHttp", "chooseTunnel", "setupVNodes",
               "startProxy", "manager.Start", "running", "dead"}
    /\ started \in SUBSET Tunnel
    /\ failed \in SUBSET Tunnel
    /\ tunnel \in SUBSET Tunnel
    /\ mqtt \in Server /\ discovery \in Server /\ proxy \in Server
    /\ cache \in BOOLEAN /\ cancelled \in BOOLEAN
    /\ signal \in {"none", "main", "both"}
    /\ beat \in [Beat -> {"none", "stored", "called", "acknowledged", "broken"}]
    /\ told \subseteq Beat

(* The manager runs only when every enabled tunnel has started and the     *)
(* callbacks are with one of them: a tunnel that fails, or none enabled,   *)
(* ends the process instead of leaving bases unheard.                      *)
RunsWithItsTunnels ==
    pc = "running" =>
        /\ started = config.tunnels
        /\ tunnel # {} /\ tunnel \subseteq started

(* A base whose heartbeat was answered with success over HTTP is heard:    *)
(* the heartbeat was told to the vnode controller before, and there is no  *)
(* MQTT tunnel beside, which the controller would use for the commands to  *)
(* that base, not even one that failed to start.                           *)
AcknowledgedMeansTold ==
    \A h \in Beat : beat[h] = "acknowledged" => h \in told /\ config.tunnels = {"http"}

(* The process does not go on with a proxy that cannot listen: it listens  *)
(* in the end, or the process ends or is told to.                          *)
ProxyServesOrDies ==
    (pc = "running" /\ config.proxy) ~> (proxy = "listening" \/ cancelled \/ ~Alive)

(* Once the context is cancelled, whenever in the start that is, no server *)
(* stays open and the MQTT client is disconnected.                         *)
ContextClosesServers ==
    [](cancelled => <>[]("listening" \notin {mqtt, discovery, proxy}))
=============================================================================
