------------------------------- MODULE Driver -------------------------------
(***************************************************************************)
(* The life of the plugin process: main, Run (pkg/driver/driver.go), the   *)
(* gRPC server (pkg/csi-common/server.go) and the requests it dispatches.  *)
(*                                                                         *)
(* Run builds the services the command line asks for, starts the goroutine *)
(* that listens and serves, and waits.  Whatever goes wrong ends the       *)
(* process (klog.Fatal, or a panic: gRPC does not recover one), kubelet    *)
(* starts it again with the same command line, and the next process finds  *)
(* what the last one left on disk: the file of its unix socket.            *)
(*                                                                         *)
(* Run hands typed pointers to Start, so that serve's tests `cs != nil' and *)
(* `ns != nil' are always true: a service that was not asked for is        *)
(* registered with a nil receiver.                                         *)
(***************************************************************************)
EXTENDS Naturals

CONSTANTS
    None,           \* no answer, no service, no network
    MaxFaults       \* bound: kills, gateway outages, failing system calls

ASSUME DriverConstants ==
    /\ None \notin {"identity", "controller", "node"} \cup {"unix", "UNIX", "tcp"}
    /\ MaxFaults \in Nat

Services == {"identity", "controller", "node"}

\* The command line.  identified: drivername and nodeid are not empty.
\* endpoint: "UNIX" is the scheme in capitals, "invalid" another scheme or an
\* empty address.  nilOK is no flag but how the binary is built: does the
\* generated code that registers a service accept a nil receiver?
Config ==
    [identified : BOOLEAN, controller : BOOLEAN, node : BOOLEAN, nilOK : BOOLEAN,
     endpoint : {"unix", "tcp", "UNIX", "invalid"}]

controllerCaps ==
    {"CREATE_DELETE_VOLUME", "CREATE_DELETE_SNAPSHOT", "PUBLISH_UNPUBLISH_VOLUME"}
volumeModes == {"SINGLE_NODE_WRITER"}
Modes == volumeModes \cup {"MULTI_NODE_MULTI_WRITER"}

\* Requests, each standing for those that are treated alike: a controller or
\* node method the driver does not have, and one that works on volumes.
Method ==
    [service : {"identity"}, name : {"GetPluginInfo", "Probe", "GetPluginCapabilities"}]
    \cup [service : {"controller"},
          name : {"ControllerGetCapabilities", "ControllerUnpublishVolume",
                  "volume", "unimplemented"}]
    \cup [service : {"controller"}, name : {"ValidateVolumeCapabilities"},
          modes : SUBSET Modes \ {{}}]
    \cup [service : {"node"},
          name : {"NodeGetInfo", "NodeGetCapabilities", "volume", "unimplemented"}]

\* Methods that do not look at their receiver.
Receiverless == {"GetPluginCapabilities", "ControllerUnpublishVolume", "NodeGetCapabilities"}

\* An answer: the capabilities it lists, or what it says.
Result == SUBSET (controllerCaps \cup {"ok", "unavailable", "unimplemented", "unconfirmed"})

VARIABLES
    conf,       \* command line and build
    main,       \* what Run does next
    loop,       \* what serve, the goroutine of Start, does next
    cap, vc,    \* CSIDriver's capabilities and access modes
    built,      \* services whose server object has been made
    socket,     \* the file of a unix endpoint
    gateway,    \* can the gateway be reached?
    reply,      \* the last request and its answer
    ended,      \* how the last process ended
    faults

process == <<main, loop, cap, vc, built, reply>>
vars == <<conf, process, socket, gateway, ended, faults>>

TypeOK ==
    /\ conf \in Config
    /\ main \in {"down", "new", "node", "controller", "start", "wait"}
    /\ loop \in {"none", "parse", "remove", "listen", "register", "serving"}
    /\ cap \subseteq controllerCaps
    /\ vc \subseteq volumeModes
    /\ built \subseteq Services
    /\ socket \in {"none", "stale", "live"}
    /\ gateway \in BOOLEAN
    /\ reply \in [method : Method, result : Result] \cup {None}
    /\ ended \in [cause : {"none", "fatal", "kill", "panic"}, calling : Services \cup {None}]
    /\ faults \in 0 .. MaxFaults

Init ==
    /\ conf \in Config
    /\ main = "down" /\ loop = "none"
    /\ cap = {} /\ vc = {} /\ built = {} /\ reply = None
    /\ socket = "none"
    /\ gateway \in BOOLEAN
    /\ ended = [cause |-> "none", calling |-> None]
    /\ faults = 0

Asked == {s \in Services : s = "identity" \/ (s = "controller" /\ conf.controller)
                                          \/ (s = "node" /\ conf.node)}

Fault == faults < MaxFaults /\ faults' = faults + 1

\* The process is gone, with its goroutines.  The file of its socket stays.
Exit(why, s) ==
    /\ main' = "down" /\ loop' = "none"
    /\ cap' = {} /\ vc' = {} /\ built' = {} /\ reply' = None
    /\ socket' = IF socket = "live" THEN "stale" ELSE socket
    /\ ended' = [cause |-> why, calling |-> s]
    /\ UNCHANGED <<conf, gateway>>

Fatal == Exit("fatal", None) /\ UNCHANGED faults

\* kubelet starts the container (again).
Restart ==
    /\ main = "down"
    /\ main' = "new"
    /\ UNCHANGED <<conf, loop, cap, vc, built, reply, socket, gateway, ended, faults>>

-----------------------------------------------------------------------------
(* Run.                                                                    *)

\* NewCSIDriver returns no driver when a name is missing.
NewCSIDriver(c) == c.identified

AddControllerServiceCapabilities(cl) == cap' = cl
AddVolumeCapabilityAccessModes(modes) == vc' = modes

\* Bug: the capabilities are added for the node service.
NewDriverSwapped ==
    /\ main = "new"
    /\ IF NewCSIDriver(conf)
       THEN /\ AddControllerServiceCapabilities(IF conf.node THEN controllerCaps ELSE {})
            /\ AddVolumeCapabilityAccessModes(IF conf.node THEN volumeModes ELSE {})
            /\ built' = {"identity"}
            /\ main' = "node"
            /\ UNCHANGED <<conf, loop, reply, socket, gateway, ended, faults>>
       ELSE Fatal

\* Run up to newIdentityServer.
NewDriver ==
    /\ main = "new"
    /\ IF NewCSIDriver(conf)
       THEN /\ AddControllerServiceCapabilities(
                   IF conf.controller THEN controllerCaps ELSE {})
            /\ AddVolumeCapabilityAccessModes(
                   IF conf.controller THEN volumeModes ELSE {})
            /\ built' = {"identity"}
            /\ main' = "node"
            /\ UNCHANGED <<conf, loop, reply, socket, gateway, ended, faults>>
       ELSE Fatal

NewNodeServer ==
    /\ main = "node"
    /\ built' = IF conf.node THEN built \cup {"node"} ELSE built
    /\ main' = "controller"
    /\ UNCHANGED <<conf, loop, cap, vc, reply, socket, gateway, ended, faults>>

\* Bug: the server is started before the connection to the gateway is there.
StartBeforeDial ==
    /\ main = "controller"
    /\ IF conf.controller /\ ~gateway
       THEN loop = "none" /\ loop' = "parse" /\ UNCHANGED <<main, built>>
       ELSE /\ built' = IF conf.controller THEN built \cup {"controller"} ELSE built
            /\ main' = "start"
            /\ UNCHANGED loop
    /\ UNCHANGED <<conf, cap, vc, reply, socket, gateway, ended, faults>>

\* newControllerServer blocks until the gateway answers, for 5 seconds.
NewControllerServer ==
    /\ main = "controller"
    /\ IF conf.controller /\ ~gateway
       THEN Fatal
       ELSE /\ built' = IF conf.controller THEN built \cup {"controller"} ELSE built
            /\ main' = "start"
            /\ UNCHANGED <<conf, loop, cap, vc, reply, socket, gateway, ended, faults>>

\* Start; then Wait, for ever: nobody calls Done on its WaitGroup.
Start ==
    /\ main = "start"
    /\ loop' = "parse"
    /\ main' = "wait"
    /\ UNCHANGED <<conf, cap, vc, built, reply, socket, gateway, ended, faults>>

-----------------------------------------------------------------------------
(* serve.                                                                  *)

\* The network parseEndpoint returns: it ignores the case of the scheme to
\* test it and returns it as it is written.
parseEndpoint(ep) == IF ep \in {"unix", "UNIX", "tcp"} THEN ep ELSE None

Parse ==
    /\ loop = "parse"
    /\ LET proto == parseEndpoint(conf.endpoint) IN
       IF proto = None THEN Fatal
       ELSE /\ loop' = IF proto = "unix" THEN "remove" ELSE "listen"
            /\ UNCHANGED <<conf, main, cap, vc, built, reply, socket, gateway, ended, faults>>

\* Bug: the old socket is not removed.
KeepSocket ==
    /\ loop = "remove"
    /\ loop' = "listen"
    /\ UNCHANGED <<conf, main, cap, vc, built, reply, socket, gateway, ended, faults>>

RemoveSocket ==
    /\ loop = "remove"
    /\ socket' = "none"
    /\ loop' = "listen"
    /\ UNCHANGED <<conf, main, cap, vc, built, reply, gateway, ended, faults>>

\* net.Listen knows the networks "unix" and "tcp", and makes no unix socket
\* where a file is.
Listen ==
    /\ loop = "listen"
    /\ LET proto == parseEndpoint(conf.endpoint) IN
       IF proto = "tcp" \/ (proto = "unix" /\ socket = "none")
       THEN /\ socket' = IF proto = "unix" THEN "live" ELSE socket
            /\ loop' = "register"
            /\ UNCHANGED <<conf, main, cap, vc, built, reply, gateway, ended, faults>>
       ELSE Fatal

\* All three services are registered, whatever was asked for.
Register ==
    /\ loop = "register"
    /\ IF conf.nilOK \/ built = Services
       THEN /\ loop' = "serving"
            /\ UNCHANGED <<conf, main, cap, vc, built, reply, socket, gateway, ended, faults>>
       ELSE /\ \E s \in Services \ built : Exit("panic", s)
            /\ UNCHANGED faults

\* os.Remove, net.Listen or the accept loop of Serve fails.
ServeFails ==
    /\ loop \in {"remove", "listen", "serving"}
    /\ Fault
    /\ Exit("fatal", None)

-----------------------------------------------------------------------------
(* Requests.                                                               *)

GetPluginInfo == {IF conf.identified THEN "ok" ELSE "unavailable"}
ControllerGetCapabilities == cap
ValidateVolumeCapabilities(m) == {IF m.modes \subseteq vc THEN "ok" ELSE "unconfirmed"}

Handler(m) ==
    CASE m.name = "GetPluginInfo"              -> GetPluginInfo
      [] m.name = "ControllerGetCapabilities"  -> ControllerGetCapabilities
      [] m.name = "ValidateVolumeCapabilities" -> ValidateVolumeCapabilities(m)
      [] m.name = "unimplemented"              -> {"unimplemented"}
      [] OTHER                                 -> {"ok"}

\* The interceptor calls the handler and returns what it returns.
logGRPC(m) == reply' = [method |-> m, result |-> Handler(m)]

Request(m) ==
    /\ loop = "serving"
    /\ IF m.service \in built \/ m.name \in Receiverless
       THEN /\ logGRPC(m)
            /\ UNCHANGED <<conf, main, loop, cap, vc, built, socket, gateway, ended, faults>>
       ELSE Exit("panic", m.service) /\ UNCHANGED faults

-----------------------------------------------------------------------------

Kill ==
    /\ main # "down"
    /\ Fault
    /\ Exit("kill", None)

GatewayDown ==
    /\ gateway /\ gateway' = FALSE
    /\ Fault
    /\ UNCHANGED <<conf, process, socket, ended>>

GatewayUp ==
    /\ ~gateway /\ gateway' = TRUE
    /\ UNCHANGED <<conf, process, socket, ended, faults>>

Run == NewDriver \/ NewNodeServer \/ NewControllerServer \/ Start
Serve == Parse \/ RemoveSocket \/ Listen \/ Register

Next ==
    \/ Restart \/ Run \/ Serve \/ ServeFails
    \/ \E m \in Method : Request(m)
    \/ Kill \/ GatewayDown \/ GatewayUp

Spec == Init /\ [][Next]_vars

\* The goroutines of a live process run, and kubelet restarts a dead one.
\* Nothing is assumed of requests and of the gateway.
FairSpec == Spec /\ WF_vars(Restart) /\ WF_vars(Run) /\ WF_vars(Serve)

-----------------------------------------------------------------------------
(* Correctness.                                                            *)

\* A command line with which the driver can work.
Valid(c) ==
    /\ c.identified
    /\ c.endpoint \in {"unix", "tcp"}
    /\ c.nilOK \/ (c.controller /\ c.node)

\* Whenever and however the process ends, it comes to serve requests again:
\* neither the socket file of its predecessor nor a gateway that was away
\* when it started keeps it from that.  The gateway is needed by the processes
\* only that run the controller service.
ServesAgain ==
    Valid(conf) /\ (conf.controller => <>[]gateway) => []<>(loop = "serving")

\* A request for a service the command line asks for never meets a server
\* object that is not built yet: only requests for another service end the
\* process with a panic.
PanicsOnlyUnasked == ended.cause = "panic" => ended.calling \notin Asked

\* Since Run completes the driver object before it lets the server start, no
\* client is ever told less than the driver can do: the sidecars ask once and
\* remember the answer.
AnswersComplete ==
    reply # None =>
        /\ reply.method.name = "ControllerGetCapabilities" => reply.result = controllerCaps
        /\ reply.method.name = "ValidateVolumeCapabilities" =>
              (reply.result = {"ok"} <=> reply.method.modes \subseteq volumeModes)
        /\ reply.method.name = "GetPluginInfo" => reply.result # {"unavailable"}

-----------------------------------------------------------------------------
(* The inductive invariant.                                                *)

\* What Run has made when it gets to a point.
Progress ==
    /\ main \in {"down", "new"} => built = {}
    /\ main \notin {"down", "new"} =>
          /\ conf.identified
          /\ built \subseteq Asked /\ "identity" \in built
          /\ conf.controller => cap = controllerCaps /\ vc = volumeModes
    /\ main \in {"controller", "start", "wait"} /\ conf.node => "node" \in built
    /\ main \in {"start", "wait"} /\ conf.controller => "controller" \in built
    /\ loop # "none" => main = "wait"
    /\ reply # None => loop = "serving"

\* There is a socket that clients can connect to only while serve runs.
SocketOwned == socket = "live" => loop \in {"register", "serving"}

IInv == TypeOK /\ Progress /\ SocketOwned /\ PanicsOnlyUnasked /\ AnswersComplete
=============================================================================
