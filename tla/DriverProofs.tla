---------------------------- MODULE DriverProofs ----------------------------
(***************************************************************************)
(* Proofs about Driver: for every command line and any number of faults,   *)
(* clients meet complete services only.                                    *)
(***************************************************************************)
EXTENDS Driver, TLAPS

USE DriverConstants

LEMMA InitInv == Init => IInv
BY DEF Init, IInv, TypeOK, Progress, SocketOwned, PanicsOnlyUnasked, AnswersComplete,
       Config, Services, Asked

\* The end of a process leaves nothing to go wrong, if its cause may be.
LEMMA ExitInv ==
    ASSUME IInv, NEW why \in {"fatal", "kill", "panic"}, NEW s \in Services \cup {None},
           why = "panic" => s \notin Asked,
           faults' \in 0 .. MaxFaults, Exit(why, s)
    PROVE  IInv'
<1>1. TypeOK'
  BY DEF Exit, IInv, TypeOK
<1>2. Asked' = Asked
  BY DEF Exit, Asked
<1>3. PanicsOnlyUnasked'
  BY <1>2 DEF Exit, PanicsOnlyUnasked
<1>4. Progress' /\ SocketOwned' /\ AnswersComplete'
  BY DEF Exit, Progress, SocketOwned, AnswersComplete, IInv, TypeOK
<1> QED
  BY <1>1, <1>3, <1>4 DEF IInv

LEMMA FatalInv == ASSUME IInv, Fatal PROVE IInv'
BY ExitInv DEF Fatal, IInv, TypeOK

\* A step that changes neither the command line nor the last end.
LEMMA Unended ==
    ASSUME IInv, UNCHANGED <<conf, ended>> PROVE PanicsOnlyUnasked' /\ Asked' = Asked
BY DEF IInv, PanicsOnlyUnasked, Asked

LEMMA RestartInv == ASSUME IInv, Restart PROVE IInv'
<1>1. TypeOK' /\ Progress' /\ SocketOwned' /\ AnswersComplete'
  BY DEF Restart, IInv, TypeOK, Progress, SocketOwned, AnswersComplete
<1> QED
  BY <1>1, Unended DEF Restart, IInv

LEMMA NewDriverInv == ASSUME IInv, NewDriver PROVE IInv'
<1>1. CASE ~NewCSIDriver(conf)
  BY <1>1, FatalInv DEF NewDriver
<1>2. CASE NewCSIDriver(conf)
  <2> USE <1>2 DEF NewDriver, NewCSIDriver, AddControllerServiceCapabilities,
                   AddVolumeCapabilityAccessModes
  <2>1. TypeOK'
    BY DEF IInv, TypeOK, Services
  <2>2. Progress'
    BY Unended DEF IInv, Progress, Asked, Services
  <2>3. SocketOwned' /\ AnswersComplete'
    BY DEF IInv, SocketOwned, AnswersComplete
  <2> QED
    BY <2>1, <2>2, <2>3, Unended DEF IInv
<1> QED
  BY <1>1, <1>2

LEMMA NewNodeServerInv == ASSUME IInv, NewNodeServer PROVE IInv'
<1>1. TypeOK'
  BY DEF NewNodeServer, IInv, TypeOK, Services
<1>2. Progress'
  BY Unended DEF NewNodeServer, IInv, Progress, Asked, Services
<1>3. SocketOwned' /\ AnswersComplete'
  BY DEF NewNodeServer, IInv, SocketOwned, AnswersComplete
<1> QED
  BY <1>1, <1>2, <1>3, Unended DEF NewNodeServer, IInv

LEMMA NewControllerServerInv == ASSUME IInv, NewControllerServer PROVE IInv'
<1>1. CASE conf.controller /\ ~gateway
  BY <1>1, FatalInv DEF NewControllerServer
<1>2. CASE ~(conf.controller /\ ~gateway)
  <2> USE <1>2 DEF NewControllerServer
  <2>1. TypeOK'
    BY DEF IInv, TypeOK, Services
  <2>2. Progress'
    BY Unended DEF IInv, Progress, Asked, Services
  <2>3. SocketOwned' /\ AnswersComplete'
    BY DEF IInv, SocketOwned, AnswersComplete
  <2> QED
    BY <2>1, <2>2, <2>3, Unended DEF IInv
<1> QED
  BY <1>1, <1>2

LEMMA StartInv == ASSUME IInv, Start PROVE IInv'
<1>1. TypeOK' /\ Progress' /\ SocketOwned' /\ AnswersComplete'
  BY Unended DEF Start, IInv, TypeOK, Progress, SocketOwned, AnswersComplete
<1> QED
  BY <1>1, Unended DEF Start, IInv

LEMMA ParseInv == ASSUME IInv, Parse PROVE IInv'
<1>1. CASE parseEndpoint(conf.endpoint) = None
  BY <1>1, FatalInv DEF Parse
<1>2. CASE parseEndpoint(conf.endpoint) # None
  <2>1. TypeOK' /\ Progress' /\ SocketOwned' /\ AnswersComplete'
    BY <1>2, Unended DEF Parse, IInv, TypeOK, Progress, SocketOwned, AnswersComplete
  <2> QED
    BY <1>2, <2>1, Unended DEF Parse, IInv
<1> QED
  BY <1>1, <1>2

LEMMA RemoveSocketInv == ASSUME IInv, RemoveSocket PROVE IInv'
<1>1. TypeOK' /\ Progress' /\ SocketOwned' /\ AnswersComplete'
  BY Unended DEF RemoveSocket, IInv, TypeOK, Progress, SocketOwned, AnswersComplete
<1> QED
  BY <1>1, Unended DEF RemoveSocket, IInv

LEMMA ListenInv == ASSUME IInv, Listen PROVE IInv'
<1> DEFINE ok == \/ parseEndpoint(conf.endpoint) = "tcp"
                 \/ parseEndpoint(conf.endpoint) = "unix" /\ socket = "none"
<1>1. CASE ~ok
  BY <1>1, FatalInv DEF Listen
<1>2. CASE ok
  <2>1. /\ loop = "listen" /\ loop' = "register"
        /\ socket' \in {socket, "live"}
        /\ UNCHANGED <<conf, main, cap, vc, built, reply, gateway, ended, faults>>
    BY <1>2 DEF Listen
  <2> HIDE DEF ok
  <2>2. TypeOK' /\ Progress' /\ SocketOwned' /\ AnswersComplete'
    BY <2>1, Unended DEF IInv, TypeOK, Progress, SocketOwned, AnswersComplete
  <2> QED
    BY <2>1, <2>2, Unended DEF IInv
<1> QED
  BY <1>1, <1>2

LEMMA RegisterInv == ASSUME IInv, Register PROVE IInv'
<1>1. CASE conf.nilOK \/ built = Services
  <2>1. TypeOK' /\ Progress' /\ SocketOwned' /\ AnswersComplete'
    BY <1>1, Unended DEF Register, IInv, TypeOK, Progress, SocketOwned, AnswersComplete
  <2> QED
    BY <1>1, <2>1, Unended DEF Register, IInv
<1>2. CASE ~(conf.nilOK \/ built = Services)
  <2>1. PICK s \in Services \ built : Exit("panic", s) /\ UNCHANGED faults
    BY <1>2 DEF Register
  <2>2. s \notin Asked
    BY DEF Register, IInv, Progress, Asked, Services
  <2> QED
    BY <2>1, <2>2, ExitInv DEF IInv, TypeOK
<1> QED
  BY <1>1, <1>2

\* Every service that was asked for is built when requests are served.
LEMMA ServingIsBuilt == ASSUME IInv, loop = "serving" PROVE Asked \subseteq built
BY DEF IInv, Progress, Asked, Services

LEMMA HandlerType ==
    ASSUME IInv, NEW m \in Method PROVE Handler(m) \in Result
BY DEF IInv, TypeOK, Handler, Result, GetPluginInfo, ControllerGetCapabilities,
       ValidateVolumeCapabilities, controllerCaps

LEMMA RequestInv == ASSUME IInv, NEW m \in Method, Request(m) PROVE IInv'
<1>1. CASE m.service \in built \/ m.name \in Receiverless
  <2>1. /\ loop = "serving"
        /\ reply' = [method |-> m, result |-> Handler(m)]
        /\ UNCHANGED <<conf, main, loop, cap, vc, built, socket, gateway, ended, faults>>
    BY <1>1 DEF Request, logGRPC
  <2>2. TypeOK'
    BY <2>1, HandlerType DEF IInv, TypeOK
  <2>3. Progress' /\ SocketOwned'
    BY <2>1, Unended DEF IInv, Progress, SocketOwned
  <2>4. conf.identified /\ (conf.controller => cap = controllerCaps /\ vc = volumeModes)
    BY <2>1 DEF IInv, Progress
  <2>5. m.name \in {"ControllerGetCapabilities", "ValidateVolumeCapabilities"} =>
            conf.controller
    <3>1. m.name \in {"ControllerGetCapabilities", "ValidateVolumeCapabilities"} =>
              m.service = "controller"
      BY DEF Method
    <3>2. built \subseteq Asked
      BY <2>1 DEF IInv, Progress
    <3> QED
      BY <1>1, <3>1, <3>2 DEF Receiverless, Asked
  <2>6. m.name = "ControllerGetCapabilities" => Handler(m) = controllerCaps
    BY <2>4, <2>5 DEF Handler, ControllerGetCapabilities
  <2>7. m.name = "ValidateVolumeCapabilities" =>
            (Handler(m) = {"ok"} <=> m.modes \subseteq volumeModes)
    <3>1. {"unconfirmed"} # {"ok"}
      OBVIOUS
    <3> QED
      BY <2>4, <2>5, <3>1 DEF Handler, ValidateVolumeCapabilities
  <2>8. m.name = "GetPluginInfo" => Handler(m) # {"unavailable"}
    BY <2>4 DEF Handler, GetPluginInfo
  <2>9. AnswersComplete'
    BY <2>1, <2>6, <2>7, <2>8 DEF AnswersComplete, volumeModes, controllerCaps
  <2> QED
    BY <2>1, <2>2, <2>3, <2>9, Unended DEF IInv
<1>2. CASE ~(m.service \in built \/ m.name \in Receiverless)
  <2>1. Exit("panic", m.service) /\ UNCHANGED faults /\ loop = "serving"
    BY <1>2 DEF Request
  <2>2. m.service \in Services
    BY DEF Method, Services
  <2>3. m.service \notin Asked
    BY <1>2, <2>1, ServingIsBuilt
  <2> QED
    BY <2>1, <2>2, <2>3, ExitInv DEF IInv, TypeOK
<1> QED
  BY <1>1, <1>2

LEMMA FaultType == ASSUME IInv, Fault PROVE faults' \in 0 .. MaxFaults
BY DEF Fault, IInv, TypeOK

LEMMA ServeFailsInv == ASSUME IInv, ServeFails PROVE IInv'
BY ExitInv, FaultType DEF ServeFails

LEMMA KillInv == ASSUME IInv, Kill PROVE IInv'
BY ExitInv, FaultType DEF Kill

LEMMA GatewayInv == ASSUME IInv, GatewayDown \/ GatewayUp PROVE IInv'
<1>1. TypeOK'
  BY FaultType DEF GatewayDown, GatewayUp, process, IInv, TypeOK
<1>2. Progress' /\ SocketOwned' /\ AnswersComplete'
  BY Unended DEF GatewayDown, GatewayUp, process, IInv, Progress, SocketOwned, AnswersComplete
<1> QED
  BY <1>1, <1>2, Unended DEF GatewayDown, GatewayUp, IInv

LEMMA StutterInv == ASSUME IInv, UNCHANGED vars PROVE IInv'
BY DEF vars, process, IInv, TypeOK, Progress, SocketOwned, PanicsOnlyUnasked,
       AnswersComplete, Asked

LEMMA NextInv == ASSUME IInv, [Next]_vars PROVE IInv'
<1>1. CASE Run
  BY <1>1, NewDriverInv, NewNodeServerInv, NewControllerServerInv, StartInv DEF Run
<1>2. CASE Serve
  BY <1>2, ParseInv, RemoveSocketInv, ListenInv, RegisterInv DEF Serve
<1>3. CASE \E m \in Method : Request(m)
  BY <1>3, RequestInv
<1>4. CASE Restart \/ ServeFails \/ Kill \/ GatewayDown \/ GatewayUp \/ UNCHANGED vars
  BY <1>4, RestartInv, ServeFailsInv, KillInv, GatewayInv, StutterInv
<1> QED
  BY <1>1, <1>2, <1>3, <1>4 DEF Next

\* Run's order of construction is kept across every end of the process.
THEOREM Invariance == Spec => []IInv
BY InitInv, NextInv, PTL DEF Spec

\* No request for a service that was asked for ends the process.
THEOREM OnlyUnaskedPanic == Spec => []PanicsOnlyUnasked
<1>1. IInv => PanicsOnlyUnasked
  BY DEF IInv
<1> QED
  BY <1>1, Invariance, PTL

\* No client is told less than the driver can do.
THEOREM CompleteAnswers == Spec => []AnswersComplete
<1>1. IInv => AnswersComplete
  BY DEF IInv
<1> QED
  BY <1>1, Invariance, PTL
=============================================================================
