---------------------------- MODULE ClientSetup ----------------------------
(***************************************************************************)
(* How a client comes to its interface: main reads or creates the          *)
(* configuration (Config), every attempt of ConnectClient.run chooses a    *)
(* kind of device (KernelModules) and makes it with the key of the         *)
(* configuration (WGConfigurer), until one succeeds; then the goroutines   *)
(* of the client configure peers.  The process may die at any point and is *)
(* started again.  ClientStart.tla has the rest of an attempt: ports,      *)
(* registration and proxy.                                                 *)
(***************************************************************************)
EXTENDS Config, KernelModules, WGConfigurer

CONSTANT MaxTroubles    \* bound on crashes, failures and acts of other processes

ASSUME SetupAssumption == MaxTroubles \in Nat /\ Privates # {} /\ DeviceKeys = Privates /\ None = NoKey

VARIABLES
  running,      \* the interface is made and in use
  troubles

vars == <<configVars, moduleVars, wgVars, running, troubles>>

TypeOK ==
  /\ ConfigTypeOK /\ ModulesTypeOK /\ WGTypeOK
  /\ running \in BOOLEAN
  /\ troubles \in 0..MaxTroubles

Init ==
  /\ ConfigInit /\ ModulesInit /\ WGInit
  /\ running = FALSE
  /\ troubles = 0

Trouble == troubles < MaxTroubles /\ troubles' = troubles + 1

-----------------------------------------------------------------------------
(* The configuration *)

\* main asks for a Config with one of the functions that may create the file, in this
\* repository with CreateInMemoryConfig.
MainCalls ==
  /\ \E fn \in ConfigFns \ {"UpdateConfig"}, port \in Ports : CallConfig(Client, fn, IF fn = "ReadConfig" THEN NoPort ELSE port)
  /\ UNCHANGED <<moduleVars, wgVars, running, troubles>>

ConfigGoesOn ==
  /\ ConfigStep(Client) \/ CreateNewConfig(Client)
  /\ UNCHANGED <<moduleVars, wgVars, running, troubles>>

\* A failure ends main, and the supervisor starts it again.
ConfigTrouble ==
  /\ Trouble
  /\ ConfigFails(Client)
  /\ UNCHANGED <<moduleVars, wgVars, running>>

EditorCalls ==
  /\ Trouble
  /\ \E port \in Ports : CallConfig(Editor, "UpdateConfig", port)
  /\ UNCHANGED <<moduleVars, wgVars, running>>

EditorGoesOn ==
  /\ ConfigStep(Editor) \/ EditorReturns
  /\ UNCHANGED <<moduleVars, wgVars, running, troubles>>

EditorTrouble ==
  /\ Trouble
  /\ ConfigFails(Editor)
  /\ UNCHANGED <<moduleVars, wgVars, running>>

-----------------------------------------------------------------------------
(* An attempt of ConnectClient.run *)

NewWGIFace ==
  /\ cpc[Client] = "done"
  /\ ~running
  /\ BeginProbe
  /\ UNCHANGED <<configVars, wgVars, running, troubles>>

ProbeGoesOn ==
  /\ ProbeStep
  /\ UNCHANGED <<configVars, wgVars, running, troubles>>

ProbeFails ==
  /\ Trouble
  /\ ProbeTrouble
  /\ UNCHANGED <<configVars, wgVars, running>>

\* WGIface.Create, with the key of the Config.
Create ==
  /\ mpc = "done" /\ ~running
  /\ \/ kind = "kernel" /\ Present("wireguard") /\ CreateKernel(conf[Client].key)
     \/ kind = "user" /\ CreateUser(conf[Client].key)
  /\ running' = TRUE
  /\ ProbeOver
  /\ UNCHANGED <<configVars, troubles>>

\* There is no device of that kind: no module, a link of that name, or no tun. The
\* attempt is over and another will be made.
CreateImpossible ==
  /\ mpc = "done" /\ ~running
  /\ \/ kind = "none"
     \/ kind = "kernel" /\ ~Present("wireguard")
     \/ kind = "user" /\ link # "none"
  /\ ProbeOver
  /\ UNCHANGED <<configVars, wgVars, running, troubles>>

\* Create fails otherwise, and Engine.close takes back what there is.
CreateTrouble ==
  /\ Trouble
  /\ mpc = "done" /\ ~running
  /\ \/ kind = "kernel" /\ Present("wireguard") /\ CreateKernelFails
     \/ kind = "user" /\ link = "none" /\ UNCHANGED wgVars
  /\ ProbeOver
  /\ UNCHANGED <<configVars, running>>

\* Engine.Start fails after Create, or Engine.Stop.
Close ==
  /\ Trouble
  /\ running
  /\ CloseLink
  /\ running' = FALSE
  /\ UNCHANGED <<configVars, moduleVars>>

-----------------------------------------------------------------------------
(* A running client and its surroundings *)

Use ==
  /\ running
  /\ Configures
  /\ UNCHANGED <<configVars, moduleVars, running, troubles>>

PeerRoams ==
  /\ \E k \in Keys, e \in Endpoints : Roams(k, e)
  /\ UNCHANGED <<configVars, moduleVars, running, troubles>>

LinkIsDeleted ==
  /\ Trouble
  /\ LinkDeleted
  /\ UNCHANGED <<configVars, moduleVars, running>>

\* The module goes with its links.
OthersStart ==
  /\ Trouble
  /\ \/ (\E m \in Modules : OtherLoads(m)) /\ UNCHANGED wgVars
     \/ (\E m \in Modules \ {"wireguard"} : OtherUnloads(m)) /\ UNCHANGED wgVars
     \/ /\ OtherUnloads("wireguard")
        /\ IF link = "kernel" THEN LinkDeleted ELSE UNCHANGED wgVars
  /\ UNCHANGED <<configVars, running>>

OthersEnd ==
  /\ \E m \in Modules : OtherLoaded(m) \/ OtherUnloaded(m)
  /\ UNCHANGED <<configVars, wgVars, running, troubles>>

\* The process dies: a temporary file may stay, which nobody reads.
Crash ==
  /\ Trouble
  /\ Abandon(Client)
  /\ ProbeOver
  /\ ProcessEnds
  /\ running' = FALSE

Setup == MainCalls \/ ConfigGoesOn \/ NewWGIFace \/ ProbeGoesOn \/ Create \/ CreateImpossible

Next ==
  \/ Setup \/ ConfigTrouble \/ ProbeFails \/ CreateTrouble \/ Close \/ Crash
  \/ EditorCalls \/ EditorGoesOn \/ EditorTrouble
  \/ Use \/ PeerRoams \/ LinkIsDeleted
  \/ OthersStart \/ OthersEnd

Spec == Init /\ [][Next]_vars

\* The client's main goroutine runs, is started again and retries (backoff.Retry);
\* another process that loads a module comes to an end.
Fairness == WF_vars(Setup) /\ WF_vars(OthersEnd)

FairSpec == Spec /\ Fairness

-----------------------------------------------------------------------------
(* Properties *)

\* An interface, also one that a dead process left behind, has the key that is on
\* disk: what the peers know of this client stays true over crashes, failed attempts
\* and edits of the file.  The exception is a file that was there without a key: what
\* createNewConfig's comment says, "generating a new Wireguard key and saving to file",
\* is not so then, CreateInMemoryConfig generates a key and saves none.
DeviceKeyIsSaved ==
  ~keyless /\ link # "none" /\ private # None => file \in Conf /\ file.key = private

\* On a machine with /dev/net/tun the client always gets to an interface again: no
\* module that comes or goes, no interface of a dead process and no failure of a
\* single attempt makes every later attempt fail.
GetsInterface == host.tun => []<>running
=============================================================================
