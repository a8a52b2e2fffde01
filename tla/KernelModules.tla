--------------------------- MODULE KernelModules ---------------------------
(***************************************************************************)
(* Which kind of WireGuard device the client uses: NewWGIFace of           *)
(* iface/iface_unix.go and the search for kernel modules of                *)
(* iface/module_linux.go, while other processes load and unload modules.   *)
(* The netstack device is left out.                                        *)
(***************************************************************************)
EXTENDS Sequences

CONSTANTS
  Modules,      \* kernel modules, "wireguard" and "tun" among them
  Needs,        \* the modules whose symbols a module uses, directly
  Listed,       \* the modules modules.dep lists for it, in that order
  Hosts         \* machines: see Host

\* builtin: modules compiled into the kernel; files: those under /lib/modules;
\* tun: /dev/net/tun is there; disabled: NB_WG_KERNEL_DISABLED is set; lazy: the
\* kernel may load a module when a link of its kind is asked for.
Host == [builtin : SUBSET Modules, files : SUBSET Modules, tun : BOOLEAN,
         disabled : BOOLEAN, lazy : BOOLEAN]

ASSUME ModulesAssumption ==
  /\ {"wireguard", "tun"} \subseteq Modules
  /\ Needs \in [Modules -> SUBSET Modules]
  /\ \A m \in Modules : Listed[m] \in Seq(Modules)
  /\ Hosts \subseteq Host

VARIABLES
  host,
  status,       \* what /proc/modules says of each module
  mpc,          \* where NewWGIFace is
  target,       \* the module tryToLoadModule looks for
  toLoad,       \* the modules loadModuleWithDependencies has still to load
  kind,         \* what NewWGIFace chose
  usable        \* history: since the call of NewWGIFace the kernel had WireGuard,
                \* and the lists of modules could be read

moduleVars == <<host, status, mpc, target, toLoad, kind, usable>>

Statuses == {"unloaded", "unloading", "loading", "live"}

ModulesTypeOK ==
  /\ host \in Hosts
  /\ status \in [Modules -> Statuses]
  /\ mpc \in {"off", "fake", "enabled", "path", "check", "finit", "tun", "done"}
  /\ target \in Modules
  /\ toLoad \in Seq(Modules)
  /\ kind \in {"none", "kernel", "user"}
  /\ usable \in BOOLEAN

ModulesInit ==
  /\ host \in Hosts
  /\ status = [m \in Modules |-> "unloaded"]
  /\ mpc = "off"
  /\ target = "wireguard"
  /\ toLoad = <<>>
  /\ kind = "none"
  /\ usable = FALSE

Present(m) == m \in host.builtin \/ status[m] = "live"

-----------------------------------------------------------------------------
(* NewWGIFace *)

\* Mutant of BeginProbe: the environment is looked at after the kernel was asked.
BeginProbeLate ==
  /\ mpc = "off"
  /\ mpc' = "fake"
  /\ usable' = Present("wireguard")
  /\ kind' = "none"
  /\ UNCHANGED <<host, status, target, toLoad>>

\* WireGuardModuleIsLoaded looks at the environment first.
BeginProbe ==
  /\ mpc = "off"
  /\ mpc' = IF host.disabled THEN "tun" ELSE "fake"
  /\ usable' = Present("wireguard")
  /\ kind' = "none"
  /\ UNCHANGED <<host, status, target, toLoad>>

\* The module is there: the kernel's device for wireguard, else that of this process.
Found(m) ==
  /\ kind' = IF m = "wireguard" THEN "kernel" ELSE "user"
  /\ mpc' = "done"
  /\ toLoad' = <<>>

\* Without WireGuard it is the turn of tun; without tun NewWGIFace fails.
Missing(m) ==
  /\ kind' = "none"
  /\ mpc' = IF m = "wireguard" THEN "tun" ELSE "done"
  /\ toLoad' = <<>>

\* modprobe, which the kernel calls, loads what a module needs first.
Loadable(m) == {m} \cup {Listed[m][i] : i \in DOMAIN Listed[m]} \subseteq host.files \cup host.builtin
LoadedAll(m) ==
  [x \in Modules |-> IF x \in ({m} \cup {Listed[m][i] : i \in DOMAIN Listed[m]}) \ host.builtin
                     THEN "live" ELSE status[x]]

\* canCreateFakeWireGuardInterface: the kernel checks the MTU when it knows the kind
\* of link, for which it may load the module.
FakeLink ==
  /\ mpc = "fake"
  /\ \/ Present("wireguard") /\ UNCHANGED status
     \/ /\ ~Present("wireguard") /\ host.lazy /\ Loadable("wireguard")
        /\ status' = LoadedAll("wireguard")
  /\ Found("wireguard")
  /\ UNCHANGED <<host, target, usable>>

\* The kernel knows no such link, and could not load a module for it.
NoFakeLink ==
  /\ mpc = "fake"
  /\ ~Present("wireguard")
  /\ mpc' = "enabled"
  /\ target' = "wireguard"
  /\ UNCHANGED <<host, status, toLoad, kind, usable>>

\* The client may not add links: NewWGIFace goes on as if there were no module.
FakeLinkRefused ==
  /\ mpc = "fake"
  /\ mpc' = "enabled"
  /\ target' = "wireguard"
  /\ UNCHANGED <<host, status, toLoad, kind, usable>>

\* Mutant of Enabled: what is built in is not in /proc/modules.
EnabledLoaded(m) == status[m] \in {"loading", "live"}

\* Mutant of Enabled: a module counts that is listed in any state, or not at all.
EnabledAnyway(m) == m \in Modules

\* modules.builtin lists it.
IsBuiltinModule(m) == m \in host.builtin

\* isModuleEnabled: built in, or loading, live or in use.
Enabled(m) == IsBuiltinModule(m) \/ status[m] \in {"loading", "live"}

IsModuleEnabled ==
  /\ mpc = "enabled"
  /\ IF Enabled(target) THEN Found(target) ELSE mpc' = "path" /\ UNCHANGED <<toLoad, kind>>
  /\ UNCHANGED <<host, status, target, usable>>

\* The list isModuleEnabled would have found it in cannot be read.
EnabledUnreadable ==
  /\ mpc = "enabled"
  /\ mpc' = "path"
  /\ usable' = FALSE
  /\ UNCHANGED <<host, status, target, toLoad, kind>>

\* What modules.dep lists, in that order, and the module itself.
GetModuleDependencies(m) == Append(Listed[m], m)

\* getModulePath: the module has a file, which is loaded after those it depends on.
GetModulePath ==
  /\ mpc = "path"
  /\ IF target \in host.files
     THEN toLoad' = GetModuleDependencies(target) /\ mpc' = "check" /\ UNCHANGED kind
     ELSE Missing(target)
  /\ UNCHANGED <<host, status, target, usable>>

\* A directory or a list cannot be read.
ListsUnreadable ==
  /\ mpc \in {"path", "check"}
  /\ Missing(target)
  /\ UNCHANGED <<host, status, target, usable>>

NextToLoad ==
  IF Len(toLoad) = 1 THEN Found(target)
  ELSE toLoad' = Tail(toLoad) /\ mpc' = "check" /\ UNCHANGED kind

\* loadModule: moduleStatus, which does not know what is built in.
LoadModule ==
  /\ mpc = "check"
  /\ IF status[Head(toLoad)] \in {"loading", "live"}
     THEN NextToLoad
     ELSE mpc' = "finit" /\ UNCHANGED <<toLoad, kind>>
  /\ UNCHANGED <<host, status, target, usable>>

\* finit_module: the kernel wants every symbol, and refuses a module that another
\* process has begun to load.
FinitModule ==
  /\ mpc = "finit"
  /\ LET m == Head(toLoad)
     IN  IF m \in host.files /\ status[m] = "unloaded" /\ \A n \in Needs[m] : Present(n)
         THEN status' = [status EXCEPT ![m] = "live"] /\ NextToLoad
         ELSE UNCHANGED status /\ Missing(target)
  /\ UNCHANGED <<host, target, usable>>

\* tunModuleIsLoaded.
TunModule ==
  /\ mpc = "tun"
  /\ IF host.tun THEN Found("tun") /\ UNCHANGED target
     ELSE mpc' = "enabled" /\ target' = "tun" /\ UNCHANGED <<toLoad, kind>>
  /\ UNCHANGED <<host, status, usable>>

\* The device is made, or will be tried again, or the client is gone.
ProbeOver ==
  /\ mpc' = "off"
  /\ target' = "wireguard"
  /\ toLoad' = <<>>
  /\ kind' = "none"
  /\ usable' = FALSE
  /\ UNCHANGED <<host, status>>

ProbeStep ==
  \/ FakeLink \/ NoFakeLink \/ IsModuleEnabled \/ GetModulePath
  \/ LoadModule \/ FinitModule \/ TunModule

ProbeTrouble == FakeLinkRefused \/ EnabledUnreadable \/ ListsUnreadable

-----------------------------------------------------------------------------
(* Other processes *)

OtherLoads(m) ==
  /\ status[m] = "unloaded" /\ m \in host.files
  /\ status' = [status EXCEPT ![m] = "loading"]
  /\ UNCHANGED <<host, mpc, target, toLoad, kind, usable>>

OtherLoaded(m) ==
  /\ status[m] = "loading"
  /\ \/ (\A n \in Needs[m] : Present(n)) /\ status' = [status EXCEPT ![m] = "live"]
     \/ status' = [status EXCEPT ![m] = "unloaded"]
  /\ UNCHANGED <<host, mpc, target, toLoad, kind, usable>>

\* Only a module that no other one uses is unloaded.
OtherUnloads(m) ==
  /\ status[m] = "live" /\ \A n \in Modules : m \in Needs[n] => status[n] = "unloaded"
  /\ status' = [status EXCEPT ![m] = "unloading"]
  /\ usable' = (usable /\ m # "wireguard")
  /\ UNCHANGED <<host, mpc, target, toLoad, kind>>

OtherUnloaded(m) ==
  /\ status[m] = "unloading"
  /\ status' = [status EXCEPT ![m] = "unloaded"]
  /\ UNCHANGED <<host, mpc, target, toLoad, kind, usable>>

-----------------------------------------------------------------------------
(* Properties *)

\* A client whose environment disables the kernel's WireGuard leaves the module
\* alone: no step of NewWGIFace loads it or makes a kernel link.
DisabledIsLeftAlone ==
  [][host.disabled /\ mpc # "off" => kind' # "kernel" /\ (status["wireguard"] = "unloaded" =>
        status'["wireguard"] # "live")]_moduleVars

\* When the kernel has WireGuard from the start to the end of NewWGIFace, the kernel's
\* device is chosen unless the environment disables it, also by a client that may not
\* add the link by which canCreateFakeWireGuardInterface finds out.
KernelWhenThere ==
  usable /\ mpc = "done" /\ ~host.disabled => kind = "kernel"
=============================================================================
