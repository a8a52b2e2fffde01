---------------------------- MODULE EbpfManager ----------------------------
(***************************************************************************)
(* The eBPF manager of client/internal/ebpf/ebpf: manager_linux.go,        *)
(* wg_proxy_linux.go, dns_fwd_linux.go, and the XDP program they load,     *)
(* src/prog.c with src/wg_proxy.c and src/dns_fwd.c.                       *)
(*                                                                         *)
(* Two features share one program attached to "lo".  Loading a feature     *)
(* attaches the program if need be, writes the feature's two settings into *)
(* its maps and then the feature flags; each write may fail.  The manager's*)
(* lock keeps two operations apart, but not an operation and the packets   *)
(* the program handles meanwhile.  The program copies the settings of a    *)
(* feature into its own variables when it first needs them.                *)
(***************************************************************************)
EXTENDS Naturals, FiniteSets

CONSTANTS
  Features,     \* "wg", the WireGuard proxy, and "dns", the DNS forwarder
  Values        \* settings: ports, and an IP address; 0 is an unset one

ASSUME FeaturesAssumption == Features \subseteq {"wg", "dns"}
ASSUME ValuesAssumption == Values \subseteq Nat \ {0} /\ Values # {}

VARIABLES
  link,         \* the program is attached
  featureFlags, \* GeneralManager.featureFlags
  op,           \* the Load operation that holds the lock, and its settings
  held,         \* the features their users have loaded and not freed
  nbFeatures,   \* kernel: the map nb_features
  settings,     \* kernel: the settings maps of each feature
  cache,        \* kernel: the program's variables with the settings
  refused       \* the last write of the feature flags failed

kernel == <<nbFeatures, settings, cache>>
vars == <<link, featureFlags, op, held, nbFeatures, settings, cache, refused>>

Pair  == (Values \cup {0}) \X (Values \cup {0})
Unset == [f \in Features |-> <<0, 0>>]
NoOp  == [pc |-> "none"]
Op    == [pc : {"attached", "first", "second"}, feature : Features, values : Values \X Values]

TypeOK ==
  /\ link \in BOOLEAN
  /\ featureFlags \subseteq Features
  /\ op \in Op \cup {NoOp}
  /\ held \subseteq Features
  /\ nbFeatures \subseteq Features
  /\ settings \in [Features -> Pair]
  /\ cache \in [Features -> Pair]
  /\ refused \in BOOLEAN

Init ==
  /\ link = FALSE
  /\ featureFlags = {}
  /\ op = NoOp
  /\ held = {}
  /\ nbFeatures = {}
  /\ settings = Unset
  /\ cache = Unset
  /\ refused = FALSE

-----------------------------------------------------------------------------
(* Loading a feature *)

\* LoadWgProxy, LoadDNSFwd: take the lock and load the program unless it is there.
\* A new program has empty maps.  (When loadXdp fails nothing has changed.)
LoadXdp(f, v) ==
  /\ op = NoOp
  /\ op' = [pc |-> "attached", feature |-> f, values |-> v]
  /\ link' = TRUE
  /\ IF link THEN UNCHANGED <<kernel, refused>>
     ELSE nbFeatures' = {} /\ settings' = Unset /\ cache' = Unset /\ refused' = FALSE
  /\ UNCHANGED <<featureFlags, held>>

\* Put of the first setting: the proxy's port, the DNS address.
PutFirst ==
  /\ op.pc = "attached"
  /\ settings' = [settings EXCEPT ![op.feature][1] = op.values[1]]
  /\ op' = [op EXCEPT !.pc = "first"]
  /\ UNCHANGED <<link, featureFlags, held, nbFeatures, cache, refused>>

\* Put of the second setting: WireGuard's port, the DNS port.
PutSecond ==
  /\ op.pc = "first"
  /\ settings' = [settings EXCEPT ![op.feature][2] = op.values[2]]
  /\ op' = [op EXCEPT !.pc = "second"]
  /\ UNCHANGED <<link, featureFlags, held, nbFeatures, cache, refused>>

\* One of the two fails: Load returns and leaves the program attached.
PutFails ==
  /\ op.pc \in {"attached", "first"}
  /\ op' = NoOp
  /\ UNCHANGED <<link, featureFlags, held, kernel, refused>>

\* Mutant of PutFeatures: the flags are written before the second setting.
PutFeaturesEarly ==
  /\ op.pc \in {"first", "second"}
  /\ featureFlags' = featureFlags \cup {op.feature}
  /\ nbFeatures' = featureFlags'
  /\ held' = held \cup {op.feature}
  /\ refused' = FALSE
  /\ op' = NoOp
  /\ UNCHANGED <<link, settings, cache>>

\* Mutant of PutFeatures: the new flag replaces those in the kernel.
PutFeaturesAlone ==
  /\ op.pc = "second"
  /\ featureFlags' = featureFlags \cup {op.feature}
  /\ nbFeatures' = {op.feature}
  /\ held' = held \cup {op.feature}
  /\ refused' = FALSE
  /\ op' = NoOp
  /\ UNCHANGED <<link, settings, cache>>

\* setFeatureFlag, and Put of the flags.
PutFeatures ==
  /\ op.pc = "second"
  /\ featureFlags' = featureFlags \cup {op.feature}
  /\ nbFeatures' = featureFlags'
  /\ held' = held \cup {op.feature}
  /\ refused' = FALSE
  /\ op' = NoOp
  /\ UNCHANGED <<link, settings, cache>>

\* The flags are set in the manager and their Put fails.
PutFeaturesFails ==
  /\ op.pc = "second"
  /\ featureFlags' = featureFlags \cup {op.feature}
  /\ refused' = TRUE
  /\ op' = NoOp
  /\ UNCHANGED <<link, held, kernel>>

-----------------------------------------------------------------------------
(* Freeing a feature *)

\* FreeWGProxy, FreeDNSFwd, called for a feature that is held or not: without flags
\* the program is detached and its maps go with it; otherwise the remaining flags
\* are written, which may fail.
UnsetFeatureFlag(f) ==
  /\ op = NoOp
  /\ held' = held \ {f}
  /\ featureFlags' = featureFlags \ {f}
  /\ \/ /\ ~link
        /\ UNCHANGED <<link, kernel, refused>>
     \/ /\ link
        /\ featureFlags' = {}
        /\ link' = FALSE
        /\ nbFeatures' = {} /\ settings' = Unset /\ cache' = Unset /\ refused' = FALSE
     \/ /\ link
        /\ featureFlags' # {}
        /\ nbFeatures' \in {featureFlags', nbFeatures}
        /\ refused' = (nbFeatures' # featureFlags')
        /\ UNCHANGED <<link, settings, cache>>
  /\ UNCHANGED op

-----------------------------------------------------------------------------
(* The program *)

\* xdp_wg_proxy reads both ports until it has both; xdp_dns_fwd reads the address
\* and the port until it has a port.
ReadSettings(f) == IF f = "wg" THEN cache[f][1] = 0 \/ cache[f][2] = 0 ELSE cache[f][2] = 0

\* nb_xdp_prog: a UDP packet meets an enabled feature that has yet to read its
\* settings.  (Otherwise the program changes only the packet.)
Packet(f) ==
  /\ link
  /\ f \in nbFeatures
  /\ ReadSettings(f)
  /\ cache' = [cache EXCEPT ![f] = settings[f]]
  /\ UNCHANGED <<link, featureFlags, op, held, nbFeatures, settings, refused>>

-----------------------------------------------------------------------------
Next ==
  \/ \E f \in Features, v \in Values \X Values : LoadXdp(f, v)
  \/ PutFirst \/ PutSecond \/ PutFails \/ PutFeatures \/ PutFeaturesFails
  \/ \E f \in Features : UnsetFeatureFlag(f) \/ Packet(f)

Spec == Init /\ [][Next]_vars

-----------------------------------------------------------------------------
(* Properties *)

\* An enabled feature has both settings, and the program never rewrites packets
\* with half of them, whatever fails half-way through a Load and whenever packets
\* come: the flag is the last thing Load writes, and a program that is loaded anew
\* starts without flags.
EnabledIsConfigured ==
  \A f \in Features : /\ f \in nbFeatures => settings[f][1] # 0 /\ settings[f][2] # 0
                      /\ cache[f] # <<0, 0>> => cache[f][1] # 0 /\ cache[f][2] # 0

\* Freeing one feature takes away neither more nor less: the flags in the kernel are
\* the manager's, unless the last attempt to write them failed, and the program stays
\* attached while somebody holds the other feature.
FlagsReachKernel ==
  /\ link /\ ~refused => nbFeatures = featureFlags
  /\ held # {} => link
=============================================================================
