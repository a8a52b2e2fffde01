--------------------------- MODULE MCClientSetup ---------------------------
(* An instance of ClientSetup for TLC. As depmod does, modules.dep lists for  *)
(* wireguard a module before the one it needs itself.                         *)
EXTENDS ClientSetup

CONSTANT s1, s2

MCPrivates == {s1, s2}

KeyFile == [key |-> s1, port |-> DefaultPort]
KeylessFile == [key |-> NoKey, port |-> DefaultPort]

\* A file of an earlier start, none, and one that somebody wrote without a key.
MCFirstFiles == {KeyFile, NoFile, KeylessFile}

MCModules == {"wireguard", "chacha", "libchacha", "tun"}

MCNeeds == [m \in MCModules |-> CASE m = "wireguard" -> {"chacha"}
                                  [] m = "chacha" -> {"libchacha"}
                                  [] OTHER -> {}]

MCListed == [m \in MCModules |-> CASE m = "wireguard" -> <<"chacha", "libchacha">>
                                   [] m = "chacha" -> <<"libchacha">>
                                   [] OTHER -> <<>>]

Machine(builtin, files, tun, disabled, lazy) ==
  [builtin |-> builtin, files |-> files, tun |-> tun, disabled |-> disabled, lazy |-> lazy]

\* All as modules, loaded by the kernel or by the client; WireGuard disabled, and tun
\* a module; WireGuard built in.
MCHosts == {Machine({}, MCModules, TRUE, FALSE, TRUE),
            Machine({}, MCModules, FALSE, TRUE, TRUE),
            Machine({"wireguard", "chacha", "libchacha"}, {}, TRUE, FALSE, FALSE)}
=============================================================================
