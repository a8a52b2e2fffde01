------------------------------- MODULE Config -------------------------------
(***************************************************************************)
(* The client's configuration file: client/internal/config.go and the JSON *)
(* files of util/file.go.                                                  *)
(*                                                                         *)
(* The client calls one of the four functions when it starts; an editor,   *)
(* another program on the same file, calls UpdateConfig.  Of the settings  *)
(* that apply fills in, the private key and the port are kept: the key is  *)
(* generated, the port given by the caller; the others are constants.      *)
(* WriteJson writes a temporary file and renames it.                       *)
(***************************************************************************)
EXTENDS Naturals

CONSTANTS
  Privates,     \* private keys
  Ports,        \* ports a caller may ask for
  DefaultPort,
  Client, Editor,
  NoKey, NoPort,
  FirstFiles,   \* what the configuration file may be at first
  NoFile,       \* there is no such file
  Torn          \* a file that is not yet, or not wholly, written

Procs == {Client, Editor}
ConfigFns == {"ReadConfig", "UpdateConfig", "UpdateOrCreateConfig", "CreateInMemoryConfig"}
Conf == [key : Privates \cup {NoKey}, port : Ports \cup {DefaultPort, NoPort}]
Empty == [key |-> NoKey, port |-> NoPort]
\* What apply leaves: nothing is missing.
Saved == [key : Privates, port : Ports \cup {DefaultPort}]

ASSUME ConfigAssumption ==
  /\ Client # Editor
  /\ NoKey \notin Privates
  /\ NoPort \notin Ports \cup {DefaultPort}
  /\ FirstFiles \subseteq Conf \cup {NoFile}
  /\ NoFile \notin Conf /\ Torn \notin Conf /\ NoFile # Torn

VARIABLES
  file,         \* the configuration file
  temp,         \* the temporary file of each process
  cpc,          \* where it is
  call,         \* the function it runs and the port it asks for
  conf,         \* the Config in memory
  writes,       \* the calls of WriteJson still to come
  keyless       \* history: the file was there at first, without a key

configVars == <<file, temp, cpc, call, conf, writes, keyless>>

CPCs == {"idle", "stat", "create", "read", "temp", "fill", "rename", "done"}

ConfigTypeOK ==
  /\ file \in Conf \cup {NoFile, Torn}
  /\ temp \in [Procs -> Saved \cup {NoFile, Torn}]
  /\ cpc \in [Procs -> CPCs]
  /\ call \in [Procs -> [fn : ConfigFns, port : Ports \cup {NoPort}]]
  /\ conf \in [Procs -> Saved \cup {Empty}]
  /\ writes \in [Procs -> 0..2]
  /\ keyless \in BOOLEAN

NoConfigCall == [fn |-> "CreateInMemoryConfig", port |-> NoPort]

ConfigInit ==
  /\ file \in FirstFiles
  /\ temp = [p \in Procs |-> NoFile]
  /\ cpc = [p \in Procs |-> "idle"]
  /\ call = [p \in Procs |-> NoConfigCall]
  /\ conf = [p \in Procs |-> Empty]
  /\ writes = [p \in Procs |-> 0]
  /\ keyless = (file # NoFile /\ file.key = NoKey)

Goto(p, where) == cpc' = [cpc EXCEPT ![p] = where]

\* A process calls one of the functions; ReadConfig applies an empty input.
CallConfig(p, fn, port) ==
  /\ cpc[p] = "idle"
  /\ fn = "ReadConfig" => port = NoPort
  /\ call' = [call EXCEPT ![p] = [fn |-> fn, port |-> port]]
  /\ conf' = [conf EXCEPT ![p] = Empty]
  /\ writes' = [writes EXCEPT ![p] = 0]
  /\ Goto(p, IF fn = "CreateInMemoryConfig" THEN "create" ELSE "stat")
  /\ UNCHANGED <<file, temp, keyless>>

\* The call fails: its temporary file is removed and the process has no Config.
Abandon(p) ==
  /\ temp' = [temp EXCEPT ![p] = NoFile]
  /\ conf' = [conf EXCEPT ![p] = Empty]
  /\ call' = [call EXCEPT ![p] = NoConfigCall]
  /\ writes' = [writes EXCEPT ![p] = 0]
  /\ Goto(p, "idle")
  /\ UNCHANGED <<file, keyless>>

\* configFileIsExists at the start of the three other functions.
StatFile(p) ==
  /\ cpc[p] = "stat"
  /\ IF file = NoFile /\ call[p].fn = "UpdateConfig"
     THEN Abandon(p)
     ELSE /\ Goto(p, IF file = NoFile THEN "create" ELSE "read")
          /\ UNCHANGED <<file, temp, call, conf, writes, keyless>>

\* Mutant of Applied: a missing key is not generated.
AppliedKeyless(c, port, key) ==
  [key |-> c.key, port |-> IF port # NoPort THEN port ELSE IF c.port = NoPort THEN DefaultPort ELSE c.port]

\* Config.apply: what is missing is filled in, and the port set if one is given.
Applied(c, port, key) ==
  [key  |-> IF c.key = NoKey THEN key ELSE c.key,
   port |-> IF port # NoPort THEN port ELSE IF c.port = NoPort THEN DefaultPort ELSE c.port]

\* What ReadConfig and UpdateOrCreateConfig write once more after createNewConfig.
WritesAgain(p) == IF call[p].fn = "CreateInMemoryConfig" THEN 0 ELSE 1

\* Go on with as many calls of WriteJson as the function makes.
GoOnToWrite(p, c, n) ==
  /\ conf' = [conf EXCEPT ![p] = c]
  /\ writes' = [writes EXCEPT ![p] = n]
  /\ call' = IF n = 0 THEN [call EXCEPT ![p] = NoConfigCall] ELSE call
  /\ Goto(p, IF n = 0 THEN "done" ELSE "temp")
  /\ UNCHANGED <<file, temp, keyless>>

\* Mutant of CreateNewConfig: a new key is made although there is a file.
CreateNewConfigAlways(p) ==
  /\ cpc[p] = "create"
  /\ \E k \in Privates : GoOnToWrite(p, Applied(Empty, call[p].port, k), 1 + WritesAgain(p))

\* Mutant of CreateNewConfig: nothing is written, as CreateInMemoryConfig's
\* comment says.
CreateNewConfigInMemory(p) ==
  /\ cpc[p] = "create"
  /\ file # Torn
  /\ \E k \in Privates :
       GoOnToWrite(p, Applied(IF file = NoFile THEN Empty ELSE file, call[p].port, k), WritesAgain(p))

\* createNewConfig: a file that exists is read and not written, though the caller
\* may, and though a key that it lacks comes from generateKey; otherwise a Config
\* with a new key is written.
CreateNewConfig(p) ==
  /\ cpc[p] = "create"
  /\ file # Torn
  /\ \E k \in Privates :
       IF file = NoFile
       THEN GoOnToWrite(p, Applied(Empty, call[p].port, k), 1 + WritesAgain(p))
       ELSE GoOnToWrite(p, Applied(file, call[p].port, k), WritesAgain(p))

\* update, and ReadConfig of a file that exists: written only when apply changes it,
\* be it by the key.
UpdateRead(p) ==
  /\ cpc[p] = "read"
  /\ file \in Conf
  /\ \E k \in Privates :
       LET c == Applied(file, call[p].port, k)
       IN  GoOnToWrite(p, c, IF c = file THEN 0 ELSE 1)

\* ReadJson fails: on a file that is no JSON always.
ReadFails(p) ==
  /\ cpc[p] \in {"create", "read"} /\ file # NoFile
  /\ Abandon(p)

\* Mutant of CreateTemp: the file itself is truncated and written
\* (DirectWriteJson).
CreateTempInPlace(p) ==
  /\ cpc[p] = "temp"
  /\ temp' = [temp EXCEPT ![p] = Torn]
  /\ file' = Torn
  /\ Goto(p, "fill")
  /\ UNCHANGED <<call, conf, writes, keyless>>

\* WriteJson: the directory is made, and an empty temporary file.
CreateTemp(p) ==
  /\ cpc[p] = "temp"
  /\ temp' = [temp EXCEPT ![p] = Torn]
  /\ Goto(p, "fill")
  /\ UNCHANGED <<file, call, conf, writes, keyless>>

WriteFile(p) ==
  /\ cpc[p] = "fill"
  /\ temp' = [temp EXCEPT ![p] = conf[p]]
  /\ Goto(p, "rename")
  /\ UNCHANGED <<file, call, conf, writes, keyless>>

\* WriteJson ends, and the function with its last WriteJson.
Rename(p) ==
  /\ cpc[p] = "rename"
  /\ file' = temp[p]
  /\ temp' = [temp EXCEPT ![p] = NoFile]
  /\ writes' = [writes EXCEPT ![p] = @ - 1]
  /\ call' = IF writes[p] = 1 THEN [call EXCEPT ![p] = NoConfigCall] ELSE call
  /\ Goto(p, IF writes[p] = 1 THEN "done" ELSE "temp")
  /\ UNCHANGED <<conf, keyless>>

\* A step of WriteJson fails, and the function with it.
WriteFails(p) ==
  /\ cpc[p] \in {"temp", "fill", "rename"}
  /\ Abandon(p)

\* The editor's call is over.
EditorReturns ==
  /\ cpc[Editor] = "done"
  /\ Abandon(Editor)

ConfigStep(p) == StatFile(p) \/ UpdateRead(p) \/ CreateTemp(p) \/ WriteFile(p) \/ Rename(p)

ConfigFails(p) == ReadFails(p) \/ WriteFails(p)

-----------------------------------------------------------------------------
(* Properties *)

\* Whoever dies or fails while he writes, a reader finds what was there at first or a
\* whole configuration with a key in it: WriteJson renames a temporary file.
FileIsWhole == file \in FirstFiles \cup Saved

\* A key that was saved stays: no later start, edit or failure replaces the file by
\* one with another key, though client and editor write what they read earlier.  The
\* exception is a file that had no key: then each of the two generates one.
KeyIsForever ==
  [][~keyless /\ file \in Conf => file' \in Conf /\ file'.key = file.key]_configVars
=============================================================================
