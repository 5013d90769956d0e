------------------------------- MODULE Setup -------------------------------
(***************************************************************************)
(* What Sdk::new makes of a Config and of the machine it runs on           *)
(* (src/src/http.rs, appid.rs, machine_id.rs, storage.rs): the handle's    *)
(* fixed fields, or the error, a panic among them.                         *)
(*                                                                         *)
(* An AppID is the sequence of its parts between underscores, and a        *)
(* project key is told by its id, whether it is `full` (has its 32 bytes)  *)
(* and what ValidateKey (Keys.tla) makes of it.  A raw machine ID is a     *)
(* sequence of bytes, of which " " and "0" (the zero byte) are special.    *)
(* SHA-256 is external, and taken to be injective.                         *)
(***************************************************************************)
EXTENDS Integers, Sequences

CONSTANTS
  Absent,    \* None
  Block      \* SHA-256's block, in bytes

\* What machine_id.rs reads from a machine, one source after the other.  A file
\* has one line; a tool's output has several, and a line either carries the
\* value or does not.  A source may be Absent, or a tool may fail.
Line(mine, value) == [mine |-> mine, value |-> value]
Sources == {Absent} \cup Seq([mine : BOOLEAN, value : Seq(STRING)])

-----------------------------------------------------------------------------
(* appid.rs *)

Environments == {"live", "test", "local"}

\* Where validate_key panics, so does Sdk::new.
ParseAppId(appId) ==
  LET key == appId[3]
      sound == Len(appId) = 3 /\ appId[1] = "pk" /\ appId[2] \in Environments
  IN IF ~sound \/ ~key.full \/ key.check = "invalid" THEN [error |-> "InvalidAppId"]
     ELSE IF key.check = "panic" THEN [error |-> "panic"]
     ELSE [error |-> "none", env |-> appId[2], key |-> key]

BaseUrl(env) == IF env = "local" THEN "http://localhost:8080"
                ELSE "https://api.licenselatte.com"

-----------------------------------------------------------------------------
(* machine_id.rs.  Definitions named Faulty... are bugs the code could have  *)
(* had (README.md).                                                          *)

FaultyNonEmpty(s) == IF s = <<>> THEN Absent ELSE s

Blank(s) == \A i \in DOMAIN s : s[i] = " "

\* trim(), then the value if anything is left of it.
NonEmpty(s) ==
  IF Blank(s) THEN Absent
  ELSE LET solid == {i \in DOMAIN s : s[i] # " "}
           First == CHOOSE i \in solid : \A j \in solid : i <= j
           Last == CHOOSE i \in solid : \A j \in solid : j <= i
       IN SubSeq(s, First, Last)

\* parse_ioreg, parse_reg_query and read_file: the first line that has a value.
ReadSource(lines) ==
  LET good == IF lines = Absent THEN {}
              ELSE {i \in DOMAIN lines :
                      lines[i].mine /\ NonEmpty(lines[i].value) # Absent}
  IN IF good = {} THEN Absent
     ELSE NonEmpty(lines[CHOOSE i \in good : \A j \in good : i <= j].value)

\* Linux and the BSDs have two sources, macOS and Windows one, others none.
PlatformId(machine) ==
  LET good == {i \in DOMAIN machine : ReadSource(machine[i]) # Absent}
  IN IF good = {} THEN Absent
     ELSE ReadSource(machine[CHOOSE i \in good : \A j \in good : i <= j])

\* HMAC's key: padded with zero bytes to a block, or hashed when it is longer.
HmacKey(raw) ==
  IF Len(raw) > Block THEN [hashed |-> TRUE, bytes |-> raw]
  ELSE [hashed |-> FALSE, bytes |-> [i \in 1 .. Block |->
                                       IF i <= Len(raw) THEN raw[i] ELSE "0"]]

FaultyProtect(raw, appId) == [key |-> HmacKey(raw), message |-> appId[3]]

\* Sdk::new passes the whole AppID, with its environment.
Protect(raw, appId) == [key |-> HmacKey(raw), message |-> appId]

\* The caller's raw ID is not trimmed; an empty one counts as none.
RawId(supplied, machine) ==
  IF supplied \notin {Absent, <<>>} THEN supplied ELSE PlatformId(machine)

Derive(appId, supplied, machine) ==
  LET raw == RawId(supplied, machine)
  IN IF raw = Absent THEN Absent ELSE Protect(raw, appId)

-----------------------------------------------------------------------------
(* Sdk::new *)

\* storage::default_path, in the user's configuration directory if there is one.
DefaultPath(key, configDir) ==
  IF configDir = Absent THEN Absent ELSE <<configDir, "LicenseLatte", key>>

OrElse(x, y) == IF x = Absent THEN y ELSE x

New(config, machine, configDir) ==
  LET parsed == ParseAppId(config.appId)
      id == Derive(config.appId, config.machineId, machine)
  IN IF parsed.error # "none" THEN parsed
     ELSE IF id = Absent THEN [error |-> "MachineIdUnavailable"]
     ELSE [error |-> "none", machineId |-> id,
           baseUrl |-> OrElse(config.baseUrl, BaseUrl(parsed.env)),
           machineName |-> IF config.machineName = "" THEN Absent
                           ELSE config.machineName,
           cachePath |-> OrElse(config.cachePath, DefaultPath(parsed.key, configDir)),
           timeout |-> OrElse(config.timeout, 10)]

-----------------------------------------------------------------------------
(* Properties *)

\* The default cache path names the project key alone, so a live and a test
\* build of one product share the file.  A handle takes no token another AppID
\* left there for its own: their machine IDs differ, whatever either was told or
\* read of the machine.
SharedFileTellsApart(a, b) ==
  /\ a.new.error = "none" /\ b.new.error = "none"
  /\ a.new.cachePath = b.new.cachePath
  /\ a.config.appId # b.config.appId
  => a.new.machineId # b.new.machineId

\* Two machines have one machine ID only if what they read, or were told, is the
\* same but for zero bytes at the end: machines whose sources are blank do not
\* share an ID, they have none, and Sdk::new fails.
MachinesTellApart(a, b) ==
  /\ a.new.error = "none" /\ b.new.error = "none"
  /\ a.new.machineId = b.new.machineId
  => LET Solid(raw) == {i \in DOMAIN raw : raw[i] # "0"}
         x == RawId(a.config.machineId, a.machine)
         y == RawId(b.config.machineId, b.machine)
     IN /\ Solid(x) = Solid(y) /\ \A i \in Solid(x) : x[i] = y[i]
        /\ a.config.machineId \in {Absent, <<>>} => ~Blank(x)
=============================================================================
