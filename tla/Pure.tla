-------------------------------- MODULE Pure --------------------------------
(***************************************************************************)
(* The pure parts of the SDK side by side: chains and tokens as the clock  *)
(* advances (Offline), and in further initial states one input of the key, *)
(* entitlement, timestamp and setup code, which then rests.                *)
(***************************************************************************)
EXTENDS Offline, Sequences

CONSTANTS
  NotObject, Malformed,
  MaxInt, MaxExact, Block,        \* see Entitlements and Setup
  ChecksumLen,  \* bytes of a checksum
  MaxKeyBytes,  \* see Keys
  KeyData,      \* what a checksum is put after
  Typings,      \* licence keys as typed
  Names,        \* of entitlements
  Numbers,      \* signed for one entitlement
  EntClaims,    \* `ent` claims
  Dates,        \* months
  Stamps,       \* timestamps
  Shifts,       \* minutes between two time zones, a day at most
  Hosts         \* pairs of a Config and the machine it is used on

VARIABLE input      \* <<kind, data>>
pureVars == <<vars, input>>

K == INSTANCE Keys
E == INSTANCE Entitlements
T == INSTANCE Timestamps
S == INSTANCE Setup

ASSUME KeyAssumption ==
  /\ ChecksumLen \in Nat /\ ChecksumLen >= 2 /\ MaxKeyBytes \in Nat
  /\ KeyData \subseteq Seq(0 .. K!Base - 1) /\ Typings \subseteq Seq(K!Characters)

\* As 2^63 - 1 and 2^53 do: a float has the least integer, but not the largest.
ASSUME EntitlementAssumption ==
  /\ MaxInt \in Nat \ {0} /\ MaxExact \in Nat
  /\ MaxExact > 2 /\ MaxExact % 2 = 0
  /\ \E u \in E!Ulps : 2 * u \in E!Ulps /\ 2 * (MaxInt + 1) = u * MaxExact
  /\ Numbers \subseteq E!Signed
  /\ "seats" \in Names
  /\ \A c \in EntClaims \ {Absent, NotObject} :
       \E D \in SUBSET Names : c \in [D -> E!Signed]
  /\ \A D \in SUBSET Names :
       Absent \notin [D -> E!Values] /\ NotObject \notin [D -> E!Values]
  /\ Absent \notin E!Values

ASSUME StampAssumption ==
  /\ Dates \subseteq [y : Nat, mo : 1 .. 12] /\ Stamps \subseteq T!Fields
  /\ Malformed \notin T!Fields /\ Shifts \subseteq -1440 .. 1440

ASSUME HostAssumption ==
  /\ Absent \notin Seq(STRING) /\ Block \in Nat
  /\ \A h \in Hosts : /\ h[1].machineId \in {Absent} \cup Seq(STRING)
                      /\ h[2] \in Seq(S!Sources)

-----------------------------------------------------------------------------
SetupOf(config, machine) ==
  [config |-> config, machine |-> machine, new |-> S!New(config, machine, "config")]
Setups == {SetupOf(h[1], h[2]) : h \in Hosts}

Inputs ==
  \/ \E d \in KeyData : input = <<"key", d>>
  \/ \E t \in Typings : input = <<"spelling", t>>
  \/ \E v \in Numbers : input = <<"number", v>>
  \/ \E c \in EntClaims : input = <<"claim", c>>
  \/ \E d \in Dates : input = <<"date", d>>
  \/ \E t \in Stamps : input = <<"time", t>>
  \/ \E s \in Setups : input = <<"setup", s>>

Of(kind) == input[1] = kind

\* The pair watched while the input is another one.
Resting == CHOOSE w \in Watched : TRUE

PureInit ==
  /\ Init
  /\ \/ input = <<"chain">>
     \/ <<chain, token>> = Resting /\ Inputs
PureNext ==
  /\ UNCHANGED input
  /\ IF Of("chain") THEN Next \/ Done ELSE UNCHANGED vars
PureSpec == PureInit /\ [][PureNext]_pureVars

-----------------------------------------------------------------------------
(* Properties *)

\* A typo in a key is caught, but for those the checksum cannot see.
Typos == Of("key") => K!TyposCaught(input[2], ChecksumLen)
\* A key typed again finds the licence it was activated as.
Spellings == Of("spelling") => \A again \in Typings : K!SpellingsFound(input[2], again)
\* A bad entitlement reads as none, and costs that entitlement alone.
BadValues == Of("claim") => \A k \in Names : E!EachAlone(input[2], k)
\* A limit is what was signed, or nothing.
Limits == Of("number") => E!LimitsExact(input[2])
\* The days of a timestamp follow the calendar.
Calendar == Of("date") => T!CalendarFollowed(input[2].y, input[2].mo)
\* One instant has one reading in every zone up to a day away.
Zones == Of("time") => \A m \in Shifts : T!ZonesAgree(input[2], m)
\* An install has a machine ID of its own: another AppID's differs if they share
\* a cache file, and another machine's does, unless the raw IDs are the same but
\* for zero bytes at the end.
InstallsApart == Of("setup") => \A other \in Setups :
  S!SharedFileTellsApart(input[2], other) /\ S!MachinesTellApart(input[2], other)
=============================================================================
