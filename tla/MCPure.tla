------------------------------- MODULE MCPure -------------------------------
(* Bounded inputs for the pure parts, around every boundary the code has. *)
EXTENDS MCChain, Pure

SomeKeyData == UNION {[1 .. n -> 0 .. 31] : n \in 0 .. 2}

Kinds == {"A", "a", "O", "0", "l", "1", "-", " ", "sharp s", "S", "e acute"}
SomeTypings == UNION {[1 .. n -> Kinds] : n \in 0 .. 2}

SomeNames == {"pro", "seats"}
SomeNumbers == [kind : {"int"}, n : -40 .. 40] \cup [kind : {"float"}, n : -100 .. 100]
                 \cup [kind : {"bool"}, n : {0, 1}] \cup [kind : {"text"}, n : {0}]
AtBounds == {v \in SomeNumbers : v.n \in {-2, 0, 1, 31, 32, 62, 63, 64}}
SomeClaims == {Absent, NotObject} \cup [{"pro", "seats"} -> AtBounds]
                \cup [{"pro"} -> SomeNumbers]

Years == {0, 1, 4, 100, 399, 400, 1600, 1899, 1900, 1969, 1970, 1972, 1999, 2000,
          2023, 2024, 2099, 2100, 9999}
SomeDates == [y : Years, mo : 1 .. 12]
SomeStamps ==
  [y : {0, 1970, 2023, 2024}, mo : {1, 2, 3, 12, 13}, d : {1, 28, 29, 31},
   h : {0, 12, 23}, mi : {0, 59}, sec : {0, 60}, sign : {-1, 1},
   oh : {0, 5}, om : {0, 30}]
SomeShifts == {-1440, -90, -30, 0, 45, 720, 1440}

ProjectKey(id, full, check) == [id |-> id, full |-> full, check |-> check]
AppIds == {<<"pk", e, ProjectKey(id, TRUE, "valid")>> :
             e \in {"live", "test", "prod"}, id \in {1, 2}}
            \cup {<<"pk", "live", ProjectKey(1, full, check)>> :
                    full \in BOOLEAN, check \in {"invalid", "panic"}}
            \cup {<<"pk", "live", ProjectKey(1, FALSE, "valid")>>, <<"pk", "live">>}
Raws == {Absent, <<>>, <<" ">>, <<"x">>, <<"x", " ">>, <<"x", "0">>, <<"x", "y", "x">>}
Configs == [appId : AppIds, machineId : Raws, machineName : {Absent, ""},
            baseUrl : {Absent}, cachePath : {Absent, <<"mine">>}, timeout : {Absent}]
Readings == {Absent} \cup
  {<<S!Line(mine, v)>> : mine \in BOOLEAN, v \in {<<>>, <<" ">>, <<" ", "x">>, <<"y">>}}
Machines == {<<>>} \cup [1 .. 2 -> Readings]
\* The AppIDs vary on two machines, and the machines under one AppID.
OneApp == {c \in Configs : /\ c.appId = <<"pk", "live", ProjectKey(1, TRUE, "valid")>>
                           /\ c.machineName = Absent /\ c.cachePath = Absent}
SomeHosts == (Configs \X {<<>>, << <<S!Line(TRUE, <<"y">>)>> >>})
               \cup (OneApp \X Machines)
=============================================================================
