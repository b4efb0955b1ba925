----------------------------- MODULE MCPipeline -----------------------------
(***************************************************************************)
(* The instance that TLC checks: two assets that share a data flow, a seed *)
(* of four patterns, and a catalogue of eight raw entries, of which one is *)
(* a seed pattern that has been deprecated and one is listed twice.        *)
(***************************************************************************)
EXTENDS Pipeline

Capec94 == <<"CAPEC", "-", "9", "4">>
Capec151 == <<"CAPEC", "-", "15", "1">>
Cwe306 == <<"CWE", "-", "30", "6">>
Cwe6 == <<"CWE", "-", "6">>
T1078 == <<"ATT&CK", "-", "T1078">>
Capec1 == <<"CAPEC", "-", "1">>
Stride1 == <<"STRIDE", "-", "1">>

Sim(lock, cloud) == [a \in {"lock", "cloud"} |-> IF a = "lock" THEN lock ELSE cloud]
Raw(pid, hint, n, tags, form, lock, cloud) ==
    [pid |-> pid, source |-> Head(pid), hint |-> hint,
     hits |-> [c \in Stride |-> IF c = hint THEN n ELSE 0],
     tags |-> tags, form |-> form, sim |-> Sim(lock, cloud)]

MCSeedData == <<
    Raw(Capec94, "Tampering", 0, {}, "good", 30, 20),
    Raw(T1078, "Spoofing", 0, {}, "good", 50, 60),
    Raw(Capec1, "Tampering", 0, {}, "good", 25, 15),
    Raw(Stride1, "InformationDisclosure", 0, {}, "good", 10, 10) >>

MCFullData == <<
    Raw(Capec94, "Tampering", 2, {"wireless"}, "good", 31, 21),
    Raw(Capec151, "Spoofing", 3, {"wireless", "web"}, "good", 55, 40),
    Raw(Cwe306, "ElevationOfPrivilege", 2, {"hardware"}, "good", 56, 55),
    Raw(Cwe6, "Tampering", 1, {}, "good", 35, 45),
    Raw(T1078, "Spoofing", 4, {"web"}, "ics", 50, 60),
    Raw(T1078, "Tampering", 4, {}, "good", 90, 90),
    Raw(Stride1, "InformationDisclosure", 0, {}, "good", 10, 10),
    Raw(Capec1, "Spoofing", 9, {}, "deprecated", 99, 99) >>

Lock == [type |-> {"embedded"}, interfaces |-> {"wireless"}, trust_zone |-> "internal",
         flows |-> {"unlock"}, protects |-> {"authenticity", "integrity"},
         tags |-> {"wireless"}]
Cloud == [type |-> {"network"}, interfaces |-> {"http"}, trust_zone |-> "IT",
          flows |-> {"unlock"}, protects |-> {"confidentiality"}, tags |-> {"web"}]
Panel == [type |-> {}, interfaces |-> {"IO"}, trust_zone |-> "IT",
          flows |-> {}, protects |-> Attributes, tags |-> {}]

MCAssetOrder == <<"lock", "cloud">>
MCInputs == { [a \in {"lock", "cloud"} |-> IF a = "lock" THEN Lock ELSE Cloud],
              [a \in {"lock", "cloud"} |-> IF a = "lock" THEN Lock ELSE Panel] }
MCInitialKbs == { EmptyKb, SeedEntries }
=============================================================================
