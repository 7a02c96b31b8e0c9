--------------------------- MODULE StartupProofs ---------------------------
(***************************************************************************)
(* For every set of configurations, every target and any number of changes *)
(* to it: a run starts with a configuration its backend can work with, and *)
(* `auto` comes to run the right backend.                                  *)
(***************************************************************************)
EXTENDS Startup, TLAPS

BeforeDetection == {"configure", "privilege", "select", "probeNft"}

\* Who detects tools, and for which backend.
StageInv ==
  /\ pc \notin {"configure", "failed"} => Valid(cfg) /\ (cfg.kind = "ssh" => cfg.sshPort # 0)
  /\ pc \notin {"configure", "privilege", "failed"} => Privileged
  /\ pc \in BeforeDetection => tools = NoTools
  /\ pc \in Detecting <=> detecting # "none"
  /\ pc \in BeforeDetection \cup {"choose"} => chosen = "none"
  /\ pc \in {"probeNft", "choose"} => cfg.backend = "auto"
  /\ detecting = "probe" => chosen = "none" /\ cfg.backend = "auto"
  /\ detecting = "run" => chosen = "iptables" /\ cfg.backend \in {"auto", "iptables"}
  /\ pc = "running" => chosen = cfg.backend \/ (cfg.backend = "auto" /\ chosen # "none")
  /\ pc \in BeforeDetection \cup {"choose"} => ~emptyWarned

LegacyTools(t) == t.legacy \/ t.iptables = "legacy"

\* What is known of a target that nobody has changed since the probes: the tools that
\* were found show its rules, and once iptables is chosen there are rules to see,
\* unless it was chosen for want of nft.
RulesInv ==
  ~moved =>
    /\ pc = "save" => target.iptables = "legacy"
    /\ tools = NoTools \/ tools.rules = target.legacyRules
    /\ chosen = "iptables" /\ cfg.backend = "auto" /\ nftAvailable => target.legacyRules

\* ... and what is known if no command failed without need.
QuietInv ==
  ~moved /\ ~failures =>
    /\ pc = "legacySave" => target.legacy
    /\ pc = "version" => ~target.legacy
    /\ pc = "save" => ~target.legacy /\ target.iptables = "legacy"
    /\ pc \in Detecting \cup {"choose"} /\ cfg.backend = "auto" => (nftAvailable <=> target.nft)
    /\ pc = "choose" => (tools # NoTools <=> LegacyTools(target))
    /\ detecting = "run" /\ cfg.backend = "auto" => Best(target) = "iptables"
    /\ pc = "running" /\ cfg.backend = "auto" => chosen = Best(target)
    /\ pc = "failed" /\ cfg.backend = "auto" /\ Admitted => chosen = "none" /\ Best(target) = "none"

----------------------------------------------------------------------------
LEMMA DefaultNumber ==
  ASSUME NEW value \in Int, NEW default \in Int
  PROVE  Default(value, 0, default) \in Int
  BY DEF Default

LEMMA Numbers ==
  ASSUME NEW c \in ConfigFields
  PROVE  c.sshPort \in Int /\ c.timeout \in Int /\ c.maxEvents \in Int /\ c.burst \in Int
  BY DEF ConfigFields

LEMMA NumberSet ==
  ASSUME NEW c \in ConfigFields, NEW v \in Int
  PROVE  /\ [c EXCEPT !.sshPort = v] \in ConfigFields
         /\ [c EXCEPT !.timeout = v] \in ConfigFields
         /\ [c EXCEPT !.maxEvents = v] \in ConfigFields
         /\ [c EXCEPT !.burst = v] \in ConfigFields
<1>1. [c EXCEPT !.sshPort = v] \in ConfigFields
  BY Zenon DEF ConfigFields
<1>2. [c EXCEPT !.timeout = v] \in ConfigFields
  BY Zenon DEF ConfigFields
<1>3. [c EXCEPT !.maxEvents = v] \in ConfigFields
  BY Zenon DEF ConfigFields
<1>4. [c EXCEPT !.burst = v] \in ConfigFields
  BY Zenon DEF ConfigFields
<1> QED
  BY <1>1, <1>2, <1>3, <1>4

\* Completing a configuration keeps the types of its fields.
LEMMA NormalizedType ==
  ASSUME NEW c \in ConfigFields
  PROVE  Normalized(c) \in ConfigFields
<1> DEFINE kind == Default(c.kind, "", "local")
           c1 == [c EXCEPT !.kind = kind]
           c2 == [c1 EXCEPT !.sshPort = IF kind = "ssh" THEN Default(@, 0, 22) ELSE @]
           c3 == [c2 EXCEPT !.timeout = Default(@, 0, 30)]
           c4 == [c3 EXCEPT !.backend = Default(@, "", "auto")]
           c5 == [c4 EXCEPT !.mode = Default(@, "", "listen")]
           c6 == [c5 EXCEPT !.maxEvents = Default(@, 0, 200)]
           c7 == [c6 EXCEPT !.traceLimit = Default(@, "", "valid")]
           c8 == [c7 EXCEPT !.burst = Default(@, 0, 20)]
<1>1. c1 \in ConfigFields
  BY DEF Default, ConfigFields
<1> HIDE DEF c1
<1>2. c2 \in ConfigFields
  <2>1. (IF kind = "ssh" THEN Default(c1.sshPort, 0, 22) ELSE c1.sshPort) \in Int
    <3>1. c1.sshPort \in Int
      BY <1>1, Numbers
    <3>2. 22 \in Int
      OBVIOUS
    <3>3. Default(c1.sshPort, 0, 22) \in Int
      BY Zenon, <3>1, <3>2, DefaultNumber
    <3> QED
      BY <3>1, <3>3
  <2> QED
    BY <1>1, <2>1, NumberSet
<1> HIDE DEF c2
<1>3. c3 \in ConfigFields
  <2>1. Default(c2.timeout, 0, 30) \in Int
    <3>1. c2.timeout \in Int
      BY <1>2, Numbers
    <3>2. 30 \in Int
      OBVIOUS
    <3> QED
      BY Zenon, <3>1, <3>2, DefaultNumber
  <2> QED
    BY <1>2, <2>1, NumberSet
<1> HIDE DEF c3
<1>4. c4 \in ConfigFields
  BY <1>3 DEF Default, ConfigFields
<1> HIDE DEF c4
<1>5. c5 \in ConfigFields
  BY <1>4 DEF Default, ConfigFields
<1> HIDE DEF c5
<1>6. c6 \in ConfigFields
  <2>1. Default(c5.maxEvents, 0, 200) \in Int
    <3>1. c5.maxEvents \in Int
      BY <1>5, Numbers
    <3>2. 200 \in Int
      OBVIOUS
    <3> QED
      BY Zenon, <3>1, <3>2, DefaultNumber
  <2> QED
    BY <1>5, <2>1, NumberSet
<1> HIDE DEF c6
<1>7. c7 \in ConfigFields
  BY <1>6 DEF Default, ConfigFields
<1> HIDE DEF c7
<1>8. c8 \in ConfigFields
  <2>1. Default(c7.burst, 0, 20) \in Int
    <3>1. c7.burst \in Int
      BY <1>7, Numbers
    <3>2. 20 \in Int
      OBVIOUS
    <3> QED
      BY Zenon, <3>1, <3>2, DefaultNumber
  <2> QED
    BY <1>7, <2>1, NumberSet
<1>9. Normalized(c) = c8
  BY DEF Normalized, c1, c2, c3, c4, c5, c6, c7
<1> QED
  BY <1>8, <1>9

\* An ssh target has a port then.
LEMMA NormalizedPort ==
  ASSUME NEW c \in ConfigFields, Normalized(c).kind = "ssh"
  PROVE  Normalized(c).sshPort # 0
<1>1. Normalized(c).kind = Default(c.kind, "", "local")
  BY DEF Normalized, ConfigFields
<1>2. Normalized(c).sshPort = IF Default(c.kind, "", "local") = "ssh"
                              THEN Default(c.sshPort, 0, 22) ELSE c.sshPort
  BY DEF Normalized, ConfigFields
<1>3. c.sshPort \in Int
  BY Numbers
<1>4. Default(c.sshPort, 0, 22) # 0
  BY <1>3 DEF Default
<1> QED
  BY <1>1, <1>2, <1>4

LEMMA ToolsType ==
  ASSUME NEW t \in Targets, NEW k \in {"iptables-legacy", "iptables"},
         NEW r \in {t.legacyRules, t.nftRules}
  PROVE  NoTools \in Tools /\ [command |-> k, rules |-> r] \in Tools
  BY DEF Tools, NoTools, Targets

LEMMA TargetType ==
  ASSUME TargetChanges, target \in Targets
  PROVE  target' \in Targets
<1>1. ASSUME NEW field \in {"nft", "nftRules", "legacy", "legacyRules"},
             target' = [target EXCEPT ![field] = ~@]
      PROVE  target' \in Targets
  BY <1>1 DEF Targets
<1>2. ASSUME NEW kind \in {"absent", "nf_tables", "legacy"},
             target' = [target EXCEPT !.iptables = kind]
      PROVE  target' \in Targets
  BY <1>2 DEF Targets
<1> QED
  BY <1>1, <1>2 DEF TargetChanges

\* Who we are on the target does not change.
LEMMA TargetRights ==
  ASSUME TargetChanges, target \in Targets
  PROVE  target'.root = target.root /\ target'.sudo = target.sudo
<1>1. ASSUME NEW field \in {"nft", "nftRules", "legacy", "legacyRules"},
             target' = [target EXCEPT ![field] = ~@]
      PROVE  target'.root = target.root /\ target'.sudo = target.sudo
  BY <1>1 DEF Targets
<1>2. ASSUME NEW kind, target' = [target EXCEPT !.iptables = kind]
      PROVE  target'.root = target.root /\ target'.sudo = target.sudo
  BY <1>2 DEF Targets
<1> QED
  BY <1>1, <1>2 DEF TargetChanges

\* Every variable keeps its type.
LEMMA TypeStep == StartTypeOK /\ StageInv /\ [Next]_vars => StartTypeOK'
<1> SUFFICES ASSUME StartTypeOK, StageInv, [Next]_vars PROVE StartTypeOK'
  OBVIOUS
<1> USE ChangesAssumption DEF StartTypeOK, probeVars, Detecting, Shell
<1>1. CASE Configure
  BY <1>1, NormalizedType DEF Configure
<1>2. CASE CheckPrivilege
  BY <1>2 DEF CheckPrivilege
<1>3. CASE SelectBackend
  <2>1. UNCHANGED <<cfg, target, nftAvailable, tools, moved, emptyWarned, changes, failures>>
    BY <1>3 DEF SelectBackend
  <2>2. /\ pc' \in {"probeNft", "running", "legacyVersion"} /\ detecting' \in {detecting, "run"}
        /\ chosen' \in {chosen, "nft", "iptables"}
    <3>1. pc = "select" /\ (cfg.backend = "auto" \/ Enter(cfg.backend))
      BY <1>3 DEF SelectBackend
    <3>2. cfg.backend \in {"auto", "nft", "iptables"}
      BY <3>1 DEF StageInv, Valid
    <3> QED
      BY <1>3, <3>2 DEF SelectBackend, Enter
  <2> QED
    BY <2>1, <2>2
<1>4. CASE ProbeNft
  BY <1>4 DEF ProbeNft
<1>5. CASE LegacyVersion
  BY <1>5 DEF LegacyVersion
<1>6. ASSUME NEW found \in Tools, Detected(found)
      PROVE  /\ pc' \in {"choose", "running", "failed"} /\ detecting' = "none"
             /\ tools' \in Tools /\ emptyWarned' \in BOOLEAN
  BY <1>6 DEF Detected
<1>7. CASE LegacySave
  <2>1. PICK ok \in BOOLEAN :
          /\ Shell(target.legacy, ok)
          /\ Detected(IF ok THEN [command |-> "iptables-legacy", rules |-> target.legacyRules]
                            ELSE NoTools)
    BY <1>7 DEF LegacySave
  <2> QED
    BY <1>6, <1>7, <2>1, ToolsType DEF LegacySave
<1>8. CASE DefaultVersion
  <2>1. NoTools \in Tools
    BY DEF Tools
  <2>2. PICK ok \in BOOLEAN :
          /\ Shell(target.iptables # "absent", ok)
          /\ IF ok /\ target.iptables = "legacy"
             THEN pc' = "save" /\ UNCHANGED <<tools, detecting, emptyWarned>>
             ELSE Detected(NoTools)
    BY <1>8 DEF DefaultVersion
  <2> QED
    BY <1>6, <1>8, <2>1, <2>2 DEF DefaultVersion
<1>9. CASE DefaultSave
  <2>1. PICK ok \in BOOLEAN :
          /\ Shell(target.iptables # "absent", ok)
          /\ Detected(IF ok THEN [command |-> "iptables",
                                  rules |-> IF target.iptables = "legacy" THEN target.legacyRules
                                                                          ELSE target.nftRules]
                            ELSE NoTools)
    BY <1>9 DEF DefaultSave
  <2> QED
    BY <1>6, <1>9, <2>1, ToolsType DEF DefaultSave
<1>10. CASE Choose
  BY <1>10 DEF Choose, Enter, NoBackend
<1>11. CASE TargetChanges
  BY <1>11, TargetType DEF TargetChanges
<1>12. CASE UNCHANGED vars
  BY <1>12 DEF vars
<1> QED
  BY <1>1, <1>2, <1>3, <1>4, <1>5, <1>7, <1>8, <1>9, <1>10, <1>11, <1>12
  DEF Next, Detection, Terminated

LEMMA StageStep == StartTypeOK /\ StageInv /\ [Next]_vars => StageInv'
<1> SUFFICES ASSUME StartTypeOK, StageInv, [Next]_vars PROVE StageInv'
  OBVIOUS
<1> USE DEF StageInv, probeVars, Detecting, BeforeDetection, Shell, Privileged
<1>0. Valid(cfg) => cfg.backend \in {"auto", "nft", "iptables"}
  BY DEF Valid
<1>1. CASE Configure
  <2>1. pc' \in {"privilege", "failed"} /\ (pc' # "failed" => Valid(cfg'))
    BY <1>1 DEF Configure
  <2>2. cfg'.kind = "ssh" => cfg'.sshPort # 0
    BY <1>1, NormalizedPort DEF Configure, StartTypeOK
  <2> QED
    BY <1>1, <2>1, <2>2 DEF Configure
<1>2. CASE CheckPrivilege
  <2>1. pc' \in {"select", "failed"} /\ (pc' = "select" => Privileged)
    BY <1>2 DEF CheckPrivilege
  <2> QED
    BY <1>2, <2>1 DEF CheckPrivilege
<1>3. CASE SelectBackend
  <2>1. pc = "select" /\ Valid(cfg) /\ chosen = "none" /\ ~emptyWarned /\ detecting = "none"
        /\ UNCHANGED <<cfg, target, tools, emptyWarned>>
    BY <1>3 DEF SelectBackend
  <2>2. CASE cfg.backend = "auto"
    BY <1>3, <2>1, <2>2 DEF SelectBackend
  <2>3. CASE cfg.backend = "nft"
    <3>1. pc' = "running" /\ chosen' = "nft" /\ detecting' = detecting
      BY <1>3, <2>3 DEF SelectBackend, Enter
    <3> QED
      BY <2>1, <2>3, <3>1
  <2>4. CASE cfg.backend = "iptables"
    <3>1. pc' = "legacyVersion" /\ chosen' = "iptables" /\ detecting' = "run"
      BY <1>3, <2>4 DEF SelectBackend, Enter
    <3> QED
      BY <2>1, <2>4, <3>1
  <2> QED
    BY <1>0, <2>1, <2>2, <2>3, <2>4
<1>4. CASE ProbeNft
  <2>1. /\ pc = "probeNft" /\ pc' = "legacyVersion" /\ detecting' = "probe"
        /\ UNCHANGED <<cfg, target, chosen, emptyWarned>>
    BY <1>4 DEF ProbeNft
  <2> QED
    BY <2>1
<1>5. CASE LegacyVersion
  <2>1. /\ pc = "legacyVersion" /\ pc' \in {"legacySave", "version"}
        /\ UNCHANGED <<cfg, target, detecting, chosen, emptyWarned>>
    BY <1>5 DEF LegacyVersion
  <2> QED
    BY <2>1
<1>6. ASSUME NEW found, Detected(found), pc \in Detecting, UNCHANGED <<cfg, target, chosen>>
      PROVE  StageInv'
  <2>1. detecting' = "none" /\ detecting \in {"probe", "run"} /\ Valid(cfg)
    BY <1>6 DEF Detected, StartTypeOK
  <2>2. CASE detecting = "probe"
    <3>1. pc' = "choose" /\ ~emptyWarned'
      BY <1>6, <2>2 DEF Detected
    <3> QED
      BY <1>6, <2>1, <2>2, <3>1
  <2>3. CASE detecting = "run"
    <3>1. pc' \in {"running", "failed"}
      BY <1>6, <2>3 DEF Detected
    <3> QED
      BY <1>6, <2>1, <2>3, <3>1
  <2> QED
    BY <2>1, <2>2, <2>3
<1>7. CASE LegacySave
  BY <1>6, <1>7 DEF LegacySave
<1>8. CASE DefaultVersion
  <2>1. CASE pc' = "save" /\ UNCHANGED <<tools, detecting, emptyWarned>>
    BY <1>8, <2>1 DEF DefaultVersion
  <2>2. CASE Detected(NoTools)
    BY <1>6, <1>8, <2>2 DEF DefaultVersion
  <2> QED
    BY <1>8, <2>1, <2>2 DEF DefaultVersion
<1>9. CASE DefaultSave
  BY <1>6, <1>9 DEF DefaultSave
<1>10. CASE Choose
  <2>1. /\ pc = "choose" /\ chosen = "none" /\ cfg.backend = "auto" /\ Valid(cfg)
        /\ detecting = "none" /\ UNCHANGED <<cfg, target, emptyWarned>>
    BY <1>10 DEF Choose
  <2>2. CASE Enter("iptables")
    BY <2>1, <2>2 DEF Enter
  <2>3. CASE Enter("nft")
    BY <2>1, <2>3 DEF Enter
  <2>4. CASE NoBackend
    BY <2>1, <2>4 DEF NoBackend
  <2> QED
    BY <1>10, <2>2, <2>3, <2>4 DEF Choose
<1>11. CASE TargetChanges
  <2>1. target'.root = target.root /\ target'.sudo = target.sudo
    BY <1>11, TargetRights DEF StartTypeOK
  <2> QED
    BY <1>11, <2>1 DEF TargetChanges
<1>12. CASE UNCHANGED vars
  BY <1>12 DEF vars
<1> QED
  BY <1>1, <1>2, <1>3, <1>4, <1>5, <1>7, <1>8, <1>9, <1>10, <1>11, <1>12
  DEF Next, Detection, Terminated

LEMMA StageInvariant == Spec => [](StartTypeOK /\ StageInv)
<1>1. Init => StartTypeOK
  <2> SUFFICES ASSUME Init PROVE StartTypeOK
    OBVIOUS
  <2>1. cfg \in ConfigFields /\ target \in Targets
    BY ConfigsAssumption DEF Init
  <2>2. tools \in Tools
    BY DEF Init, Tools
  <2>3. changes \in 0..MaxChanges
    BY ChangesAssumption DEF Init
  <2> QED
    BY <2>1, <2>2, <2>3 DEF Init, StartTypeOK
<1>2. Init => StageInv
  BY DEF Init, StageInv, Detecting, BeforeDetection
<1>3. (StartTypeOK /\ StageInv) /\ [Next]_vars => (StartTypeOK /\ StageInv)'
  BY TypeStep, StageStep
<1> QED
  BY <1>1, <1>2, <1>3, PTL DEF Spec

\* Every behaviour is well typed.
THEOREM StartTypeCorrect == Spec => []StartTypeOK
  BY StageInvariant, PTL

\* types.go 185-223, run.go 36-105: a run starts only with a flow that can be
\* matched, as narrow as was asked, with the mode, the target and the limits that
\* TraceRun assumes, the right to change rules, and the backend that was asked for.
THEOREM RunsAsAsked == Spec => []ConfigFits
<1>1. StartTypeOK /\ StageInv => ConfigFits
  <2> SUFFICES ASSUME StartTypeOK, StageInv, pc = "running"
               PROVE  /\ cfg.flow # "bad" /\ (cfg.flow = "broad" => cfg.allowBroad)
                      /\ cfg.mode \in {"listen", "active"}
                      /\ cfg.kind = "local"
                         \/ (cfg.kind = "ssh" /\ cfg.hostGiven /\ cfg.sshPort # 0)
                      /\ cfg.maxEvents \in Nat \ {0} /\ cfg.timeout > 0
                      /\ cfg.traceLimit = "valid" /\ cfg.burst > 0
                      /\ Privileged
                      /\ chosen = cfg.backend
                         \/ (cfg.backend = "auto" /\ chosen \in {"nft", "iptables"})
    BY DEF ConfigFits
  <2>1. cfg.maxEvents \in Int /\ cfg.timeout \in Int /\ cfg.burst \in Int
    BY DEF StartTypeOK, ConfigFields
  <2>2. Valid(cfg) /\ (cfg.kind = "ssh" => cfg.sshPort # 0) /\ Privileged
    BY DEF StageInv
  <2>3. chosen = cfg.backend \/ (cfg.backend = "auto" /\ chosen \in {"nft", "iptables"})
    BY DEF StageInv, StartTypeOK
  <2> QED
    BY <2>1, <2>2, <2>3 DEF Valid, FlowValid, IsBroadPortMatch
<1> QED
  BY <1>1, StageInvariant, StartTypeCorrect, PTL

----------------------------------------------------------------------------
(* The right backend.                                                      *)

LEMMA RulesStep == StartTypeOK /\ StageInv /\ RulesInv /\ [Next]_vars => RulesInv'
<1> SUFFICES ASSUME StartTypeOK, StageInv, RulesInv, [Next]_vars, ~moved'
             PROVE  /\ pc' = "save" => target'.iptables = "legacy"
                    /\ tools' = NoTools \/ tools'.rules = target'.legacyRules
                    /\ chosen' = "iptables" /\ cfg'.backend = "auto" /\ nftAvailable'
                         => target'.legacyRules
  BY DEF RulesInv
<1> USE DEF probeVars, Detecting, BeforeDetection, Shell, RulesInv
<1>1. CASE Configure
  BY <1>1 DEF Configure, StageInv
<1>2. CASE CheckPrivilege
  BY <1>2 DEF CheckPrivilege, StageInv
<1>3. CASE SelectBackend
  <2>1. /\ UNCHANGED <<cfg, target, nftAvailable, tools, moved>>
        /\ pc = "select" /\ chosen = "none" /\ tools = NoTools
    BY <1>3 DEF SelectBackend, StageInv
  <2>2. CASE cfg.backend = "auto"
    <3>1. pc' = "probeNft" /\ chosen' = chosen
      BY <1>3, <2>2 DEF SelectBackend
    <3> QED
      BY <2>1, <3>1
  <2>3. CASE cfg.backend # "auto"
    <3>1. pc' # "save"
      BY <1>3, <2>3 DEF SelectBackend, Enter
    <3> QED
      BY <2>1, <2>3, <3>1
  <2> QED
    BY <2>2, <2>3
<1>4. CASE ProbeNft
  <2>1. pc = "probeNft" /\ chosen = "none" /\ tools = NoTools /\ pc' = "legacyVersion"
        /\ UNCHANGED <<chosen, tools>>
    BY <1>4 DEF ProbeNft, StageInv
  <2> QED
    BY <2>1
<1>5. CASE LegacyVersion
  BY <1>5 DEF LegacyVersion
<1>6. ASSUME NEW found, Detected(found), UNCHANGED <<cfg, target, moved, nftAvailable, chosen>>,
             found = NoTools \/ found.rules = target.legacyRules
      PROVE  /\ pc' # "save"
             /\ tools' = NoTools \/ tools'.rules = target'.legacyRules
             /\ chosen' = "iptables" /\ cfg'.backend = "auto" /\ nftAvailable'
                  => target'.legacyRules
  <2>1. pc' # "save" /\ tools' = found
    BY <1>6 DEF Detected
  <2> QED
    BY <1>6, <2>1
<1>7. CASE LegacySave
  <2>1. PICK found \in {NoTools, [command |-> "iptables-legacy", rules |-> target.legacyRules]} :
          Detected(found)
    BY <1>7 DEF LegacySave
  <2>2. UNCHANGED <<cfg, target, moved, nftAvailable, chosen>>
    BY <1>7 DEF LegacySave
  <2> QED
    BY <1>6, <2>1, <2>2
<1>8. CASE DefaultVersion
  <2>1. UNCHANGED <<cfg, target, moved, nftAvailable, chosen>>
    BY <1>8 DEF DefaultVersion
  <2>2. CASE Detected(NoTools)
    BY <1>6, <2>1, <2>2
  <2>3. CASE pc' = "save" /\ target.iptables = "legacy" /\ UNCHANGED <<tools, detecting, emptyWarned>>
    BY <2>1, <2>3
  <2> QED
    BY <1>8, <2>2, <2>3 DEF DefaultVersion
<1>9. CASE DefaultSave
  <2>1. UNCHANGED <<cfg, target, moved, nftAvailable, chosen>> /\ target.iptables = "legacy"
    BY <1>9 DEF DefaultSave
  <2>2. PICK found \in {NoTools, [command |-> "iptables", rules |-> target.legacyRules]} :
          Detected(found)
    BY <1>9, <2>1 DEF DefaultSave
  <2> QED
    BY <1>6, <2>1, <2>2
<1>10. CASE Choose
  <2>1. UNCHANGED <<cfg, target, moved, nftAvailable, tools>> /\ pc = "choose" /\ chosen = "none"
    BY <1>10 DEF Choose, StageInv
  <2>2. CASE tools.rules /\ Enter("iptables")
    <3>1. tools # NoTools
      BY <2>2 DEF NoTools
    <3> QED
      BY <2>1, <2>2, <3>1 DEF Enter
  <2>3. CASE Enter("nft")
    BY <1>10, <2>1, <2>3 DEF Enter, Choose, StageInv
  <2>4. CASE ~nftAvailable /\ Enter("iptables")
    BY <2>1, <2>4 DEF Enter
  <2>5. CASE NoBackend
    BY <1>10, <2>1, <2>5 DEF NoBackend, Choose
  <2> QED
    BY <1>10, <2>2, <2>3, <2>4, <2>5 DEF Choose
<1>11. CASE TargetChanges
  BY <1>11 DEF TargetChanges, StartTypeOK
<1>12. CASE UNCHANGED vars
  BY <1>12 DEF vars
<1> QED
  BY <1>1, <1>2, <1>3, <1>4, <1>5, <1>7, <1>8, <1>9, <1>10, <1>11, <1>12
  DEF Next, Detection, Terminated

LEMMA RulesInvariant == Spec => []RulesInv
<1>1. Init => RulesInv
  BY DEF Init, RulesInv
<1>2. StartTypeOK /\ StageInv /\ RulesInv /\ [Next]_vars => RulesInv'
  BY RulesStep
<1> QED
  BY <1>1, <1>2, StageInvariant, StartTypeCorrect, PTL DEF Spec

\* run.go 120-128, iptables.go 28-30: whatever commands failed, and whatever others
\* did to the target before the probes, `auto` passes over an nft whose probe
\* succeeded only for iptables rules that are there when the run starts, unless the
\* target was changed after the probes had begun.
THEOREM NftYields == Spec => []NftYieldsToRules
<1>1. StartTypeOK /\ RulesInv => NftYieldsToRules
  BY DEF StartTypeOK, RulesInv, NftYieldsToRules
<1> QED
  BY <1>1, RulesInvariant, StartTypeCorrect, PTL

\* A detection that ends without an avoidable failure has found the tools there are.
LEMMA DetectedQuietly ==
  ASSUME StartTypeOK, StageInv, QuietInv, pc \in Detecting, ~moved, ~failures,
         NEW found, Detected(found), UNCHANGED <<cfg, target, moved, failures, nftAvailable, chosen>>,
         found # NoTools <=> LegacyTools(target)
  PROVE  QuietInv'
<1> USE DEF StageInv, Detecting, BeforeDetection, QuietInv
<1>1. detecting \in {"probe", "run"} /\ detecting' = "none" /\ tools' = found
  BY DEF Detected, StartTypeOK
<1>2. CASE detecting = "probe"
  <2>1. pc' = "choose"
    BY <1>2 DEF Detected
  <2>2. LegacyTools(target)' <=> LegacyTools(target)
    BY DEF LegacyTools
  <2> QED
    BY <1>1, <1>2, <2>1, <2>2
<1>3. CASE detecting = "run"
  <2>1. pc' = IF found # NoTools THEN "running" ELSE "failed"
    BY <1>3 DEF Detected
  <2>2. Best(target)' = Best(target)
    BY DEF Best
  <2>3. cfg.backend = "auto" => Best(target) = "iptables" /\ LegacyTools(target)
    BY <1>3 DEF Best, LegacyTools
  <2>4. chosen' = "iptables"
    BY <1>3
  <2> QED
    BY <1>1, <2>1, <2>2, <2>3, <2>4
<1> QED
  BY <1>1, <1>2, <1>3

LEMMA QuietStep ==
  StartTypeOK /\ StageInv /\ RulesInv /\ QuietInv /\ [Next]_vars => QuietInv'
<1> SUFFICES ASSUME StartTypeOK, StageInv, RulesInv, QuietInv, [Next]_vars, ~moved', ~failures'
             PROVE  QuietInv'
  BY DEF QuietInv
<1> USE DEF probeVars, Detecting, BeforeDetection, Shell
<1>0. target.legacy \in BOOLEAN /\ target.nft \in BOOLEAN /\ target.legacyRules \in BOOLEAN
  BY DEF StartTypeOK, Targets
<1>1. CASE Configure
  <2>1. /\ pc = "configure" /\ pc' \in {"privilege", "failed"}
        /\ detecting' = detecting /\ detecting = "none"
        /\ (pc' = "failed" => ~Valid(cfg'))
    BY <1>1 DEF Configure, StageInv
  <2> QED
    BY <2>1 DEF QuietInv, Admitted, Privileged
<1>2. CASE CheckPrivilege
  <2>1. /\ pc = "privilege" /\ pc' \in {"select", "failed"}
        /\ detecting' = detecting /\ detecting = "none" /\ UNCHANGED <<cfg, target>>
    BY <1>2 DEF CheckPrivilege, StageInv
  <2>2. pc' = "failed" => ~IF cfg.sudo THEN target.sudo ELSE target.root
    BY <1>2 DEF CheckPrivilege
  <2> QED
    BY <2>1, <2>2 DEF QuietInv, Admitted, Privileged
<1>3. CASE SelectBackend
  <2>1. pc = "select" /\ UNCHANGED <<cfg, target>> /\ detecting = "none"
    BY <1>3 DEF SelectBackend, StageInv
  <2>2. CASE cfg.backend = "auto"
    <3>1. pc' = "probeNft" /\ detecting' = "none"
      BY <1>3, <2>1, <2>2 DEF SelectBackend
    <3> QED
      BY <3>1 DEF QuietInv
  <2>3. CASE cfg.backend # "auto"
    <3>1. pc' \in {"running", "legacyVersion"} /\ cfg'.backend # "auto"
      BY <1>3, <2>1, <2>3 DEF SelectBackend, Enter
    <3> QED
      BY <3>1 DEF QuietInv
  <2> QED
    BY <2>2, <2>3
<1>4. CASE ProbeNft
  <2>1. pc' = "legacyVersion" /\ detecting' = "probe" /\ target' = target
    BY <1>4 DEF ProbeNft
  <2>2. nftAvailable' <=> target.nft
    BY <1>0, <1>4 DEF ProbeNft
  <2> QED
    BY <2>1, <2>2 DEF QuietInv
<1>5. CASE LegacyVersion
  <2>1. /\ pc = "legacyVersion" /\ UNCHANGED <<cfg, target, changes, probeVars, chosen>>
        /\ ~failures
    BY <1>5 DEF LegacyVersion, StartTypeOK
  <2>2. /\ pc' \in {"legacySave", "version"}
        /\ pc' = "legacySave" <=> target.legacy
    BY <1>0, <1>5 DEF LegacyVersion
  <2>3. Best(target)' = Best(target)
    BY <2>1 DEF Best
  <2> QED
    BY <2>1, <2>2, <2>3 DEF QuietInv
<1>7. CASE LegacySave
  <2>1. PICK ok \in BOOLEAN :
          /\ Shell(target.legacy, ok)
          /\ Detected(IF ok THEN [command |-> "iptables-legacy", rules |-> target.legacyRules]
                            ELSE NoTools)
    BY <1>7 DEF LegacySave
  <2>2. /\ pc = "legacySave" /\ UNCHANGED <<cfg, target, moved, nftAvailable, chosen>>
        /\ ~failures /\ failures' = failures
    BY <1>7, <2>1 DEF LegacySave, StartTypeOK
  <2>3. target.legacy
    BY <2>2 DEF QuietInv
  <2>4. ok = TRUE
    BY <2>1, <2>3
  <2>5. [command |-> "iptables-legacy", rules |-> target.legacyRules] # NoTools
    BY DEF NoTools
  <2> QED
    BY <2>1, <2>2, <2>3, <2>4, <2>5, DetectedQuietly DEF LegacyTools
<1>8. CASE DefaultVersion
  <2>1. PICK ok \in BOOLEAN :
          /\ Shell(target.iptables # "absent", ok)
          /\ IF ok /\ target.iptables = "legacy"
             THEN pc' = "save" /\ UNCHANGED <<tools, detecting, emptyWarned>>
             ELSE Detected(NoTools)
    BY <1>8 DEF DefaultVersion
  <2>2. /\ pc = "version" /\ UNCHANGED <<cfg, target, moved, nftAvailable, chosen>>
        /\ ~failures /\ failures' = failures
    BY <1>8, <2>1 DEF DefaultVersion, StartTypeOK
  <2>3. ~target.legacy
    BY <2>2 DEF QuietInv
  <2>4. CASE target.iptables = "legacy"
    <3>1. ok = TRUE
      BY <2>1, <2>2, <2>4
    <3>2. pc' = "save" /\ UNCHANGED <<tools, detecting, emptyWarned>>
      BY <2>1, <2>4, <3>1
    <3>3. Best(target)' = Best(target)
      BY <2>2 DEF Best
    <3> QED
      BY <2>2, <2>3, <2>4, <3>2, <3>3 DEF QuietInv
  <2>5. CASE target.iptables # "legacy"
    <3>1. Detected(NoTools)
      BY <2>1, <2>5
    <3>2. ~LegacyTools(target)
      BY <2>3, <2>5 DEF LegacyTools
    <3> QED
      BY <2>2, <3>1, <3>2, DetectedQuietly
  <2> QED
    BY <2>4, <2>5
<1>9. CASE DefaultSave
  <2>1. PICK ok \in BOOLEAN :
          /\ Shell(target.iptables # "absent", ok)
          /\ Detected(IF ok THEN [command |-> "iptables",
                                  rules |-> IF target.iptables = "legacy" THEN target.legacyRules
                                                                          ELSE target.nftRules]
                            ELSE NoTools)
    BY <1>9 DEF DefaultSave
  <2>2. /\ pc = "save" /\ UNCHANGED <<cfg, target, moved, nftAvailable, chosen>>
        /\ ~failures /\ failures' = failures
    BY <1>9, <2>1 DEF DefaultSave, StartTypeOK
  <2>3. target.iptables = "legacy"
    BY <2>2 DEF QuietInv
  <2>4. ok = TRUE
    BY <2>1, <2>2, <2>3
  <2>5. [command |-> "iptables", rules |-> target.legacyRules] # NoTools
    BY DEF NoTools
  <2> QED
    BY <2>1, <2>2, <2>3, <2>4, <2>5, DetectedQuietly DEF LegacyTools
<1>10. CASE Choose
  <2>1. /\ pc = "choose" /\ cfg.backend = "auto" /\ chosen = "none" /\ detecting = "none"
        /\ UNCHANGED <<cfg, target, nftAvailable, tools, moved, failures>>
        /\ ~moved /\ ~failures
    BY <1>10 DEF Choose, StageInv
  <2>2. /\ nftAvailable <=> target.nft
        /\ tools # NoTools <=> LegacyTools(target)
        /\ tools = NoTools \/ tools.rules = target.legacyRules
    BY <2>1 DEF QuietInv, RulesInv
  <2>3. Best(target)' = Best(target)
    BY <2>1 DEF Best
  <2>4. CASE tools.rules /\ Enter("iptables")
    <3>1. tools # NoTools
      BY <2>4 DEF NoTools
    <3>2. Best(target) = "iptables"
      BY <2>2, <2>4, <3>1 DEF Best, LegacyTools
    <3> QED
      BY <2>1, <2>2, <2>3, <2>4, <3>2 DEF Enter, QuietInv
  <2>5. CASE ~tools.rules /\ nftAvailable /\ Enter("nft")
    <3>1. Best(target) = "nft"
      BY <2>2, <2>5 DEF Best, LegacyTools
    <3> QED
      BY <2>1, <2>3, <2>5, <3>1 DEF Enter, QuietInv
  <2>6. CASE ~tools.rules /\ ~nftAvailable /\ tools # NoTools /\ Enter("iptables")
    <3>1. Best(target) = "iptables"
      BY <2>2, <2>6 DEF Best, LegacyTools
    <3> QED
      BY <2>1, <2>2, <2>3, <2>6, <3>1 DEF Enter, QuietInv
  <2>7. CASE ~nftAvailable /\ tools = NoTools /\ NoBackend
    <3>1. Best(target) = "none"
      BY <2>2, <2>7 DEF Best, LegacyTools
    <3> QED
      BY <2>1, <2>3, <2>7, <3>1 DEF NoBackend, QuietInv
  <2> QED
    BY <1>10, <2>4, <2>5, <2>6, <2>7 DEF Choose
<1>11. CASE TargetChanges
  BY <1>11 DEF TargetChanges, StartTypeOK
<1>12. CASE UNCHANGED vars
  BY <1>12 DEF vars, QuietInv, Best, LegacyTools, Admitted, Privileged
<1> QED
  BY <1>1, <1>2, <1>3, <1>4, <1>5, <1>7, <1>8, <1>9, <1>10, <1>11, <1>12
  DEF Next, Detection, Terminated

\* run.go 108-153: on a target that stays as it is, and commands that fail only
\* when they must, `auto` comes to run the right backend, and fails only if there
\* is none: the second detection never undoes the choice.
THEOREM AutoRunsTheBest == Spec => []AutoIsBest
<1>1. Init => QuietInv
  BY DEF Init, QuietInv, Detecting
<1>2. StartTypeOK /\ StageInv /\ RulesInv /\ QuietInv /\ [Next]_vars => QuietInv'
  BY QuietStep
<1>3. StageInv /\ QuietInv => AutoIsBest
  BY DEF StageInv, QuietInv, AutoIsBest
<1> QED
  BY <1>1, <1>2, <1>3, StageInvariant, RulesInvariant, PTL DEF Spec
=============================================================================
