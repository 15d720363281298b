-------------------------- MODULE InstallerProofs --------------------------
(***************************************************************************)
(* Theorems about Installer: for every state an earlier run can have left, *)
(* a failure or a kill at any command, and any edits meanwhile.            *)
(***************************************************************************)
EXTENDS Installer, TLAPS

-----------------------------------------------------------------------------
(* Types.                                                                  *)

LEMMA InitTypes == Init => TypeOK
<1> SUFFICES ASSUME Init PROVE TypeOK
    OBVIOUS
<1>1. PICK units, env \in {"absent", "old"}, data \in [Data -> Conditions] :
      /\ install = "old" => units = "old"
      /\ files = [f \in Files |-> IF f \in Data THEN data[f]
                                  ELSE IF f \in {"fan.service", "web.service"} THEN units ELSE env]
    BY DEF Init
<1>2. Conditions \subseteq Contents /\ {"absent", "old"} \subseteq Contents
    BY ConditionsAssumption DEF Contents
<1>3. files \in [Files -> Contents]
    BY <1>1, <1>2
<1>4. saved \in [Files -> Contents]
    BY <1>2 DEF Init
<1>5. {install, previous, failed} \subseteq Releases
    BY LeftoversAssumption DEF Init, Releases
<1>6. /\ active \in [Units -> BOOLEAN] /\ enabled \in [Units -> BOOLEAN]
      /\ was \in [active : BOOLEAN, enabled : BOOLEAN]
      /\ swapped \in BOOLEAN /\ backedUp \in BOOLEAN /\ complete \in BOOLEAN
    BY Zenon DEF Init
<1>7. before \in [code : Releases, files : [Files -> Contents],
                  active : [Units -> BOOLEAN], enabled : [Units -> BOOLEAN]]
    BY <1>3, <1>5, <1>6 DEF Init, Found
<1> QED
    BY <1>3, <1>4, <1>5, <1>6, <1>7 DEF Init, TypeOK

(* A step changes what its name says.                                      *)
LEMMA TypeStep ==
    ASSUME TypeOK, [Next]_vars
    PROVE  TypeOK'
<1> USE DEF TypeOK
<1>1. CASE Start
    <2>1. pc' = "stop" /\ UNCHANGED <<install, previous, failed, files, active, enabled,
                                      swapped, backedUp, complete, failedAt>>
        BY <1>1 DEF Start, At, dirs, services, flags
    <2>2. was' \in [active : BOOLEAN, enabled : BOOLEAN]
        BY <1>1, Zenon DEF Start, Units
    <2>3. saved' \in [Files -> Contents]
        BY <1>1 DEF Start, Contents
    <2>4. before' \in [code : Releases, files : [Files -> Contents],
                       active : [Units -> BOOLEAN], enabled : [Units -> BOOLEAN]]
        BY <1>1 DEF Start, Found
    <2> QED
        BY <2>1, <2>2, <2>3, <2>4 DEF Trapped
<1>2. CASE Refuse
    BY <1>2 DEF Refuse, At, dirs, services, flags
<1>3. CASE Stop \/ RestartServices \/ Flap \/ RbStop
    <2>1. active' \in [Units -> BOOLEAN]
        <3>1. CASE Stop
            <4>1. PICK running \in SUBSET {u \in Units : active[u]} :
                     active' = [u \in Units |-> u \in running]
                BY <3>1, Zenon DEF Stop
            <4> QED
                BY <4>1
        <3>2. CASE RestartServices
            BY <3>2, Zenon DEF RestartServices
        <3>3. CASE Flap
            <4>1. PICK u \in Units : active' = [active EXCEPT ![u] = ~active[u]]
                BY <3>3, Zenon DEF Flap
            <4>2. active \in [Units -> BOOLEAN]
                BY Zenon
            <4> QED
                BY <4>1, <4>2
        <3>4. CASE RbStop
            BY <3>4, Zenon DEF RbStop, Both
        <3> QED
            BY <1>3, <3>1, <3>2, <3>3, <3>4
    <2>2. pc' \in {"copyConfig", "self", "health", "disable", "quiet", "rbCode"}
        BY <1>3 DEF Stop, RestartServices, Flap, RbStop, At
    <2>3. UNCHANGED <<install, previous, failed, files, saved, enabled, was,
                      swapped, backedUp, complete, before, failedAt>>
        BY <1>3 DEF Stop, RestartServices, Flap, RbStop, dirs, flags
    <2> QED
        BY <2>1, <2>2, <2>3 DEF Trapped, BackingUp, InRollback
<1>4. CASE BackUp
    BY <1>4 DEF BackUp, At, dirs, services, Trapped, Files, Data
<1>41. ASSUME NEW f \in Data, NEW here, NEW next \in BackingUp, Copy(f, here, next)
       PROVE  TypeOK'
    <2>1. saved' \in [Files -> Contents]
        BY <1>41 DEF Copy, Files
    <2> QED
        BY <1>41, <2>1 DEF Copy, At, dirs, services, flags, Trapped
<1>42. {"config", "list", "auth"} \subseteq Data /\ {"copyList", "copyAuth", "backup"} \subseteq BackingUp
    BY DEF Data, BackingUp
<1>5. CASE PrepareConfig \/ PrepareAuth \/ PrepareList
    <2>1. files' \in [Files -> Contents] /\ pc' \in Files
        BY <1>5 DEF PrepareConfig, PrepareAuth, PrepareList, Prepare, At, SetFile, Contents,
           Files, Settings, Data
    <2> QED
        BY <1>5, <2>1 DEF PrepareConfig, PrepareAuth, PrepareList, Prepare, dirs, services, flags, Trapped
<1>6. ASSUME NEW f \in Files, NEW next \in Trapped, WriteSetting(f, next)
      PROVE  TypeOK'
    BY <1>6 DEF WriteSetting, At, SetFile, Contents, dirs, services, flags
<1>7. CASE ClearPrevious \/ MoveOld \/ MoveNew
    <2>1. {install', previous', failed'} \subseteq Releases
        BY <1>7 DEF ClearPrevious, MoveOld, MoveNew, Releases
    <2> QED
        BY <1>7, <2>1 DEF ClearPrevious, MoveOld, MoveNew, At, services, flags, Trapped
<1>8. CASE MarkSwapped \/ Complete
    BY <1>8 DEF MarkSwapped, Complete, At, dirs, services, Trapped, Files, Settings
<1>9. CASE Enable
    BY <1>9 DEF Enable, At, dirs, flags, Both, Trapped
<1>10. CASE UpdateSelf
    BY <1>10 DEF UpdateSelf, At, SetFile, Contents, Files, Data, dirs, services, flags, Trapped
<1>11. CASE Healthy
    BY <1>11 DEF Healthy, At, dirs, services, flags, Trapped
<1>12. CASE SettleEnabled \/ SettleActive
    <2>1. active' \in [Units -> BOOLEAN] /\ enabled' \in [Units -> BOOLEAN]
        BY <1>12 DEF SettleEnabled, SettleActive, Settle, Both
    <2> QED
        BY <1>12, <2>1 DEF SettleEnabled, SettleActive, Settle, At, dirs, flags, Trapped
<1>13. CASE Fail \/ Kill
    BY <1>13 DEF Fail, Kill, dirs, services, flags, InRollback
<1>14. CASE RbCode \/ RbMove \/ RbClean
    <2>1. {install', previous', failed'} \subseteq Releases
        BY <1>14 DEF RbCode, RbMove, RbClean, Releases
    <2> QED
        BY <1>14, <2>1 DEF RbCode, RbMove, RbClean, At, services, flags, InRollback
<1>15. CASE RbSettings \/ RbData
    <2>1. files' \in [Files -> Contents]
        BY <1>15 DEF RbSettings, RbData, Restore
    <2> QED
        BY <1>15, <2>1 DEF RbSettings, RbData, At, dirs, services, flags, InRollback
<1>16. CASE RbEnable
    <2>1. enabled' \in [Units -> BOOLEAN]
        BY <1>16, Zenon DEF RbEnable
    <2> QED
        BY <1>16, <2>1 DEF RbEnable, At, dirs, flags, InRollback
<1>17. CASE RbStart
    <2>1. active' \in [Units -> BOOLEAN]
        BY <1>17, Zenon DEF RbStart
    <2>2. saved' \in [Files -> Contents]
        BY <1>17 DEF RbStart, Contents
    <2> QED
        BY <1>17, <2>1, <2>2 DEF RbStart, At, dirs, flags
<1>18. CASE Edit
    <2>1. PICK f \in {"config", "list"} :
             /\ SetFile(f, "edited")
             /\ IF backedUp \/ saved[f] # "absent" THEN UNCHANGED before
                ELSE before' = [before EXCEPT !.files[f] = "edited"]
        BY <1>18, Zenon DEF Edit
    <2>2. files' \in [Files -> Contents]
        BY <2>1 DEF SetFile, Contents
    <2>3. before' \in [code : Releases, files : [Files -> Contents],
                       active : [Units -> BOOLEAN], enabled : [Units -> BOOLEAN]]
        BY <2>1 DEF Contents
    <2> QED
        BY <1>18, <2>2, <2>3 DEF Edit, dirs, services, flags
<1>19. CASE UNCHANGED vars
    BY <1>19 DEF vars, dirs, services, flags
<1>20. {"web.env", "fan.env", "fan.service", "web.service", "network.conf"} \subseteq Files
       /\ {"fan.env", "clear", "web.service", "network.conf", "enable"} \subseteq Trapped
    BY DEF Files, Settings, Trapped
<1> QED
    BY <1>1, <1>2, <1>3, <1>4, <1>41, <1>42, <1>5, <1>6, <1>7, <1>8, <1>9, <1>10, <1>11, <1>12,
       <1>13, <1>14, <1>15, <1>16, <1>17, <1>18, <1>19, <1>20
       DEF Next, Step, Deploy, Rollback

-----------------------------------------------------------------------------
(* Where the release is.                                                   *)

LEMMA CodeStep ==
    ASSUME TypeOK, CodeKnown, CodeSurvives, FoundKnown, [Next]_vars
    PROVE  CodeKnown' /\ CodeSurvives'
<1> USE DEF CodeKnown, CodeSurvives, Reached, InSwap
<1>1. CASE Start
    BY <1>1 DEF Start, At, Found, FoundKnown, dirs, flags, BeforeSwap, BackingUp, CodeBack, AfterSwap, AfterUnits
<1>2. CASE Refuse
    BY <1>2 DEF Refuse, At, dirs, flags, BeforeSwap, BackingUp, CodeBack, AfterSwap, AfterUnits
<1>3. ASSUME UNCHANGED <<install, previous, failed, swapped, failedAt>>,
             before'.code = before.code,
             \/ pc \in BeforeSwap /\ pc' \in BeforeSwap
             \/ pc \in AfterSwap /\ pc' \in AfterSwap
             \/ pc \in CodeBack /\ pc' \in CodeBack \ {"rbClean"}
             \/ pc = "rbStop" /\ pc' = "rbCode"
             \/ pc' = pc
      PROVE  CodeKnown' /\ CodeSurvives'
    BY <1>3 DEF BeforeSwap, BackingUp, AfterSwap, AfterUnits, CodeBack
<1>4. CASE \/ Stop \/ BackUp \/ PrepareConfig \/ PrepareAuth \/ PrepareList
           \/ Copy("config", "copyConfig", "copyList") \/ Copy("list", "copyList", "copyAuth")
           \/ Copy("auth", "copyAuth", "backup")
    BY <1>3, <1>4 DEF Stop, Copy, BackUp, PrepareConfig, PrepareAuth, PrepareList, Prepare, At,
       dirs, flags, BeforeSwap, BackingUp
<1>5. CASE \/ WriteSetting("web.env", "fan.env") \/ WriteSetting("fan.env", "clear")
           \/ WriteSetting("fan.service", "web.service")
           \/ WriteSetting("web.service", "network.conf") \/ WriteSetting("network.conf", "enable")
    BY <1>3, <1>5 DEF WriteSetting, At, dirs, flags, BeforeSwap, BackingUp, AfterSwap, AfterUnits
<1>6. CASE ClearPrevious
    BY <1>6 DEF ClearPrevious, At, flags, BeforeSwap, BackingUp, AfterSwap, AfterUnits, CodeBack
<1>7. CASE MoveOld
    BY <1>7 DEF MoveOld, At, flags, BeforeSwap, BackingUp, AfterSwap, AfterUnits, CodeBack
<1>8. CASE MoveNew
    BY <1>8 DEF MoveNew, At, flags, BeforeSwap, BackingUp, AfterSwap, AfterUnits, CodeBack
<1>9. CASE MarkSwapped
    BY <1>9 DEF MarkSwapped, At, dirs, BeforeSwap, BackingUp, AfterSwap, AfterUnits, CodeBack
<1>10. CASE Enable \/ RestartServices \/ UpdateSelf \/ Healthy \/ SettleEnabled \/ SettleActive \/ Complete
    BY <1>3, <1>10 DEF Enable, RestartServices, UpdateSelf, Healthy, SettleEnabled, SettleActive,
       Settle, Complete, At, dirs, flags, AfterSwap, AfterUnits
<1>11. CASE Fail
    BY <1>11 DEF Fail, dirs, flags, Trapped, Files, Settings, Data,
       BeforeSwap, BackingUp, AfterSwap, AfterUnits, CodeBack
<1>12. CASE Kill
    BY <1>12 DEF Kill, dirs, flags, BeforeSwap, BackingUp, AfterSwap, AfterUnits, CodeBack
<1>13. CASE RbStop \/ RbSettings \/ RbData \/ RbEnable \/ RbStart \/ Flap
    BY <1>3, <1>13 DEF RbStop, RbSettings, RbData, RbEnable, RbStart, Flap, At, dirs, flags, CodeBack
<1>14. CASE RbCode
    BY <1>14 DEF RbCode, flags, Trapped, Files, Settings, Data, BeforeSwap, BackingUp, AfterSwap, AfterUnits, CodeBack
<1>15. CASE RbMove
    BY <1>15 DEF RbMove, At, flags, BeforeSwap, BackingUp, AfterSwap, AfterUnits, CodeBack
<1>16. CASE RbClean
    BY <1>16 DEF RbClean, At, flags, BeforeSwap, BackingUp, AfterSwap, AfterUnits, CodeBack
<1>17. CASE Edit
    <2>1. before'.code = before.code
        BY <1>17 DEF Edit, TypeOK
    <2> QED
        BY <1>3, <1>17, <2>1 DEF Edit, dirs, flags
<1>18. CASE UNCHANGED vars
    BY <1>3, <1>18 DEF vars, dirs, flags
<1> QED
    BY <1>1, <1>2, <1>4, <1>5, <1>6, <1>7, <1>8, <1>9, <1>10, <1>11, <1>12, <1>13, <1>14,
       <1>15, <1>16, <1>17, <1>18 DEF Next, Step, Deploy, Rollback

-----------------------------------------------------------------------------
(* The backup.                                                             *)

(* Where the backup has been made, and where files are still as they were. *)
Backed  == Trapped \ ({"stop"} \cup BackingUp)
Undoing == {"rbStop", "rbCode", "rbMove", "rbClean", "rbSettings"}

LEMMA UnbackedFiles ==
    ASSUME BackupKnown, pc \in Trapped \cup InRollback, ~backedUp
    PROVE  \A f \in Data : files[f] = before.files[f] \/ (saved[f] # "absent" /\ files[f] = "edited")
BY DEF BackupKnown

LEMMA BackedFiles ==
    ASSUME BackupKnown, pc \in InRollback, backedUp
    PROVE  \A f \in Data : saved[f] = before.files[f]
BY DEF BackupKnown

LEMMA BackupStep ==
    ASSUME TypeOK, CodeKnown, BackupKnown, FoundKnown, [Next]_vars
    PROVE  BackupKnown'
<1> USE DEF BackupKnown, TypeOK, Backed, Undoing, EditedLater
<1>0. /\ CopiedAt["config"] = {"copyList", "copyAuth", "backup"}
      /\ CopiedAt["list"] = {"copyAuth", "backup"} /\ CopiedAt["auth"] = {"backup"}
    BY DEF CopiedAt
<1>00. \A f \in Data : CopiedAt[f] \subseteq BackingUp \ {"copyConfig"}
    BY <1>0 DEF Data, BackingUp
<1>000. pc \in Trapped \cup InRollback /\ ~backedUp =>
           \A f \in Data : files[f] = before.files[f] \/ (saved[f] # "absent" /\ files[f] = "edited")
    BY UnbackedFiles, Zenon
<1>001. pc \in InRollback /\ backedUp => \A f \in Data : saved[f] = before.files[f]
    BY BackedFiles, Zenon
<1> USE <1>00
<1>1. CASE Start
    <2>1. before' = Found /\ UNCHANGED <<files, backedUp>> /\ pc = "start" /\ pc' = "stop"
          /\ saved' = [f \in Files |-> IF f \in Settings THEN files[f] ELSE "absent"]
        BY <1>1 DEF Start, At, flags
    <2>2. before'.files = files
        BY <2>1 DEF Found
    <2>3. \A f \in Settings : saved'[f] = files[f]
        BY <2>1 DEF Files
    <2>4. ~backedUp'
        BY <2>1
    <2>5. \A f \in Data : saved'[f] = "absent"
        BY <2>1 DEF Files, Settings, Data
    <2>6. \A f \in Data : pc' \notin CopiedAt[f]
        BY <2>1 DEF BackingUp
    <2> QED
        BY <2>1, <2>2, <2>3, <2>4, <2>5, <2>6 DEF Files, Trapped, BackingUp, InRollback
<1>2. CASE Refuse
    BY <1>2 DEF Refuse, At, flags, Trapped, BackingUp, InRollback, Files, Settings, Data
<1>3. ASSUME UNCHANGED <<files, saved, backedUp, before>>,
             \/ pc = "stop" /\ pc' = "copyConfig"
             \/ pc \in Backed /\ pc' \in Backed \cup {"done"}
             \/ pc \in Trapped /\ pc' = "rbStop"
             \/ pc' \in {"killed", "refused"}
             \/ pc \in Undoing /\ pc' \in Undoing
             \/ pc = "rbEnable" /\ pc' = "rbStart"
             \/ pc' = pc
      PROVE  BackupKnown'
    <2>1. CASE pc' = pc
        BY <1>3, <2>1
    <2>2. CASE pc = "stop" /\ pc' = "copyConfig"
        BY <1>3, <2>2 DEF Trapped, BackingUp, InRollback
    <2>3. CASE pc \in Backed /\ pc' \in Backed \cup {"done"}
        BY <1>3, <2>3 DEF Trapped, BackingUp, InRollback, Files, Settings, Data
    <2>4. CASE pc \in Trapped /\ pc' = "rbStop"
        BY <1>3, <2>4 DEF Trapped, BackingUp, InRollback, Files, Settings, Data
    <2>5. CASE pc' \in {"killed", "refused"}
        BY <1>3, <2>5 DEF Trapped, BackingUp, InRollback, Files, Settings, Data
    <2>6. CASE pc \in Undoing /\ pc' \in Undoing
        BY <1>3, <2>6 DEF Trapped, BackingUp, InRollback, Files, Settings, Data
    <2>7. CASE pc = "rbEnable" /\ pc' = "rbStart"
        BY <1>3, <2>7 DEF Trapped, BackingUp, InRollback, Files, Settings, Data
    <2> QED
        BY <1>3, <2>1, <2>2, <2>3, <2>4, <2>5, <2>6, <2>7
<1>4. CASE \/ Stop \/ ClearPrevious \/ MoveOld \/ MoveNew \/ MarkSwapped \/ Enable \/ RestartServices
           \/ Healthy \/ SettleEnabled \/ SettleActive \/ Complete
    BY <1>3, <1>4 DEF Stop, ClearPrevious, MoveOld, MoveNew, MarkSwapped, Enable, RestartServices,
       Healthy, SettleEnabled, SettleActive, Settle, Complete, At, flags, Trapped, BackingUp, Files, Settings
<1>5. CASE Refuse \/ Fail \/ Kill \/ RbStop \/ RbCode \/ RbMove \/ RbClean \/ RbEnable \/ Flap \/ UNCHANGED vars
    BY <1>3, <1>5 DEF Refuse, Fail, Kill, RbStop, RbCode, RbMove, RbClean, RbEnable, Flap, At, flags, vars
<1>6. CASE BackUp
    <2>1. pc = "backup" /\ pc' = "config" /\ backedUp' = TRUE /\ UNCHANGED <<files, saved, before>>
        BY <1>6 DEF BackUp, At
    <2>2. \A f \in Data : saved[f] = before.files[f]
        BY <1>0, <2>1 DEF Data
    <2> QED
        BY <1>0, <2>1, <2>2 DEF Data, Files, Settings, Trapped, BackingUp
<1>61. ASSUME NEW f \in Data, Copy(f, pc, pc'), pc \in BackingUp, pc' \in BackingUp,
              pc \notin CopiedAt[f],
              \A g \in Data : pc' \in CopiedAt[g] <=> g = f \/ pc \in CopiedAt[g]
       PROVE  BackupKnown'
    <2>1. UNCHANGED <<files, backedUp, before>> /\ saved' = [saved EXCEPT ![f] = files[f]]
        BY <1>61 DEF Copy, flags
    <2>2. saved[f] = "absent" /\ files[f] = before.files[f]
        BY <1>61 DEF Trapped
    <2>3. saved'[f] = before.files[f] /\ \A g \in Files \ {f} : saved'[g] = saved[g]
        BY <2>1, <2>2 DEF Files
    <2>4. \A g \in Settings : saved'[g] = saved[g]
        BY <2>3 DEF Files, Settings, Data
    <2>5. \A g \in Data : pc' \in CopiedAt[g] => saved'[g] = before.files[g]
        BY <1>61, <2>3 DEF Files
    <2>6. \A g \in Data : pc' \notin CopiedAt[g] => saved'[g] = "absent"
        BY <1>61, <2>3 DEF Files
    <2>7. \A g \in Data : files[g] = before.files[g] \/ (saved'[g] # "absent" /\ files[g] = "edited")
        <3> SUFFICES ASSUME NEW g \in Data
                     PROVE  files[g] = before.files[g] \/ (saved'[g] # "absent" /\ files[g] = "edited")
            OBVIOUS
        <3>1. pc \in Trapped /\ ~backedUp
            BY <1>61 DEF Trapped
        <3>2. \A h \in Data : files[h] = before.files[h] \/ (saved[h] # "absent" /\ files[h] = "edited")
            BY <1>000, <3>1, Zenon
        <3>3. files[g] = before.files[g] \/ (saved[g] # "absent" /\ files[g] = "edited")
            BY <3>2
        <3> QED
            BY <2>2, <2>3, <3>3 DEF Files
    <2>8. ~backedUp /\ pc \in Trapped
        BY <1>61 DEF Trapped
    <2> QED
        BY <1>61, <2>1, <2>4, <2>5, <2>6, <2>7, <2>8 DEF Trapped, BackingUp, InRollback, Files, Settings, Data
<1>62. CASE \/ Copy("config", "copyConfig", "copyList") \/ Copy("list", "copyList", "copyAuth")
            \/ Copy("auth", "copyAuth", "backup")
    BY <1>0, <1>61, <1>62 DEF Copy, At, Data, BackingUp
<1>7. ASSUME UNCHANGED <<saved, backedUp, before>>, pc \in Backed, pc' \in Backed
      PROVE  BackupKnown'
    BY <1>7 DEF Trapped, BackingUp, InRollback, Files, Settings, Data
<1>8. CASE \/ PrepareConfig \/ PrepareList \/ PrepareAuth \/ UpdateSelf
    BY <1>7, <1>8 DEF PrepareConfig, PrepareList, PrepareAuth, UpdateSelf, Prepare, At, flags,
       Trapped, BackingUp, Files, Settings, Data
<1>9. CASE \/ WriteSetting("web.env", "fan.env") \/ WriteSetting("fan.env", "clear")
           \/ WriteSetting("fan.service", "web.service")
           \/ WriteSetting("web.service", "network.conf") \/ WriteSetting("network.conf", "enable")
    BY <1>7, <1>9 DEF WriteSetting, At, flags, Trapped, BackingUp, Files, Settings, Data
<1>10. CASE RbSettings
    <2>1. pc = "rbSettings" /\ pc' = "rbData" /\ UNCHANGED <<saved, backedUp, before>>
          /\ files' = [f \in Files |-> IF f \in Settings THEN saved[f] ELSE files[f]]
        BY <1>10 DEF RbSettings, Restore, At, flags
    <2>2. \A f \in Settings : files'[f] = before.files[f]
        BY <2>1 DEF Files, InRollback
    <2>3. \A f \in Data : files'[f] = files[f]
        BY <2>1 DEF Files, Settings, Data
    <2> QED
        BY <2>1, <2>2, <2>3 DEF Trapped, BackingUp, InRollback, Files, Settings, Data
<1>11. CASE RbData
    <2>1. pc = "rbData" /\ pc' = "rbEnable" /\ UNCHANGED <<saved, backedUp, before>>
          /\ files' = [f \in Files |-> IF f \in (IF backedUp THEN Data ELSE {}) THEN saved[f] ELSE files[f]]
        BY <1>11 DEF RbData, Restore, At, flags
    <2>2. \A f \in Data : files'[f] = before.files[f] \/ (~backedUp /\ files'[f] = "edited")
        <3>0. pc \in InRollback
            BY <2>1 DEF InRollback
        <3>1. CASE backedUp
            <4>1. \A f \in Data : saved[f] = before.files[f]
                BY <1>001, <3>0, <3>1, Zenon
            <4>2. \A f \in Data : files'[f] = saved[f]
                BY <2>1, <3>1 DEF Files
            <4> QED
                BY <4>1, <4>2
        <3>2. CASE ~backedUp
            <4>1. \A f \in Data : files[f] = before.files[f] \/ files[f] = "edited"
                BY <1>000, <3>0, <3>2, Zenon
            <4>2. \A f \in Data : files'[f] = files[f]
                BY <2>1, <3>2 DEF Files
            <4> QED
                BY <3>2, <4>1, <4>2
        <3> QED
            BY <3>1, <3>2
    <2>3. \A f \in Settings : files'[f] = before.files[f]
        BY <2>1 DEF Files, Settings, Data
    <2> QED
        BY <2>1, <2>2, <2>3 DEF Trapped, BackingUp, InRollback, Files, Settings, Data
<1>12. CASE RbStart
    BY <1>12 DEF RbStart, At, flags, Trapped, BackingUp, InRollback, Files, Settings, Data
<1>13. CASE Edit
    <2>1. PICK f \in {"config", "list"} :
             /\ SetFile(f, "edited") /\ Usable(files[f])
             /\ IF backedUp \/ saved[f] # "absent" THEN UNCHANGED before
                ELSE before' = [before EXCEPT !.files[f] = "edited"]
        BY <1>13, Zenon DEF Edit
    <2>2. pc \in Trapped \cup {"rbStop"} /\ UNCHANGED <<pc, saved, backedUp>>
        BY <1>13 DEF Edit, flags
    <2>4. files' = [files EXCEPT ![f] = "edited"] /\ f \in Data /\ f \in Files
        BY <2>1 DEF SetFile, Data, Files
    <2>5. CASE backedUp \/ saved[f] # "absent"
        <3>1. UNCHANGED before
            BY <2>1, <2>5
        <3>2. \A g \in Data : \/ g # f /\ files'[g] = files[g]
                              \/ g = f /\ (backedUp \/ saved[g] # "absent") /\ files'[g] = "edited"
            BY <2>4, <2>5 DEF Files
        <3> QED
            BY <2>2, <3>1, <3>2 DEF Trapped, BackingUp, InRollback, Files, Settings, Data
    <2>6. CASE ~backedUp /\ saved[f] = "absent"
        <3>1. before'.files = [before.files EXCEPT ![f] = "edited"]
            BY <2>1, <2>6
        <3>2. before.files \in [Files -> Contents] /\ files \in [Files -> Contents]
            OBVIOUS
        <3>3. \A g \in Settings : before'.files[g] = before.files[g]
            BY <2>1, <3>1, <3>2 DEF Files, Settings
        <3>4. files'[f] = "edited" /\ before'.files[f] = "edited"
            BY <2>4, <3>1, <3>2
        <3>5. \A g \in Data \ {f} : files'[g] = files[g] /\ before'.files[g] = before.files[g]
            BY <2>4, <3>1, <3>2 DEF Files
        <3>6. \A g \in Data : \/ files'[g] = before'.files[g]
                              \/ saved[g] # "absent" /\ files'[g] = "edited"
            <4>1. pc \in Trapped \cup InRollback
                BY <2>2 DEF InRollback
            <4>2. \A g \in Data : files[g] = before.files[g] \/ (saved[g] # "absent" /\ files[g] = "edited")
                BY <1>000, <2>6, <4>1, Zenon
            <4> QED
                BY <3>4, <3>5, <4>2, Zenon
        <3>7. \A g \in Data : pc \in CopiedAt[g] => g # f
            <4>1. ASSUME pc \in CopiedAt[f] PROVE FALSE
                <5>1. saved[f] = before.files[f] /\ pc \in BackingUp
                    BY <4>1, <2>4
                <5>2. files[f] = before.files[f]
                    BY <1>000, <2>4, <2>6, <5>1 DEF Trapped
                <5>3. Usable(files[f])
                    BY <2>1
                <5> QED
                    BY <2>6, <5>1, <5>2, <5>3 DEF Usable
            <4> QED
                BY <4>1
        <3>8. \A g \in Data : pc \in CopiedAt[g] => saved[g] = before'.files[g]
            BY <3>5, <3>7
        <3>9. pc \notin {"rbData", "rbEnable", "rbStart", "failed"}
            BY <2>2 DEF Trapped, BackingUp, Files, Settings, Data
        <3>10. \A g \in Settings : pc \in Trapped \cup InRollback => saved[g] = before'.files[g]
            BY <3>3
        <3>11. \A g \in Data : pc \notin CopiedAt[g] /\ pc \in {"start", "stop"} \cup BackingUp
                                  => saved'[g] = "absent"
            BY <2>2, Zenon
        <3>12. (pc \in {"start", "stop"} \cup BackingUp => ~backedUp')
               /\ (pc \in Trapped \ ({"stop"} \cup BackingUp) => backedUp')
            BY <2>2, Zenon
        <3> QED
            BY <2>2, <2>6, <3>6, <3>8, <3>9, <3>10, <3>11, <3>12
    <2> QED
        BY <2>5, <2>6
<1> QED
    BY <1>1, <1>4, <1>5, <1>6, <1>62, <1>8, <1>9, <1>10, <1>11, <1>12, <1>13
       DEF Next, Step, Deploy, Rollback

-----------------------------------------------------------------------------
(* What the run found, and what it keeps usable.                           *)

LEMMA FoundStep ==
    ASSUME TypeOK, CodeKnown, BackupKnown, FoundKnown, [Next]_vars
    PROVE  FoundKnown'
<1> USE DEF FoundKnown, TypeOK
<1>1. CASE Start
    BY <1>1 DEF Start, At, Found, dirs, services
<1>2. CASE Refuse
    BY <1>2 DEF Refuse, At, Trapped, BackingUp, InRollback, Files, Settings, Data
<1>3. ASSUME UNCHANGED <<was, before>>, pc \in Trapped,
             pc' \in Trapped \cup {"done", "rbStop", "killed"}
      PROVE  FoundKnown'
    BY <1>3 DEF Trapped, BackingUp, InRollback, Files, Settings, Data
<1>4. CASE Deploy \/ Fail \/ Flap
    BY <1>3, <1>4 DEF Deploy, Fail, Flap, Stop, Copy, BackUp, PrepareConfig, PrepareList, PrepareAuth, Prepare,
       WriteSetting, ClearPrevious, MoveOld, MoveNew, MarkSwapped, Enable, RestartServices, UpdateSelf,
       Healthy, SettleEnabled, SettleActive, Settle, Complete, At, Trapped, BackingUp, Files, Settings, Data
<1>5. CASE Kill
    BY <1>5 DEF Kill, Trapped, BackingUp, InRollback, Files, Settings, Data
<1>6. CASE RbStop \/ RbCode \/ RbMove \/ RbClean \/ RbSettings \/ RbData
    BY <1>6 DEF RbStop, RbCode, RbMove, RbClean, RbSettings, RbData, At, InRollback, Trapped, BackingUp, Files, Settings, Data
<1>7. CASE RbEnable
    <2>1. pc = "rbEnable" /\ pc' = "rbStart" /\ UNCHANGED <<was, before>>
          /\ enabled' = [u \in Units |-> was.enabled /\ files[UnitFile[u]] # "absent"]
        BY <1>7 DEF RbEnable, At
    <2>2. enabled'["web"] = (was.enabled /\ files["web.service"] # "absent")
        BY <2>1 DEF Units, UnitFile
    <2>3. was.enabled = before.enabled["web"] /\ files["web.service"] = before.files["web.service"]
        BY <2>1 DEF InRollback, BackupKnown, Settings
    <2> QED
        BY <2>1, <2>2, <2>3 DEF InRollback, Trapped, BackingUp, Files, Settings, Data
<1>8. CASE RbStart
    <2>1. pc = "rbStart" /\ pc' = "failed" /\ UNCHANGED <<was, before, enabled, install, failedAt>>
          /\ active' = [u \in Units |-> /\ was.active /\ install # "none"
                                        /\ files[UnitFile[u]] # "absent"]
        BY <1>8 DEF RbStart, At, dirs
    <2>2. active'["web"] = (was.active /\ install # "none" /\ files["web.service"] # "absent")
        BY <2>1 DEF Units, UnitFile
    <2>3. was.active = before.active["web"] /\ files["web.service"] = before.files["web.service"]
        BY <2>1 DEF InRollback, BackupKnown, Settings
    <2>4. ~InSwap => install = before.code
        BY <2>1 DEF CodeKnown, CodeBack
    <2>5. InSwap' <=> InSwap
        BY <2>1 DEF InSwap
    <2> QED
        BY <2>1, <2>2, <2>3, <2>4, <2>5 DEF InRollback, Trapped, BackingUp, Files, Settings, Data
<1>9. CASE Edit
    <2>1. PICK f \in {"config", "list"} :
             IF backedUp \/ saved[f] # "absent" THEN UNCHANGED before ELSE before' = [before EXCEPT !.files[f] = "edited"]
        BY <1>9, Zenon DEF Edit
    <2>2. /\ before'.code = before.code /\ before'.active = before.active /\ before'.enabled = before.enabled
          /\ before'.files["web.service"] = before.files["web.service"]
        BY <2>1 DEF Files, Settings
    <2>3. pc \in Trapped \cup {"rbStop"} /\ UNCHANGED <<pc, was, active, enabled, failedAt>>
        BY <1>9 DEF Edit, services
    <2> QED
        BY <2>2, <2>3 DEF InRollback, Trapped, BackingUp, Files, Settings, Data, InSwap
<1>10. CASE UNCHANGED vars
    BY <1>10 DEF vars, services, dirs, Found, InSwap
<1> QED
    BY <1>1, <1>2, <1>4, <1>5, <1>6, <1>7, <1>8, <1>9, <1>10 DEF Next, Step, Rollback

(* No step, once past it, spoils a file: what is written is usable.        *)
LEMMA FilesStep ==
    ASSUME TypeOK, FilesKnown, [Next]_vars
    PROVE  FilesKnown'
<1> USE DEF FilesKnown, AfterEnv, AfterSwap, AfterUnits
<1>1. CASE Start \/ Refuse \/ Fail \/ Kill \/ Rollback
    BY <1>1 DEF Start, Refuse, Fail, Kill, Rollback, RbStop, RbCode, RbMove, RbClean, RbSettings,
       RbData, RbEnable, RbStart, At
<1>2. CASE \/ Stop \/ BackUp \/ Copy("config", "copyConfig", "copyList")
           \/ Copy("list", "copyList", "copyAuth") \/ Copy("auth", "copyAuth", "backup") \/ ClearPrevious \/ MoveOld \/ MoveNew \/ MarkSwapped \/ Enable
           \/ RestartServices \/ Healthy \/ SettleEnabled \/ SettleActive \/ Complete \/ Flap \/ UNCHANGED vars
    BY <1>2 DEF Stop, Copy, BackUp, ClearPrevious, MoveOld, MoveNew, MarkSwapped, Enable, RestartServices,
       Healthy, SettleEnabled, SettleActive, Settle, Complete, Flap, vars, At
<1>3. ASSUME NEW f \in Files, NEW content \in {"new", "edited"}, SetFile(f, content)
      PROVE  /\ Usable(files'[f])
             /\ \A g \in Files : Usable(files[g]) => Usable(files'[g])
    BY <1>3 DEF SetFile, Usable, TypeOK
<1>4. {"config", "list", "auth", "web.env", "fan.env", "fan.service", "web.service", "network.conf"} \subseteq Files
    BY DEF Files, Settings, Data
<1> HIDE DEF Usable
<1>5. CASE PrepareConfig
    <2>1. pc = "config" /\ pc' = "list" /\ Usable(files'["config"])
        BY <1>3, <1>4, <1>5 DEF PrepareConfig, Prepare, At
    <2> QED
        BY <2>1
<1>6. CASE PrepareList
    <2>1. pc = "list" /\ pc' = "auth" /\ Usable(files'["list"])
          /\ (Usable(files["config"]) => Usable(files'["config"]))
        BY <1>3, <1>4, <1>6 DEF PrepareList, At
    <2> QED
        BY <2>1
<1>7. CASE PrepareAuth
    <2>1. pc = "auth" /\ pc' = "web.env" /\ Usable(files'["auth"])
          /\ \A g \in Files : Usable(files[g]) => Usable(files'[g])
        BY <1>3, <1>4, <1>7 DEF PrepareAuth, Prepare, At
    <2> QED
        BY <1>4, <2>1
<1>8. ASSUME NEW f \in Files, NEW next \in Trapped, WriteSetting(f, next)
      PROVE  /\ pc = f /\ pc' = next /\ Usable(files'[f])
             /\ \A g \in Files : Usable(files[g]) => Usable(files'[g])
    BY <1>3, <1>8 DEF WriteSetting, At
<1>9. {"fan.env", "clear", "web.service", "network.conf", "enable"} \subseteq Trapped
    BY DEF Trapped, BackingUp, Files, Settings
<1>10. CASE WriteSetting("web.env", "fan.env")
    BY <1>4, <1>8, <1>9, <1>10
<1>11. CASE WriteSetting("fan.env", "clear")
    BY <1>4, <1>8, <1>9, <1>11
<1>12. CASE WriteSetting("fan.service", "web.service")
    BY <1>4, <1>8, <1>9, <1>12
<1>13. CASE WriteSetting("web.service", "network.conf")
    BY <1>4, <1>8, <1>9, <1>13
<1>14. CASE WriteSetting("network.conf", "enable")
    BY <1>4, <1>8, <1>9, <1>14
<1>15. CASE UpdateSelf
    <2>1. pc = "self" /\ pc' = "health" /\ \A g \in Files : Usable(files[g]) => Usable(files'[g])
        BY <1>3, <1>4, <1>15 DEF UpdateSelf, At
    <2> QED
        BY <1>4, <2>1
<1>16. CASE Edit
    <2>1. pc' = pc /\ \A g \in Files : Usable(files[g]) => Usable(files'[g])
        BY <1>3, <1>4, <1>16 DEF Edit
    <2> QED
        BY <1>4, <2>1
<1> QED
    BY <1>1, <1>2, <1>5, <1>6, <1>7, <1>10, <1>11, <1>12, <1>13, <1>14, <1>15, <1>16
       DEF Next, Step, Deploy

-----------------------------------------------------------------------------
(* Theorems.                                                               *)

(* The inductive invariant: where the release is at every command, what    *)
(* the backup holds and which files still are as they were found, what has *)
(* been noted of the services, and which files are usable already.         *)
THEOREM IInvHolds == Spec => []IInv
<1>1. Init => IInv
    <2> SUFFICES ASSUME Init PROVE IInv
        OBVIOUS
    <2>1. TypeOK
        BY InitTypes
    <2>2. CodeKnown /\ CodeSurvives
        BY DEF Init, Found, CodeKnown, CodeSurvives, Reached, BeforeSwap, AfterSwap, AfterUnits, CodeBack
    <2>3. BackupKnown
        <3>1. \A f \in Data : "start" \notin CopiedAt[f]
            BY DEF CopiedAt, Data
        <3>2. pc = "start" /\ ~backedUp /\ \A f \in Data : saved[f] = "absent"
            BY DEF Init, Files
        <3> QED
            BY <3>1, <3>2 DEF BackupKnown, Trapped, BackingUp, InRollback, Files, Settings, Data
    <2>4. FoundKnown
        <3>1. before = Found /\ pc = "start"
            BY DEF Init
        <3>2. active["web"] => install # "none"
            BY DEF Init, Units
        <3>3. enabled["web"] => files["web.service"] # "absent"
            BY DEF Init, Units, UnitFile
        <3>4. install # "none" => files["web.service"] # "absent"
            BY DEF Init, Files, Settings, Data
        <3> QED
            BY <3>1, <3>2, <3>3, <3>4 DEF FoundKnown, Found, Trapped, BackingUp, InRollback, Files, Settings, Data
    <2>5. FilesKnown
        BY DEF Init, FilesKnown, AfterEnv, AfterSwap, AfterUnits
    <2> QED
        BY <2>1, <2>2, <2>3, <2>4, <2>5 DEF IInv
<1>2. IInv /\ [Next]_vars => IInv'
    BY TypeStep, CodeStep, BackupStep, FoundStep, FilesStep DEF IInv
<1> QED
    BY <1>1, <1>2, PTL DEF Spec

(* All variables of the installation keep their types (install.sh).        *)
THEOREM TypeCorrect == Spec => []TypeOK
<1>1. IInv => TypeOK
    BY DEF IInv
<1> QED
    BY <1>1, IInvHolds, PTL

(* At no command, in the deployment or in rollback, is the release that    *)
(* was found off the disk: a kill anywhere leaves it (install.sh, the swap *)
(* and rollback).                                                          *)
THEOREM CodeAlwaysSurvives == Spec => []CodeSurvives
<1>1. IInv => CodeSurvives
    BY DEF IInv
<1> QED
    BY <1>1, IInvHolds, PTL

(* After a failed run everything rollback can restore is as it was found   *)
(* (rollback).                                                             *)
THEOREM FailureAlwaysRestores == Spec => []FailureRestores
<1>1. IInv => FailureRestores
    <2> SUFFICES ASSUME IInv, pc = "failed"
                 PROVE  /\ \A f \in Settings : files[f] = before.files[f]
                        /\ \A f \in Data : files[f] = before.files[f] \/ EditedLater(f)
                        /\ ~InSwap => install = before.code
                        /\ ~InSwap => active["web"] = before.active["web"]
                        /\ enabled["web"] = before.enabled["web"]
        BY DEF FailureRestores
    <2>1. /\ \A f \in Settings : files[f] = before.files[f]
          /\ \A f \in Data : files[f] = before.files[f] \/ EditedLater(f)
        BY DEF IInv, BackupKnown
    <2> QED
        BY <2>1 DEF IInv, CodeKnown, CodeBack, FoundKnown
<1> QED
    BY <1>1, IInvHolds, PTL

(* A run that reports success leaves the new release with the old one      *)
(* beside it, and every file usable (install.sh, its last lines).          *)
THEOREM DoneAlwaysWhole == Spec => []DoneIsWhole
<1>1. IInv => DoneIsWhole
    BY DEF IInv, DoneIsWhole, CodeKnown, Reached, FilesKnown, AfterEnv, AfterSwap, AfterUnits,
       Files, Settings, Data
<1> QED
    BY <1>1, IInvHolds, PTL
=============================================================================
