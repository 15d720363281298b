------------------------------ MODULE Installer ------------------------------
(***************************************************************************)
(* One run of install.sh from the moment its arguments are accepted: what  *)
(* it backs up, the steps of the deployment, and rollback, the handler of  *)
(* ERR, INT and TERM.  Any command may fail and any signal may come        *)
(* between two commands; the run may also be killed for good (SIGKILL, a   *)
(* power cut, a second signal once rollback has disarmed its traps).       *)
(*                                                                         *)
(* What a file says is reduced to where it comes from.  Left out: packages *)
(* and accounts, port selection, the staging directory, and failures of    *)
(* the commands of rollback itself (they are ignored, set +e).             *)
(***************************************************************************)
CONSTANTS
    Leftovers,      \* what earlier runs may have left beside the program
    Conditions      \* the conditions the data may be found in

ASSUME LeftoversAssumption  == Leftovers \subseteq {"none", "older"}
ASSUME ConditionsAssumption == Conditions \subseteq {"absent", "bad", "old"}

Units    == {"fan", "web"}
UnitFile == [fan |-> "fan.service", web |-> "web.service"]

Settings == {"fan.service", "web.service", "web.env", "fan.env", "network.conf"}
Data     == {"config", "list", "auth"}
Files    == Settings \cup Data

Contents == {"absent", "bad", "old", "edited", "new"}
Usable(content) == content \notin {"absent", "bad"}

(* Releases: "new" is this run's, "old" the one it found installed,        *)
(* "older" one that an earlier run left beside it.                         *)
Releases == {"none", "older", "old", "new"}

VARIABLES
    pc,             \* the next command
    install, previous, failed,      \* INSTALL_DIR, PREVIOUS_DIR, INSTALL_DIR.failed
    files, saved,   \* the files, and their copies in BACKUP_DIR
    active, enabled,    \* the services, as systemd sees them
    was,            \* WAS_ACTIVE and WAS_ENABLED
    swapped, backedUp, complete,    \* SWAPPED, STATE_BACKED_UP, INSTALL_COMPLETE
    before,         \* what this run found (edits made while the old web service ran included)
    failedAt        \* the command that failed or was interrupted

dirs     == <<install, previous, failed>>
services == <<active, enabled>>
flags    == <<swapped, backedUp, complete>>
vars     == <<pc, dirs, files, saved, services, was, flags, before, failedAt>>

Found == [code |-> install, files |-> files, active |-> active, enabled |-> enabled]

(* Any state an earlier run or the uninstaller can have left: with or      *)
(* without the program, the data in any condition, the services in any     *)
(* combination once their units exist.                                     *)
Init ==
    /\ pc = "start"
    /\ install \in {"none", "old"} /\ previous \in Leftovers /\ failed \in Leftovers
    /\ \E units, env \in {"absent", "old"}, data \in [Data -> Conditions] :
          /\ install = "old" => units = "old"
          /\ files = [f \in Files |-> IF f \in Data THEN data[f]
                                      ELSE IF f \in {"fan.service", "web.service"} THEN units ELSE env]
    /\ active \in [Units -> BOOLEAN] /\ enabled \in [Units -> BOOLEAN]
    /\ \A u \in Units : /\ active[u] => install = "old"
                        /\ enabled[u] => files[UnitFile[u]] = "old"
    /\ saved = [f \in Files |-> "absent"]
    /\ was = [active |-> FALSE, enabled |-> FALSE]
    /\ swapped = FALSE /\ backedUp = FALSE /\ complete = FALSE
    /\ before = Found /\ failedAt = "nowhere"

At(here, next) == pc = here /\ pc' = next

SetFile(f, content) == files' = [files EXCEPT ![f] = content]

Both(value) == [u \in Units |-> value]

-----------------------------------------------------------------------------
(* Before the traps are set.                                               *)

Start ==
    /\ At("start", "stop")
    /\ was' = [active |-> active["web"], enabled |-> enabled["web"]]
    /\ saved' = [f \in Files |-> IF f \in Settings THEN files[f] ELSE "absent"]
    /\ before' = Found
    /\ UNCHANGED <<dirs, files, services, flags, failedAt>>

Refuse ==
    /\ At("start", "refused")
    /\ UNCHANGED <<dirs, files, saved, services, was, flags, before, failedAt>>

-----------------------------------------------------------------------------
(* The deployment.                                                         *)

(* The release is staged, then the old services are stopped - or go on, if *)
(* systemctl fails, which is ignored (|| true).                            *)
Stop ==
    /\ At("stop", "copyConfig")
    /\ \E running \in SUBSET {u \in Units : active[u]} :
          active' = [u \in Units |-> u \in running]
    /\ UNCHANGED <<dirs, files, saved, enabled, was, flags, before, failedAt>>

(* One of the three copies; there is none of a file that is not there.     *)
Copy(f, here, next) ==
    /\ At(here, next)
    /\ saved' = [saved EXCEPT ![f] = files[f]]
    /\ UNCHANGED <<dirs, files, services, was, flags, before, failedAt>>

(* STATE_BACKED_UP is set when all three are made.                         *)
BackUp ==
    /\ At("backup", "config")
    /\ backedUp' = TRUE
    /\ UNCHANGED <<dirs, files, saved, services, was, swapped, complete, before, failedAt>>

(* Slip: an existing file is not validated.                                *)
PrepareUnread(f, next) ==
    /\ At(f, next)
    /\ \/ SetFile(f, "new")
       \/ files[f] # "absent" /\ UNCHANGED files
    /\ UNCHANGED <<dirs, saved, services, was, flags, before, failedAt>>

(* A missing file is migrated or made, an existing one rewritten as the    *)
(* options ask or left alone; only a rewrite of all of it mends a bad one. *)
Prepare(f, next) ==
    /\ At(f, next)
    /\ \/ SetFile(f, "new")
       \/ Usable(files[f]) /\ UNCHANGED files
    /\ UNCHANGED <<dirs, saved, services, was, flags, before, failedAt>>

PrepareConfig == Prepare("config", "list")
PrepareAuth   == Prepare("auth", "web.env")

(* A list is never mended.                                                 *)
PrepareList ==
    /\ At("list", "auth")
    /\ \/ files["list"] = "absent" /\ SetFile("list", "new")
       \/ Usable(files["list"]) /\ UNCHANGED files
    /\ UNCHANGED <<dirs, saved, services, was, flags, before, failedAt>>

WriteSetting(f, next) ==
    /\ At(f, next)
    /\ SetFile(f, "new")
    /\ UNCHANGED <<dirs, saved, services, was, flags, before, failedAt>>

ClearPrevious ==
    /\ At("clear", "moveOld")
    /\ previous' = "none"
    /\ UNCHANGED <<install, failed, files, saved, services, was, flags, before, failedAt>>

(* Slip: the old release is removed, not moved.                            *)
RemoveOld ==
    /\ At("moveOld", "moveNew")
    /\ install' = "none"
    /\ UNCHANGED <<previous, failed, files, saved, services, was, flags, before, failedAt>>

MoveOld ==
    /\ At("moveOld", "moveNew")
    /\ \/ install # "none" /\ previous' = install /\ install' = "none"
       \/ install = "none" /\ UNCHANGED <<previous, install>>
    /\ UNCHANGED <<failed, files, saved, services, was, flags, before, failedAt>>

MoveNew ==
    /\ At("moveNew", "mark")
    /\ install' = "new"
    /\ UNCHANGED <<previous, failed, files, saved, services, was, flags, before, failedAt>>

MarkSwapped ==
    /\ At("mark", "fan.service")
    /\ swapped' = TRUE
    /\ UNCHANGED <<dirs, files, saved, services, was, backedUp, complete, before, failedAt>>

Enable ==
    /\ At("enable", "restart")
    /\ enabled' = Both(TRUE)
    /\ UNCHANGED <<dirs, files, saved, active, was, flags, before, failedAt>>

(* A service may come up or not.                                           *)
RestartServices ==
    /\ At("restart", "self")
    /\ active' \in [Units -> BOOLEAN]
    /\ UNCHANGED <<dirs, files, saved, enabled, was, flags, before, failedAt>>

(* update_self rejects a list that has become bad; the list of the running *)
(* service is rewritten.                                                   *)
UpdateSelf ==
    /\ At("self", "health")
    /\ files["list"] # "bad" /\ SetFile("list", "new")
    /\ UNCHANGED <<dirs, saved, services, was, flags, before, failedAt>>

(* Within twenty attempts one finds both services up and answering.        *)
Healthy ==
    /\ At("health", "disable")
    /\ active = Both(TRUE)
    /\ UNCHANGED <<dirs, files, saved, services, was, flags, before, failedAt>>

Settle(here, next, states, wanted) ==
    /\ At(here, next)
    /\ \/ ~wanted /\ previous # "none" /\ states' = Both(FALSE)
       \/ (wanted \/ previous = "none") /\ UNCHANGED states
    /\ UNCHANGED <<dirs, files, saved, was, flags, before, failedAt>>

SettleEnabled == Settle("disable", "quiet", enabled, was.enabled) /\ UNCHANGED active
SettleActive  == Settle("quiet", "complete", active, was.active) /\ UNCHANGED enabled

Complete ==
    /\ At("complete", "done")
    /\ complete' = TRUE
    /\ UNCHANGED <<dirs, files, saved, services, was, swapped, backedUp, before, failedAt>>

Deploy ==
    \/ Stop \/ Copy("config", "copyConfig", "copyList") \/ Copy("list", "copyList", "copyAuth")
    \/ Copy("auth", "copyAuth", "backup") \/ BackUp
    \/ PrepareConfig \/ PrepareList \/ PrepareAuth
    \/ WriteSetting("web.env", "fan.env") \/ WriteSetting("fan.env", "clear")
    \/ ClearPrevious \/ MoveOld \/ MoveNew \/ MarkSwapped
    \/ WriteSetting("fan.service", "web.service") \/ WriteSetting("web.service", "network.conf")
    \/ WriteSetting("network.conf", "enable")
    \/ Enable \/ RestartServices \/ UpdateSelf \/ Healthy
    \/ SettleEnabled \/ SettleActive \/ Complete

-----------------------------------------------------------------------------
(* rollback.                                                               *)

BackingUp == {"copyConfig", "copyList", "copyAuth", "backup"}
Trapped ==
    {"stop"} \cup BackingUp \cup Files \cup
    {"clear", "moveOld", "moveNew", "mark", "enable", "restart", "self", "health",
     "disable", "quiet", "complete"}
InRollback ==
    {"rbStop", "rbCode", "rbMove", "rbClean", "rbSettings", "rbData", "rbEnable", "rbStart"}

(* A command fails, or a signal comes before it.                           *)
Fail ==
    /\ pc \in Trapped
    /\ pc' = "rbStop" /\ failedAt' = pc
    /\ UNCHANGED <<dirs, files, saved, services, was, flags, before>>

RbStop ==
    /\ At("rbStop", "rbCode")
    /\ active' = Both(FALSE)
    /\ UNCHANGED <<dirs, files, saved, enabled, was, flags, before, failedAt>>

RbCode ==
    /\ pc = "rbCode"
    /\ \/ /\ swapped /\ previous # "none"
          /\ pc' = "rbMove"
          /\ failed' = IF failed = "none" THEN install ELSE failed
          /\ install' = "none"
       \/ /\ swapped /\ previous = "none"
          /\ pc' = "rbSettings"
          /\ install' = "none" /\ UNCHANGED failed
       \/ ~swapped /\ pc' = "rbSettings" /\ UNCHANGED <<install, failed>>
    /\ UNCHANGED <<previous, files, saved, services, was, flags, before, failedAt>>

RbMove ==
    /\ At("rbMove", "rbClean")
    /\ install' = previous /\ previous' = "none"
    /\ UNCHANGED <<failed, files, saved, services, was, flags, before, failedAt>>

RbClean ==
    /\ At("rbClean", "rbSettings")
    /\ failed' = "none"
    /\ UNCHANGED <<install, previous, files, saved, services, was, flags, before, failedAt>>

Restore(which) == files' = [f \in Files |-> IF f \in which THEN saved[f] ELSE files[f]]

RbSettings ==
    /\ At("rbSettings", "rbData")
    /\ Restore(Settings)
    /\ UNCHANGED <<dirs, saved, services, was, flags, before, failedAt>>

(* Slip: the data is restored from a backup that was not made.             *)
RbDataAlways ==
    /\ At("rbData", "rbEnable")
    /\ Restore(Data)
    /\ UNCHANGED <<dirs, saved, services, was, flags, before, failedAt>>

RbData ==
    /\ At("rbData", "rbEnable")
    /\ Restore(IF backedUp THEN Data ELSE {})
    /\ UNCHANGED <<dirs, saved, services, was, flags, before, failedAt>>

(* Slip: one unit is forgotten.                                            *)
RbEnableWeb ==
    /\ At("rbEnable", "rbStart")
    /\ enabled' = [u \in {"web"} |-> was.enabled]
    /\ UNCHANGED <<dirs, files, saved, active, was, flags, before, failedAt>>

RbEnable ==
    /\ At("rbEnable", "rbStart")
    /\ enabled' = [u \in Units |-> was.enabled /\ files[UnitFile[u]] # "absent"]
    /\ UNCHANGED <<dirs, files, saved, active, was, flags, before, failedAt>>

(* What is found installed runs; without a program nothing does.           *)
RbStart ==
    /\ At("rbStart", "failed")
    /\ active' = [u \in Units |-> /\ was.active /\ install # "none"
                                  /\ files[UnitFile[u]] # "absent"]
    /\ saved' = [f \in Files |-> "absent"]
    /\ UNCHANGED <<dirs, files, enabled, was, flags, before, failedAt>>

Rollback == RbStop \/ RbCode \/ RbMove \/ RbClean \/ RbSettings \/ RbData \/ RbEnable \/ RbStart

-----------------------------------------------------------------------------
(* The surroundings.                                                       *)

Kill ==
    /\ pc \in Trapped \cup InRollback
    /\ pc' = "killed"
    /\ UNCHANGED <<dirs, files, saved, services, was, flags, before, failedAt>>

(* A request edits the curve or the Pi list.  Edits made before the file   *)
(* is copied are part of what a failed deployment has to bring back; later *)
(* ones, of an old service that could not be stopped or of the new one,    *)
(* are not.  (A file that can be edited leaves a copy.)                    *)
Edit ==
    /\ pc \in Trapped \cup {"rbStop"} /\ active["web"]
    /\ \E f \in {"config", "list"} :
          /\ Usable(files[f]) /\ files[f] # "edited"
          /\ SetFile(f, "edited")
          /\ IF backedUp \/ saved[f] # "absent" THEN UNCHANGED before
             ELSE before' = [before EXCEPT !.files[f] = "edited"]
    /\ UNCHANGED <<pc, dirs, saved, services, was, flags, failedAt>>

(* A new service dies or is brought back by systemd (Restart=always).      *)
Flap ==
    /\ pc \in {"self", "health", "disable", "quiet"}
    /\ \E u \in Units : active' = [active EXCEPT ![u] = ~active[u]]
    /\ UNCHANGED <<pc, dirs, files, saved, enabled, was, flags, before, failedAt>>

Step == Start \/ Deploy \/ Rollback
Next == Step \/ Refuse \/ Fail \/ Kill \/ Edit \/ Flap

Spec == Init /\ [][Next]_vars

-----------------------------------------------------------------------------
(* Properties.                                                             *)

(* The types of all variables of the installation.                         *)
TypeOK ==
    /\ pc \in Trapped \cup InRollback \cup {"start", "refused", "done", "failed", "killed"}
    /\ {install, previous, failed} \subseteq Releases
    /\ files \in [Files -> Contents] /\ saved \in [Files -> Contents]
    /\ active \in [Units -> BOOLEAN] /\ enabled \in [Units -> BOOLEAN]
    /\ was \in [active : BOOLEAN, enabled : BOOLEAN]
    /\ {swapped, backedUp, complete} \subseteq BOOLEAN
    /\ before \in [code : Releases, files : [Files -> Contents],
                   active : [Units -> BOOLEAN], enabled : [Units -> BOOLEAN]]
    /\ failedAt \in Trapped \cup {"nowhere"}

(* Wherever the run is cut off, rollback included, the release it found is *)
(* still on the disk.                                                      *)
CodeSurvives == before.code # "none" => before.code \in {install, previous, failed}

InSwap == failedAt \in {"moveNew", "mark"}

(* Rollback leaves the data alone if not all copies were made.             *)
EditedLater(f) == ~backedUp /\ files[f] = "edited"

(* README.md:37, as far as the code keeps it: after a failure the settings *)
(* and the data are what they were, edits up to the backup included, even  *)
(* if the old service could not be stopped and writes on, and whichever of *)
(* the copies had been made (later edits may be kept if not all were);     *)
(* unless the failure hit between the moves of the swap, so is the code,   *)
(* and the web service is in the state it was in.                          *)
FailureRestores ==
    pc = "failed" =>
        /\ \A f \in Settings : files[f] = before.files[f]
        /\ \A f \in Data : files[f] = before.files[f] \/ EditedLater(f)
        /\ ~InSwap => install = before.code
        /\ ~InSwap => active["web"] = before.active["web"]
        /\ enabled["web"] = before.enabled["web"]

(* A run that reports success leaves the new release, every file usable,   *)
(* and the release it replaced beside it.                                  *)
DoneIsWhole ==
    pc = "done" =>
        /\ install = "new" /\ previous = before.code
        /\ \A f \in Files : Usable(files[f])

(* README.md:37: "If deployment fails it restores the previous code".      *)
FailureRestoresCode == pc = "failed" => install = before.code

(* README.md:37: "... and prior enabled/running state", of both services.  *)
FailureRestoresServices ==
    pc = "failed" /\ before.code = "old" /\ install = "old" =>
        active = before.active /\ enabled = before.enabled

(* The sentence of README.md:37.                                           *)
FailureRestoresAll == FailureRestoresCode /\ FailureRestoresServices

-----------------------------------------------------------------------------
(* The inductive invariant.                                                *)

(* The step the deployment has reached, until rollback undoes it.          *)
Reached == IF pc \in {"rbStop", "rbCode"} THEN failedAt ELSE pc

BeforeSwap == BackingUp \cup {"start", "refused", "stop", "config", "list", "auth", "web.env",
                               "fan.env", "clear"}
AfterUnits == {"enable", "restart", "self", "health", "disable", "quiet", "complete", "done"}
AfterSwap  == {"fan.service", "web.service", "network.conf"} \cup AfterUnits
AfterEnv   == {"clear", "moveOld", "moveNew", "mark"} \cup AfterSwap
CodeBack   == {"rbClean", "rbSettings", "rbData", "rbEnable", "rbStart", "failed"}

(* Where the release is that the run found.                                *)
CodeKnown ==
    /\ pc \in {"rbStop", "rbCode"} => failedAt \in Trapped
    /\ Reached \in BeforeSwap \cup {"moveOld"} => install = before.code /\ ~swapped
    /\ Reached = "moveOld" => previous = "none"
    /\ Reached \in {"moveNew", "mark"} => previous = before.code /\ ~swapped
    /\ Reached \in AfterSwap => install = "new" /\ previous = before.code /\ swapped
    /\ Reached = "mark" => install = "new"
    /\ pc = "rbMove" => previous = before.code
    /\ pc \in {"rbMove", "rbClean"} => ~InSwap
    /\ pc \in CodeBack /\ ~InSwap => install = before.code

(* Where each of the data files has been copied.                           *)
CopiedAt == [config |-> {"copyList", "copyAuth", "backup"},
             list   |-> {"copyAuth", "backup"},
             auth   |-> {"backup"}]

(* What the backup holds, and when the files need it.                      *)
BackupKnown ==
    /\ pc \in {"start", "stop"} \cup BackingUp => ~backedUp
    /\ pc \in Trapped \ ({"stop"} \cup BackingUp) => backedUp
    /\ pc \in {"start", "stop"} \cup BackingUp =>
          \A f \in Data : pc \notin CopiedAt[f] => saved[f] = "absent"
    /\ \A f \in Data : pc \in CopiedAt[f] => saved[f] = before.files[f]
    /\ pc \in Trapped \cup InRollback =>
          /\ \A f \in Settings : saved[f] = before.files[f]
          /\ backedUp => \A f \in Data : saved[f] = before.files[f]
          /\ ~backedUp => \A f \in Data : \/ files[f] = before.files[f]
                                          \/ saved[f] # "absent" /\ files[f] = "edited"
    /\ pc \in {"rbData", "rbEnable", "rbStart", "failed"} =>
          \A f \in Settings : files[f] = before.files[f]
    /\ pc \in {"rbEnable", "rbStart", "failed"} =>
          \A f \in Data : files[f] = before.files[f] \/ EditedLater(f)

(* What the run found, and has noted of the services.                      *)
FoundKnown ==
    /\ pc = "start" => before = Found
    /\ before.active["web"] => before.code # "none"
    /\ before.code # "none" => before.files["web.service"] # "absent"
    /\ before.enabled["web"] => before.files["web.service"] # "absent"
    /\ pc \in Trapped \cup InRollback =>
          was.active = before.active["web"] /\ was.enabled = before.enabled["web"]
    /\ pc \in {"rbStart", "failed"} => enabled["web"] = before.enabled["web"]
    /\ pc = "failed" /\ ~InSwap => active["web"] = before.active["web"]

(* A step that is past leaves its file usable.                             *)
FilesKnown ==
    /\ pc \in AfterUnits => Usable(files["network.conf"])
    /\ pc \in AfterUnits \cup {"network.conf"} => Usable(files["web.service"])
    /\ pc \in AfterSwap \ {"fan.service"} => Usable(files["fan.service"])
    /\ pc \in AfterEnv => Usable(files["fan.env"])
    /\ pc \in AfterEnv \cup {"fan.env"} => Usable(files["web.env"])
    /\ pc \in AfterEnv \cup {"fan.env", "web.env"} => Usable(files["auth"])
    /\ pc \in AfterEnv \cup {"fan.env", "web.env", "auth"} => Usable(files["list"])
    /\ pc \in AfterEnv \cup {"fan.env", "web.env", "auth", "list"} => Usable(files["config"])

IInv == TypeOK /\ CodeKnown /\ CodeSurvives /\ BackupKnown /\ FoundKnown /\ FilesKnown
=============================================================================
