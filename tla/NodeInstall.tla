---------------------------- MODULE NodeInstall -----------------------------
(***************************************************************************)
(* `noerelay provision`, `noerelay llm start|stop|schedule`, `noerelay hf  *)
(* download`, `noerelay config set` and `noerelay adopt` on one host       *)
(* (src/noerelay: installer, lifecycle, hf, cli).                          *)
(*                                                                         *)
(* Provisioning is a sequence of steps over the disk, skips what is there, *)
(* and may be cut between and inside them; it is run again by hand, with   *)
(* other options. A file is its content; a download is the blocks written  *)
(* so far, of the blocks 1..Blocks of the published file.                  *)
(***************************************************************************)
EXTENDS LlamaPlan

CONSTANTS
    Hosts,        \* the hosts to provision
    Options,      \* the options of a provisioning: [model, port, ctx]
    Blocks,       \* blocks of a published file
    MaxRuns,      \* provisionings and other commands
    OwnKey        \* an API key the operator configured

\* Models lie in a directory of their own; one chosen by hand is of the catalog.
FixedFiles == {"exe", "dl", "venv", "config", "yaml", "scripts", "readme", "home", "part", "final", "unit"}
ASSUME NodeAssumption ==
    /\ Hosts \subseteq [os : STRING, arch : STRING, ram : Nat, apple : BOOLEAN,
                        nvidia : Seq([vendor : {"nvidia"}, vram : Nat, bandwidth : Nat, display : BOOLEAN])]
    /\ \A o \in Options : o.model \in Catalog \cup {NoModel}
    /\ \A m \in Catalog : m.key \notin FixedFiles

VARIABLES
    hostInfo,     \* the host
    disk,         \* [file -> content], absent files left out
    install,      \* the provisioning that runs: [plan, step], or Unset
    installed,    \* the plan of the last provisioning if it was complete, or Unset
    fetch,        \* the download that runs: [into, at, mode], or Unset
    servers,      \* llama-server processes: [pid, args]
    pidText,      \* server.pid: a pid or Unset
    project,      \* files of an adopted project: [file -> "own" or "scaffold"]
    adopting,     \* the files `adopt` has still to look at, or Unset
    commands      \* commands given so far (bound)

nodeVars == <<hostInfo, disk, install, installed, fetch, servers, pidText, project, adopting, commands>>
diskVars == <<disk, install, installed>>
runVars == <<servers, pidText>>
projectVars == <<project, adopting>>

Has(file) == file \in DOMAIN disk
Put(files, file, content) == [f \in DOMAIN files \cup {file} |-> IF f = file THEN content ELSE files[f]]
Write(file, content) == Put(disk, file, content)
Delete(file) == [f \in DOMAIN disk \ {file} |-> disk[f]]
Scaffold == {"constitution", "state", "gaps"}

NodeInit ==
    /\ hostInfo \in Hosts
    /\ disk \in {<<>>, [f \in {"home"} |-> [key |-> OwnKey, port |-> 9000, model |-> Unset]]}
    /\ install = Unset /\ installed = Unset /\ fetch = Unset
    /\ servers = {} /\ pidText = Unset
    /\ project \in {[f \in Scaffold |-> "none"], [f \in Scaffold |-> IF f = "state" THEN "own" ELSE "none"]}
    /\ adopting = Unset /\ commands = 0

Free == install = Unset /\ fetch = Unset /\ adopting = Unset /\ commands < MaxRuns
Given == commands' = commands + 1

\* ---- provisioning
Steps == <<"build", "venv", "model", "config", "yaml", "scripts", "readme", "home">>
Provision(options) ==
    /\ Free /\ Given
    /\ install' = [plan |-> MakePlan(DetectSystem(hostInfo), options), step |-> 1]
    /\ installed' = Unset
    /\ UNCHANGED <<hostInfo, disk, fetch, runVars, projectVars>>
At(step) == install # Unset /\ fetch = Unset /\ Steps[install.step] = step
Advance == install' = [install EXCEPT !.step = @ + 1]
Quit == install' = Unset
Plan == install.plan

\* Assets are fetched, extracted and dropped one by one: the server comes with the first.
EnsureBuild ==
    /\ At("build")
    /\ \/ Has("exe") /\ Advance /\ UNCHANGED disk
       \/ ~Has("exe") /\ disk' = Write("exe", Plan.assets) /\ Advance
       \/ ~Has("exe") /\ Len(Plan.assets) > 1 /\ disk' = Write("exe", SubSeq(Plan.assets, 1, 1)) /\ Quit   \* cut after the first
       \/ ~Has("exe") /\ disk' = Write("dl", Plan.assets[1]) /\ Quit                         \* cut before the extraction
       \/ ~Has("exe") /\ Has("dl") /\ disk' = Delete("dl") /\ Quit     \* cached: not extracted, removed, not found, exit 1
    /\ UNCHANGED <<hostInfo, installed, fetch, runVars, projectVars, commands>>
\* venv, scripts and README: written or not, nothing of the model reads them.
EnsurePlain(step) ==
    /\ At(step)
    /\ disk' = Write(step, "written") /\ Advance
    /\ UNCHANGED <<hostInfo, installed, fetch, runVars, projectVars, commands>>
ModelFile(plan) == plan.chosen.key   \* the file is named for the model
\* The final name exists from the first byte.
EnsureModel ==
    /\ At("model")
    /\ IF Has(ModelFile(Plan)) THEN Advance /\ UNCHANGED <<disk, fetch>>
       ELSE /\ disk' = Write(ModelFile(Plan), <<>>)
            /\ fetch' = [into |-> ModelFile(Plan), at |-> 0, mode |-> "install"]
            /\ UNCHANGED install
    /\ UNCHANGED <<hostInfo, installed, runVars, projectVars, commands>>

Record(plan) == [model |-> plan.server.model, port |-> plan.server.port, args |-> ServerArgs(Validate(plan.server))]
WriteConfig ==
    /\ At("config")
    /\ disk' = Write("config", Record(Plan)) /\ Advance
    /\ UNCHANGED <<hostInfo, installed, fetch, runVars, projectVars, commands>>
YamlAfter(plan) == Write("yaml", Render(plan.server))
WriteYaml ==
    /\ At("yaml")
    /\ disk' = YamlAfter(Plan) /\ Advance
    /\ UNCHANGED <<hostInfo, installed, fetch, runVars, projectVars, commands>>
\* ~/.noerelay/config.json: the address and model are replaced, the key is kept.
ConfigureHome ==
    /\ At("home")
    /\ disk' = Write("home", [key |-> IF Has("home") THEN disk["home"].key ELSE "noerelay-local",
                              port |-> Plan.server.port, model |-> Plan.server.model])
    /\ installed' = Plan /\ Quit
    /\ UNCHANGED <<hostInfo, fetch, runVars, projectVars, commands>>
\* The command dies between two steps, or a network error ends it.
Interrupted ==
    /\ install # Unset /\ Quit /\ fetch' = Unset
    /\ UNCHANGED <<hostInfo, disk, installed, runVars, projectVars, commands>>

\* ---- downloads
PartFile == "part"
\* An existing part is continued from its size.
HfDownload ==
    /\ Free /\ Given /\ ~Has("final")
    /\ LET size == IF Has(PartFile) THEN Len(disk[PartFile]) ELSE 0 IN
       fetch' = [into |-> PartFile, at |-> size, mode |-> IF size > 0 THEN "range" ELSE "whole"]
    /\ UNCHANGED <<hostInfo, diskVars, runVars, projectVars>>
\* Mutant of ReplyBody: a server that ignores the range is taken to have honoured it.
ReplyBodyIgnored(status, kept) == [kept |-> kept, from |-> IF status = "partial" THEN Len(kept) ELSE 0]
\* 206: the rest is appended. 200: the part is emptied and written again.
ReplyBody(status, kept) ==
    IF status = "partial" THEN [kept |-> kept, from |-> Len(kept)] ELSE [kept |-> <<>>, from |-> 0]
Respond(status) ==
    /\ fetch # Unset /\ fetch.mode \in {"range", "whole"}
    /\ fetch.mode = "whole" => status = "ok"
    /\ LET body == ReplyBody(status, IF Has(PartFile) THEN disk[PartFile] ELSE <<>>) IN
       /\ disk' = Write(PartFile, body.kept)
       /\ fetch' = [fetch EXCEPT !.at = body.from, !.mode = "body"]
    /\ UNCHANGED <<hostInfo, install, installed, runVars, projectVars, commands>>
\* A request past the end of the file is answered 416, which ends the command.
RangeRefused ==
    /\ fetch # Unset /\ fetch.mode = "range" /\ fetch.at = Blocks
    /\ fetch' = Unset
    /\ UNCHANGED <<hostInfo, diskVars, runVars, projectVars, commands>>
ReadChunk ==
    /\ fetch # Unset /\ fetch.mode \in {"install", "body"} /\ fetch.at < Blocks
    /\ disk' = Write(fetch.into, Append(disk[fetch.into], fetch.at + 1))
    /\ fetch' = [fetch EXCEPT !.at = @ + 1]
    /\ UNCHANGED <<hostInfo, install, installed, runVars, projectVars, commands>>
\* An empty read is the end: of the file, or of a connection that closed early.
EndOfBody ==
    /\ fetch # Unset /\ fetch.mode \in {"install", "body"}
    /\ fetch' = Unset
    /\ IF fetch.mode = "install" THEN Advance /\ UNCHANGED disk
       ELSE UNCHANGED install /\ disk' = Put(Delete(PartFile), "final", disk[PartFile])
    /\ UNCHANGED <<hostInfo, installed, runVars, projectVars, commands>>
HfFails ==
    /\ fetch # Unset /\ fetch.mode \in {"range", "whole", "body"}
    /\ fetch' = Unset
    /\ UNCHANGED <<hostInfo, diskVars, runVars, projectVars, commands>>

\* ---- the server
StartArgs(parser) == ServerArgs(Validate(Parse(parser, disk["yaml"])))
CanStart == Has("yaml") /\ Has("exe") /\ Has(disk["yaml"]["model"].value)
\* No look at a server that runs already; the pid is written after the launch.
StartServer(parser) ==
    /\ Free /\ Given /\ CanStart
    /\ LET pid == commands + 1 IN
       /\ servers' = servers \cup {[pid |-> pid, args |-> StartArgs(parser)]}
       /\ pidText' \in {pid, pidText}       \* killed before the write, or not
    /\ UNCHANGED <<hostInfo, diskVars, fetch, projectVars>>
StopServer ==
    /\ Free /\ Given
    /\ servers' = {s \in servers : s.pid # pidText}
    /\ pidText' = Unset
    /\ UNCHANGED <<hostInfo, diskVars, fetch, projectVars>>
ServerDies(s) ==
    /\ s \in servers /\ servers' = servers \ {s}
    /\ UNCHANGED <<hostInfo, diskVars, fetch, pidText, projectVars, commands>>
ScheduleTask ==
    /\ Free /\ Given /\ Has("scripts")
    /\ disk' = Write("unit", IF hostInfo.os = "linux" THEN "{wrapper}" ELSE "wrapper")
    /\ UNCHANGED <<hostInfo, install, installed, fetch, runVars, projectVars>>
UnscheduleTask ==
    /\ Free /\ Given /\ Has("unit")
    /\ disk' = IF hostInfo.os = "linux" THEN disk ELSE Delete("unit")
    /\ UNCHANGED <<hostInfo, install, installed, fetch, runVars, projectVars>>
\* `config set`: the file, under the defaults and over the environment, is written back.
ConfigSet(value) ==
    /\ Free /\ Given
    /\ \E base \in {9000, 9100} :   \* NOERELAY_BASE_URL unset or set
           disk' = Write("home", [key |-> value, model |-> IF Has("home") THEN disk["home"].model ELSE Unset,
                                  port |-> IF base = 9100 \/ ~Has("home") THEN base ELSE disk["home"].port])
    /\ installed' = Unset
    /\ UNCHANGED <<hostInfo, install, fetch, runVars, projectVars>>

\* ---- adopting a project
Adopt(force) ==
    /\ Free /\ Given
    /\ adopting' = [todo |-> Scaffold, force |-> force]
    /\ UNCHANGED <<hostInfo, diskVars, fetch, runVars, project>>
Kept(file, force) == project[file] # "none" /\ ~force
WriteScaffold(file) ==
    /\ adopting # Unset /\ file \in adopting.todo
    /\ project' = IF Kept(file, adopting.force) THEN project ELSE [project EXCEPT ![file] = "scaffold"]
    /\ adopting' = [adopting EXCEPT !.todo = @ \ {file}]
    /\ UNCHANGED <<hostInfo, diskVars, fetch, runVars, commands>>
AdoptEnds ==
    /\ adopting # Unset /\ adopting' = Unset      \* done, or killed
    /\ UNCHANGED <<hostInfo, diskVars, fetch, runVars, project, commands>>
\* The operator writes a file of the project.
Author(file) ==
    /\ adopting = Unset /\ project[file] # "own" /\ project' = [project EXCEPT ![file] = "own"]
    /\ Free /\ Given
    /\ UNCHANGED <<hostInfo, diskVars, fetch, runVars, adopting>>

NodeNext ==
    \/ \E o \in Options : Provision(o)
    \/ EnsureBuild \/ EnsureModel \/ WriteConfig \/ WriteYaml \/ ConfigureHome \/ Interrupted
    \/ \E step \in {"venv", "scripts", "readme"} : EnsurePlain(step)
    \/ HfDownload \/ RangeRefused \/ ReadChunk \/ EndOfBody \/ HfFails
    \/ \E status \in {"ok", "partial"} : Respond(status)
    \/ \E parser \in Parsers : StartServer(parser)
    \/ StopServer \/ ScheduleTask \/ UnscheduleTask \/ ConfigSet("typed")
    \/ \E s \in servers : ServerDies(s)
    \/ \E force \in BOOLEAN : Adopt(force)
    \/ \E file \in Scaffold : WriteScaffold(file) \/ Author(file)
    \/ AdoptEnds

NodeSpec == NodeInit /\ [][NodeNext]_nodeVars

(* After a provisioning that came to its end, however many were cut before  *)
(* it, config.json, llama.yaml read by either parser, the home              *)
(* configuration and the plan's own fields name the same server arguments   *)
(* (installer.py provision, llama_config.py server_args_from_config,        *)
(* provision.py ProvisionPlan.server_args: "same reference argument set").  *)
PlanArgs(plan) ==
    LET s == plan.server IN
    [flag \in {"model", "host", "port", "ctx", "parallel", "layers", "batch", "ubatch", "flash", "cacheK", "cacheV"}
              \cup {f \in {"mtp", "preserve", "metrics"} : s[f]}
              \cup (IF s.split = "layer" /\ Len(s.tensor) > 1 THEN {"split", "tensor"} ELSE {}) |-> s[flag]]
ConfigsAgree ==
    installed # Unset =>
        /\ \A parser \in Parsers : StartArgs(parser) = PlanArgs(installed)
        /\ disk["config"].args = PlanArgs(installed)
        /\ disk["home"].port = installed.server.port

(* The bytes a download keeps, in the part file or under the final name,    *)
(* are a prefix of the published file, over interruptions, resumptions and  *)
(* servers that ignore Range (hf.py download_gguf).                         *)
PrefixKept == \A file \in {PartFile, "final"} \cap DOMAIN disk : \A k \in DOMAIN disk[file] : disk[file][k] = k

(* The model chosen for a host fits its memory whenever some model does,    *)
(* and on an accelerator whenever one fits there: no smaller score is taken *)
(* while a better one fits in the same place (provision.py _pick_model).    *)
FitsGpu(m, sys) == 10 * m.minVram <= TotalVram(sys) * (CASE sys.backend = "cuda" -> 9 [] sys.backend = "metal" -> 7 [] OTHER -> -1)
FitsRam(m, sys) == 10 * m.minRam <= 6 * sys.ram
PlanFits ==
    (install # Unset /\ \A k \in DOMAIN Models : install.plan.chosen = Models[k] => \A o \in Options : o.model # Models[k]) =>
        LET sys == install.plan.system
            chosen == install.plan.chosen
            place == IF \E m \in Catalog : FitsGpu(m, sys) THEN {m \in Catalog : FitsGpu(m, sys)}
                     ELSE {m \in Catalog : FitsRam(m, sys)} IN
        place # {} => chosen \in place /\ \A m \in place : sys.backend # "cpu" => m.score <= chosen.score

(* A file the operator wrote in a project is never replaced unless `adopt`  *)
(* was told to force, over adoptions that were cut and repeated (cli.py     *)
(* cmd_adopt: "Idempotent and non-destructive").                            *)
OwnFilesKept ==
    [][\A f \in Scaffold : (project[f] = "own" /\ project'[f] # "own") => (adopting # Unset /\ adopting.force)]_nodeVars

(* What a provisioning leaves on the host at any moment, cut short or not:  *)
(* configurations that agree once it is complete, whole prefixes of what    *)
(* was published, a model that fits the host, and the operator's own files  *)
(* (installer.py, hf.py, provision.py, cli.py cmd_adopt).                   *)
InstallSound == [](ConfigsAgree /\ PrefixKept /\ PlanFits) /\ OwnFilesKept
=============================================================================
