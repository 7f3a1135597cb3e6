----------------------------- MODULE LlamaPlan ------------------------------
(***************************************************************************)
(* What a host is provisioned with (src/noerelay: system_info, models,     *)
(* provision, llama_config): the accelerator found, the model and the GPU  *)
(* split chosen for it, the master configuration rendered to llama.yaml,   *)
(* and the arguments llama-server is started with, which come from parsing *)
(* and validating that file again.                                         *)
(*                                                                         *)
(* Memory is in units of 1/10 GB so that the headroom factors are whole.   *)
(***************************************************************************)
EXTENDS Integers, FiniteSets, Sequences, SequencesExt, Picking

CONSTANTS
    Models,   \* Seq of [key, score, minVram, minRam, cpuFriendly]
    Unset     \* Python's None

NoModel == [key |-> Unset]
\* The entries of MODEL_CATALOG; every one needs some memory on a GPU. None is no split mode.
ASSUME CatalogAssumption ==
    /\ Models \in Seq([key : STRING, score : Nat, minVram : Nat \ {0}, minRam : Nat, cpuFriendly : BOOLEAN])
    /\ Models # <<>>
    /\ Unset \notin {"none", "layer", "row"}

\* What nvidia-smi, sysctl and /proc said of a host, as detect_system reads it.
SelectBackend(gpus, apple) ==
    IF \E k \in DOMAIN gpus : gpus[k].vendor = "nvidia" THEN "cuda" ELSE IF apple THEN "metal" ELSE "cpu"
DetectNvidia(host) == host.nvidia
DetectApple(host) ==
    IF host.apple THEN <<[vendor |-> "apple", vram |-> host.ram, bandwidth |-> 0, display |-> TRUE]>> ELSE <<>>
DetectSystem(host) ==
    LET gpus == IF host.os = "darwin" THEN DetectApple(host) ELSE DetectNvidia(host) IN
    [os |-> host.os, arch |-> host.arch, ram |-> host.ram, gpus |-> gpus, backend |-> SelectBackend(gpus, host.apple)]
TotalVram(sys) == SumFunction([k \in DOMAIN sys.gpus |-> sys.gpus[k].vram])
NvidiaGpus(sys) == Picked(sys.gpus, {k \in DOMAIN sys.gpus : sys.gpus[k].vendor = "nvidia"})

BuildAssets(sys) ==
    LET name == <<sys.backend, sys.os, sys.arch>> IN
    IF sys.backend = "cuda" /\ sys.os = "windows" THEN <<<<"llama", name>>, <<"cudart", name>>>> ELSE <<<<"llama", name>>>>

\* Weights by memory bandwidth, by memory where the GPU is unknown; four fifths
\* for the one that drives the display; scaled to about 25, never below 1.
BaseWeight(gpu) == (IF gpu.bandwidth # 0 THEN gpu.bandwidth ELSE IF gpu.vram > 1 THEN gpu.vram ELSE 1)
                   * (IF gpu.display THEN 4 ELSE 5)
RecommendSplit(sys) ==
    LET gpus == NvidiaGpus(sys)
        total == SumFunction([k \in DOMAIN gpus |-> BaseWeight(gpus[k])])
        scaled(gpu) == (50 * BaseWeight(gpu) + total) \div (2 * total) IN
    IF Len(gpus) < 2 THEN <<>>
    ELSE [k \in DOMAIN gpus |-> IF scaled(gpus[k]) < 1 THEN 1 ELSE scaled(gpus[k])]

UsableVram(sys) == (TotalVram(sys) * (CASE sys.backend = "cuda" -> 9 [] sys.backend = "metal" -> 7 [] OTHER -> 0)) \div 10
UsableRam(sys) == (sys.ram * 6) \div 10
Catalog == {Models[k] : k \in DOMAIN Models}
\* The best agentic score, the larger model among equals, the first of the rest.
Outranks(a, b) == a.score > b.score \/ (a.score = b.score /\ a.minVram > b.minVram)
BestOf(S) == Models[CHOOSE k \in DOMAIN Models :
                        /\ Models[k] \in S
                        /\ \A j \in DOMAIN Models : Models[j] \in S => ~Outranks(Models[j], Models[k])
                        /\ \A j \in 1..k - 1 : Models[j] \in S => Outranks(Models[k], Models[j])]
PickModel(sys) ==
    LET onGpu == {m \in Catalog : sys.backend \in {"cuda", "metal"} /\ m.minVram <= UsableVram(sys)}
        inRam == {m \in Catalog : m.minRam <= UsableRam(sys)}
        friendly(S) == {m \in S : m.cpuFriendly} IN
    IF onGpu # {} THEN BestOf(onGpu)
    ELSE IF inRam # {} THEN BestOf(IF sys.backend = "cpu" /\ friendly(inRam) # {} THEN friendly(inRam) ELSE inRam)
    ELSE LET last == IF friendly(Catalog) # {} THEN friendly(Catalog) ELSE Catalog IN
         CHOOSE m \in last : \A n \in last : m.minRam <= n.minRam
PickCtx(sys) ==
    IF sys.backend = "cpu" THEN 4096
    ELSE IF TotalVram(sys) >= 240 \/ sys.ram >= 320 THEN 16384
    ELSE IF TotalVram(sys) >= 120 \/ sys.ram >= 160 THEN 131072
    ELSE 8192

DefaultServer ==
    [model |-> "", host |-> "127.0.0.1", port |-> 8080, layers |-> 999, split |-> "none", tensor |-> <<>>, ctx |-> 131072,
     parallel |-> 1, batch |-> 512, ubatch |-> 256, flash |-> "auto", cacheK |-> "q4_0", cacheV |-> "q4_0",
     mtp |-> FALSE, preserve |-> TRUE, metrics |-> TRUE]
\* Options the operator gives `noerelay provision`; Unset where left out.
MakePlan(sys, options) ==
    LET split == sys.backend = "cuda" /\ Len(NvidiaGpus(sys)) >= 2
        model == IF options.model = NoModel THEN PickModel(sys) ELSE options.model IN
    [system |-> sys, assets |-> BuildAssets(sys), chosen |-> model,
     server |-> [DefaultServer EXCEPT !.model = model.key, !.port = options.port,
                     !.layers = IF sys.backend = "cpu" THEN 0 ELSE 999,
                     !.split = IF split THEN "layer" ELSE "none", !.tensor = IF split THEN RecommendSplit(sys) ELSE <<>>,
                     !.ctx = IF options.ctx = Unset THEN PickCtx(sys) ELSE options.ctx]]

\* ---- llama.yaml: a value is text, and is read back by one of two parsers
Parsers == {"yaml", "mini"}
Quoted == {"model", "tensor"}
Render(server) == [key \in DOMAIN server |-> [quoted |-> key \in Quoted, value |-> server[key]]]
\* Bare none is a string to PyYAML and nothing to the built-in parser; bare on
\* and off are truth values to both.  Quotes are put around a path and taken off
\* again, which gives it back as long as the path itself has no apostrophe (or the
\* like): PyYAML refuses a file with such a path, and that is left out here.
ParseScalar(parser, key, token) ==
    IF ~token.quoted /\ key \in {"split"} /\ token.value = "none" /\ parser = "mini" THEN Unset ELSE token.value
Parse(parser, text) == [key \in DOMAIN text |-> ParseScalar(parser, key, text[key])]
\* Defaults under what was given; a given nothing stays and is not checked.
Validate(given) ==
    [key \in DOMAIN given \cup DOMAIN DefaultServer |-> IF key \in DOMAIN given THEN given[key] ELSE DefaultServer[key]]
Always == {"model", "host", "port", "ctx", "parallel", "batch", "ubatch", "flash", "cacheK", "cacheV"}
Optional(server) ==
    {f \in {"mtp", "preserve", "metrics"} : server[f]}
    \cup (IF server.split # Unset /\ server.split \in {"layer", "row"}
          THEN {"split"} \cup {f \in {"tensor"} : server.tensor # <<>>} ELSE {})
ServerArgs(server) == [flag \in Always \cup Optional(server) \cup {"layers"} |-> server[flag]]
=============================================================================
