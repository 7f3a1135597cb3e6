----------------------------- MODULE MC_Gateway -----------------------------
(* Two requests of the inference pipeline, with one or two tenants.        *)
EXTENDS InferencePipeline

CONSTANTS t1, t2

ask(t, m, l, k, v, c) ==
    [tenant |-> t, project |-> "p", messages |-> m, local |-> l, risk |-> k, valid |-> v, clear |-> c]
MCRuns == 1 .. 2
MCTenants == {t1, t2}
\* "long" is compressed to "short".
MCCompress == [m \in {"short", "long"} |-> "short"]
plain(t) == ask(t, "short", FALSE, "low", TRUE, TRUE)
local(t, k) == ask(t, "long", TRUE, k, TRUE, TRUE)
load(loaded, first, second) == [portfolio |-> loaded, requests |-> <<first, second>>]
MCWorkloads == {
    load(<<"openrouter">>, plain(t1), plain(t1)), load(<<"openrouter">>, plain(t1), plain(t2)),
    load(<<"qwen", "openrouter">>, local(t1, "low"), ask(t1, "short", FALSE, "high", TRUE, FALSE)),
    load(<<"qwen", "openrouter">>, ask(t2, "short", FALSE, "low", FALSE, TRUE), local(t1, "critical")),
    load(<<"openrouter">>, ask(t1, "short", FALSE, "critical", TRUE, FALSE), plain(t2)) }
MCProjects == {"p"}
MCSwitches == {"global", "p", "openrouter"}
MCCapacities == {1, 2}
MCProviders == {"qwen", "openrouter"}
MCLeaving == {t1}
=============================================================================
