----------------------------- MODULE AgentLoop -----------------------------
(***************************************************************************)
(* The agent side of the local model plane: the threads of its adapter     *)
(* (deploy/host/local-model-plane.py), the spec-kit lifecycle that records *)
(* every request as an unsupported claim (src/noerelay/sdd.py), and the    *)
(* bounded tool loop (src/noerelay/mcp_agent.py).                          *)
(*                                                                         *)
(* A feature's files are written one after the other: spec.md, the claims  *)
(* file, then state.json.  The adapter's LOCK is held over the whole of    *)
(* prepare; the agents' own edits and the assessments take no lock.  Of    *)
(* the agents' edits those of the claims are modelled, those of spec.md    *)
(* are not.                                                                *)
(***************************************************************************)
EXTENDS Naturals, Sequences

CONSTANTS
    Threads,        \* adapter threads
    Projects,       \* project names, each hashed to its feature
    Texts,          \* request texts, each hashed to its claim id
    MaxSteps,       \* agent steps asked for (the code admits 1 to 8)
    MaxCalls,       \* tool calls in one message (the code admits 8)
    MaxRequests,    \* bound on the requests served
    Nobody          \* no thread, no text, no file

ASSUME AgentBounds == MaxSteps \in 1 .. 8 /\ MaxCalls \in 1 .. 8
ASSUME AgentNobody == Nobody \notin Threads \cup Texts \cup {"unsupported", "supported"}

VARIABLES
    sections,   \* project -> the claims' sections of its spec.md, in order
    claimFiles, \* project and text -> "unsupported", "supported" or Nobody
    stateFile,  \* project -> the text state.json names, or Nobody
    lifecycle,  \* the thread that holds LOCK, or Nobody
    agents,     \* thread -> where it is in its request
    served      \* requests taken (bounded)

agentVars == <<sections, claimFiles, stateFile, lifecycle, agents, served>>

Waiting == [at |-> "free", project |-> Nobody, text |-> Nobody, left |-> 0,
            calls |-> 0, escalated |-> FALSE, open |-> {}, verdict |-> "none"]

AgentTypeOK ==
    /\ \A p \in Projects : \A i \in 1 .. Len(sections[p]) : sections[p][i] \in Texts
    /\ claimFiles \in [Projects \X Texts -> {"unsupported", "supported", Nobody}]
    /\ stateFile \in [Projects -> Texts \cup {Nobody}]
    /\ lifecycle \in Threads \cup {Nobody}
    /\ \A t \in Threads : agents[t].left \in 0 .. MaxSteps /\ agents[t].calls \in 0 .. MaxCalls

AgentInit ==
    /\ sections = [p \in Projects |-> <<>>]
    /\ claimFiles = [k \in Projects \X Texts |-> Nobody]
    /\ stateFile = [p \in Projects |-> Nobody]
    /\ lifecycle = Nobody
    /\ agents = [t \in Threads |-> Waiting]
    /\ served = 0

files == <<sections, claimFiles, stateFile>>

Move(t, changes) == agents' = [agents EXCEPT ![t] = changes]
Turn(t, at) == Move(t, [agents[t] EXCEPT !.at = at])
Settled(t) == Move(t, Waiting)
Files(p) == {x \in Texts : claimFiles[<<p, x>>] # Nobody}

-----------------------------------------------------------------------------
(* prepare, under LOCK: /sdd/onboard, and a chat the gateway marks with     *)
(* noerelay_sdd.                                                            *)

(* Mutant of TakeLock: prepare runs without the lock. *)
TakeLockNot(t) == lifecycle' = lifecycle

TakeLock(t) == lifecycle = Nobody /\ lifecycle' = t

Receive(t, p, x, at) ==
    /\ agents[t].at = "free"
    /\ served < MaxRequests
    /\ served' = served + 1
    /\ Move(t, [Waiting EXCEPT !.at = at, !.project = p, !.text = x])
    /\ UNCHANGED <<files, lifecycle>>

(* The spec is read; a claim it already has is not appended again. *)
ReadSpec(t) ==
    /\ agents[t].at = "lock"
    /\ TakeLock(t)
    /\ LET a == agents[t]
           known == \E i \in 1 .. Len(sections[a.project]) : sections[a.project][i] = a.text
       IN  Turn(t, IF known THEN "claims" ELSE "append")
    /\ UNCHANGED <<files, served>>

AppendSection(t) ==
    /\ agents[t].at = "append"
    /\ sections' = [sections EXCEPT ![agents[t].project] = Append(@, agents[t].text)]
    /\ Turn(t, "claims")
    /\ UNCHANGED <<claimFiles, stateFile, lifecycle, served>>

(* A claims file that exists, perhaps refined by an agent, is left alone. *)
WriteClaims(t) ==
    /\ agents[t].at = "claims"
    /\ LET k == <<agents[t].project, agents[t].text>>
       IN  claimFiles' = [claimFiles EXCEPT ![k] = IF @ = Nobody THEN "unsupported" ELSE @]
    /\ Turn(t, "aee")
    /\ UNCHANGED <<sections, stateFile, lifecycle, served>>

Unlock == lifecycle' = Nobody

(* The assessment came back (any verdict is recorded), so the state is saved. *)
SaveState(t) ==
    /\ agents[t].at = "aee"
    /\ stateFile' = [stateFile EXCEPT ![agents[t].project] = agents[t].text]
    /\ Settled(t)
    /\ Unlock
    /\ UNCHANGED <<sections, claimFiles, served>>

(* It failed or took more than a minute: 503, and no state is saved. *)
AssessmentFails(t) ==
    /\ agents[t].at = "aee"
    /\ Settled(t)
    /\ Unlock
    /\ UNCHANGED <<files, served>>

-----------------------------------------------------------------------------
(* agent_run: at most `left` more model calls, each answered with tool calls. *)

StartAgent(t, p, escalate, steps) ==
    /\ agents[t].at = "free"
    /\ served < MaxRequests
    /\ served' = served + 1
    /\ Move(t, [Waiting EXCEPT !.at = "infer", !.project = p, !.left = steps, !.escalated = escalate])
    /\ UNCHANGED <<files, lifecycle>>

(* A message without tool calls ends the run with the audited feature's     *)
(* assessment; one with more than MaxCalls, or none left, ends it undone.   *)
Infer(t, calls) ==
    /\ agents[t].at = "infer"
    /\ \/ agents[t].left = 0 /\ Settled(t)
       \/ agents[t].left > 0 /\ calls > MaxCalls /\ Settled(t)
       \/ /\ agents[t].left > 0
          /\ calls \in 1 .. MaxCalls
          /\ Move(t, [agents[t] EXCEPT !.at = "tool", !.left = @ - 1, !.calls = calls])
       \/ /\ agents[t].left > 0
          /\ calls = 0
          /\ Move(t, [agents[t] EXCEPT
                        !.at = "assess",
                        !.open = IF stateFile[agents[t].project] = Nobody THEN {} ELSE Files(agents[t].project),
                        !.verdict = IF stateFile[agents[t].project] = Nobody THEN "requires_evidence" ELSE "supported"])
    /\ UNCHANGED <<files, lifecycle, served>>

AfterCall(t, failed) ==
    LET a == agents[t]
    IN  Move(t, [a EXCEPT !.calls = @ - 1,
                          !.at = IF a.calls = 1 THEN "infer" ELSE "tool",
                          !.escalated = @ \/ failed])

(* A tool outside the allowlist, an assessment, or a tool of the MCP         *)
(* gateway: only an observed failure raises the capability asked for.       *)
CallTool(t, failed) ==
    /\ agents[t].at = "tool"
    /\ AfterCall(t, failed)
    /\ UNCHANGED <<files, lifecycle, served>>

(* A workspace command that rewrites a claim of the agent's feature. *)
EditClaim(t, x, status) ==
    /\ agents[t].at = "tool"
    /\ claimFiles[<<agents[t].project, x>>] # Nobody
    /\ claimFiles' = [claimFiles EXCEPT ![<<agents[t].project, x>>] = status]
    /\ AfterCall(t, FALSE)
    /\ UNCHANGED <<sections, stateFile, lifecycle, served>>

(* assess_feature runs the adapter on one claims file after another. *)
AssessClaim(t, x) ==
    /\ agents[t].at = "assess"
    /\ x \in agents[t].open
    /\ Move(t, [agents[t] EXCEPT !.open = @ \ {x},
                  !.verdict = IF claimFiles[<<agents[t].project, x>>] = "supported" THEN @ ELSE "requires_evidence"])
    /\ UNCHANGED <<files, lifecycle, served>>

RespondAgent(t) ==
    /\ agents[t].at = "assess"
    /\ agents[t].open = {}
    /\ Settled(t)
    /\ UNCHANGED <<files, lifecycle, served>>

(* The adapter's process is replaced: every thread and the lock are gone. *)
AdapterRestarts ==
    /\ \E t \in Threads : agents[t].at # "free"
    /\ agents' = [t \in Threads |-> Waiting]
    /\ lifecycle' = Nobody
    /\ UNCHANGED <<files, served>>

AgentNext ==
    \/ \E t \in Threads, p \in Projects :
          \/ \E x \in Texts : Receive(t, p, x, "lock")
          \/ \E escalate \in BOOLEAN, steps \in 1 .. MaxSteps : StartAgent(t, p, escalate, steps)
    \/ \E t \in Threads :
          \/ ReadSpec(t) \/ AppendSection(t) \/ WriteClaims(t) \/ SaveState(t) \/ AssessmentFails(t)
          \/ \E calls \in 0 .. MaxCalls + 1 : Infer(t, calls)
          \/ \E failed \in BOOLEAN : CallTool(t, failed)
          \/ \E x \in Texts : (\E status \in {"unsupported", "supported"} : EditClaim(t, x, status)) \/ AssessClaim(t, x)
          \/ RespondAgent(t)
    \/ AdapterRestarts

AgentSpec == AgentInit /\ [][AgentNext]_agentVars

-----------------------------------------------------------------------------
(* Requests of one project served at the same time, and adapters killed      *)
(* half-way, never give spec.md two sections for one claim: the look for the *)
(* claim and the append of its section are one step under LOCK.              *)
OneSectionPerClaim ==
    \A p \in Projects : \A i, j \in 1 .. Len(sections[p]) :
        sections[p][i] = sections[p][j] => i = j

(* A claim an assessment can call supported, or state.json can name, is one  *)
(* spec.md has a section for: prepare writes the specification first, and a  *)
(* kill between its files leaves only what a later prepare completes.        *)
SpecifiedFirst ==
    \A p \in Projects : \A x \in Texts :
        /\ claimFiles[<<p, x>>] # Nobody => \E i \in 1 .. Len(sections[p]) : sections[p][i] = x
        /\ stateFile[p] = x => claimFiles[<<p, x>>] # Nobody

(* The lifecycle records hold together over concurrent chats and restarts   *)
(* of the adapter (aee_lifecycle prepare, assess_feature).                  *)
LifecycleSound == AgentTypeOK /\ OneSectionPerClaim /\ SpecifiedFirst
=============================================================================
