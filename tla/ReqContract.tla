---------------------------- MODULE ReqContract ----------------------------
(***************************************************************************)
(* The requirement contract that `noerelay req` maintains: the manifest    *)
(* spec/coverage-manifest.json (requirements, the release tests of each,   *)
(* and the release gates), the wording tables of docs/requirements.md, and *)
(* the evidence envelopes of evidence/<package>/<test>.json.               *)
(*                                                                         *)
(* Every command is a process of its own.  It reads whole files, checks    *)
(* its arguments against what it read, and writes whole files back: each   *)
(* is opened, which empties it, and then filled.  No lock is taken, so     *)
(* commands interleave between their reads and writes, and one that dies   *)
(* leaves the files it had written and the one it had emptied.             *)
(***************************************************************************)
EXTENDS Naturals, Sequences

CONSTANTS
    ReqIds,         \* requirement ids (NR-<AREA>-NNN)
    ReqTests,       \* release test ids (T-<AREA>-NNN)
    Gates,          \* release gate ids (G<n>)
    Packages,       \* work packages
    ReqCommands,    \* processes that may run `noerelay req`
    MaxReqCommands, \* bound on the commands started
    NoGate,         \* no --gate was given
    NoEnvelope,     \* no evidence file
    Torn            \* a JSON file cut off while it was written

VARIABLES
    manifest,   \* [requirements: id -> tests, gates: id -> [requirements, tests]], or Torn
    wording,    \* ids that have a row in docs/requirements.md
    evidence,   \* package and test -> envelope, NoEnvelope or Torn
    reqProc,    \* what each process has still to write, in order
    opened,     \* processes that have emptied the file they write next
    overlapped, \* some command started while another was under way
    reqStarted  \* commands started (bounded)

reqVars == <<manifest, wording, evidence, reqProc, opened, overlapped, reqStarted>>

(* write_envelope keeps the requirement ids its caller named, unchecked. *)
Envelopes == [requirements: SUBSET ReqIds, status: {"observed_pass", "observed_fail"}]

ReqTypeOK ==
    /\ manifest # Torn =>
         /\ DOMAIN manifest.requirements \subseteq ReqIds
         /\ \A r \in DOMAIN manifest.requirements : manifest.requirements[r] \subseteq ReqTests
         /\ DOMAIN manifest.gates \subseteq Gates
    /\ wording \subseteq ReqIds
    /\ evidence \in [Packages \X ReqTests -> Envelopes \cup {NoEnvelope, Torn}]

-----------------------------------------------------------------------------
(* Reports over the files as they are. *)

IsReleaseReady(e) == e.status = "observed_pass"

(* Files that do not parse are reported as problems and skipped. *)
Loaded == {evidence[k] : k \in DOMAIN evidence} \ {NoEnvelope, Torn}

EvidenceOf(r) == {e \in Loaded : r \in e.requirements}

CoverageStatus(r) ==
    CASE \E e \in EvidenceOf(r) : IsReleaseReady(e) -> "COVERED"
      [] EvidenceOf(r) # {} /\ \A e \in EvidenceOf(r) : ~IsReleaseReady(e) -> "PARTIAL"
      [] OTHER -> "MISSING"

(* gate_report looks at the union of what release-ready envelopes name. *)
GateMissing(g) ==
    manifest.gates[g].requirements
        \ UNION {e.requirements : e \in {x \in Loaded : IsReleaseReady(x)}}

GatePasses(g) == GateMissing(g) = {}

-----------------------------------------------------------------------------
(* The editors of the manifest's text, each a function of what was read. *)

Entered(table, id, entry) ==
    [k \in DOMAIN table \cup {id} |-> IF k = id THEN entry ELSE table[k]]

WithRequirement(m, r, tests) == [m EXCEPT !.requirements = Entered(@, r, tests)]

(* A gate that exists is extended, another is created. *)
WithGate(m, g, r, tests) ==
    IF g = NoGate THEN m
    ELSE [m EXCEPT !.gates = Entered(@, g,
            IF g \in DOMAIN @
            THEN [requirements |-> @[g].requirements \cup {r}, tests |-> @[g].tests \cup tests]
            ELSE [requirements |-> {r}, tests |-> tests])]

(* append_requirement refuses an id whose quoted text is anywhere in the file. *)
Mentioned(m) == DOMAIN m.requirements \cup UNION {m.gates[g].requirements : g \in DOMAIN m.gates}

-----------------------------------------------------------------------------
ReqInit ==
    /\ manifest = [requirements |-> <<>>, gates |-> <<>>]
    /\ wording = {}
    /\ evidence = [k \in Packages \X ReqTests |-> NoEnvelope]
    /\ reqProc = [p \in ReqCommands |-> <<>>] /\ opened = {}
    /\ overlapped = FALSE
    /\ reqStarted = 0

(* A process begins a command.  Every guard of the command is checked on    *)
(* what is read here, and all it will write is made from it.                *)
Begin(p, writes) ==
    /\ reqProc[p] = <<>>
    /\ reqStarted < MaxReqCommands
    /\ reqStarted' = reqStarted + 1
    /\ overlapped' = (overlapped \/ \E q \in ReqCommands : reqProc[q] # <<>>)
    /\ reqProc' = [reqProc EXCEPT ![p] = writes]
    /\ UNCHANGED <<manifest, wording, evidence, opened>>

FileWrite(file, new) == [file |-> file, new |-> new]

(* parse_requirements_md finds the id in a row of its tables. *)
HasWording(r) == r \in wording

(* append_requirement: refused when either file has the id, or the manifest *)
(* is no JSON, which one more line does not make it.                        *)
AppendRequirement(p, r, tests, g) ==
    /\ manifest # Torn
    /\ r \notin Mentioned(manifest) /\ ~HasWording(r)
    /\ Begin(p, <<FileWrite("manifest", WithGate(WithRequirement(manifest, r, tests), g, r, tests)),
                  FileWrite("wording", wording \cup {r})>>)

(* Mutant of AppendReleaseTest: the gate is extended for an unknown requirement. *)
AppendReleaseTestUnfound(p, r, t, g) ==
    manifest # Torn /\ LET found == [q \in DOMAIN manifest.requirements |->
                    manifest.requirements[q] \cup IF q = r THEN {t} ELSE {}]
    IN  Begin(p, <<FileWrite("manifest", WithGate([manifest EXCEPT !.requirements = found], g, r, {t}))>>)

(* append_release_test: the requirement's line must be found. *)
AppendReleaseTest(p, r, t, g) ==
    /\ manifest # Torn
    /\ r \in DOMAIN manifest.requirements
    /\ LET added == [manifest EXCEPT !.requirements[r] = @ \cup {t}]
       IN  Begin(p, <<FileWrite("manifest", WithGate(added, g, r, {t}))>>)

(* record_evidence runs the test's command, then writes its envelope. *)
RecordEvidence(p, w, t, rs, status) ==
    Begin(p, <<FileWrite("evidence", [package |-> w, test |-> t,
                                  envelope |-> [requirements |-> rs, status |-> status]])>>)

(* The file of a package and test is replaced by the newest run's envelope. *)
PutEnvelope(x, e) == evidence' = [evidence EXCEPT ![<<x.package, x.test>>] = e]

NextWrite(p) == Head(reqProc[p])

(* The next file is opened, which empties it, whatever it has become since  *)
(* it was read.                                                             *)
OpenFile(p) ==
    /\ reqProc[p] # <<>> /\ p \notin opened
    /\ opened' = opened \cup {p}
    /\ \/ NextWrite(p).file = "manifest" /\ manifest' = Torn /\ UNCHANGED <<wording, evidence>>
       \/ NextWrite(p).file = "wording" /\ wording' = {} /\ UNCHANGED <<manifest, evidence>>
       \/ NextWrite(p).file = "evidence" /\ PutEnvelope(NextWrite(p).new, Torn) /\ UNCHANGED <<manifest, wording>>
    /\ UNCHANGED <<reqProc, overlapped, reqStarted>>

(* It is filled.  Two that fill one file write from its start both: the     *)
(* shorter text leaves the longer one's end, which is no JSON any more.     *)
WriteFile(p) ==
    /\ reqProc[p] # <<>> /\ p \in opened
    /\ opened' = opened \ {p}
    /\ reqProc' = [reqProc EXCEPT ![p] = Tail(@)]
    /\ \/ /\ NextWrite(p).file = "manifest"
          /\ manifest' = NextWrite(p).new \/ (overlapped /\ manifest' = Torn)
          /\ UNCHANGED <<wording, evidence>>
       \/ /\ NextWrite(p).file = "wording"
          /\ wording' = NextWrite(p).new \/ (overlapped /\ wording' = wording \cup NextWrite(p).new)
          /\ UNCHANGED <<manifest, evidence>>
       \/ /\ NextWrite(p).file = "evidence"
          /\ PutEnvelope(NextWrite(p).new, NextWrite(p).new.envelope) \/ (overlapped /\ PutEnvelope(NextWrite(p).new, Torn))
          /\ UNCHANGED <<manifest, wording>>
    /\ UNCHANGED <<overlapped, reqStarted>>

(* The process is killed: what it has not written stays unwritten, the file *)
(* it was filling is cut off, with some of its rows when it is the wording. *)
Killed(p) ==
    /\ reqProc[p] # <<>>
    /\ reqProc' = [reqProc EXCEPT ![p] = <<>>]
    /\ opened' = opened \ {p}
    /\ \/ UNCHANGED wording
       \/ p \in opened /\ NextWrite(p).file = "wording" /\ wording' \in SUBSET NextWrite(p).new
    /\ UNCHANGED <<manifest, evidence, overlapped, reqStarted>>

ReqCommand(p) ==
    \/ \E r \in ReqIds, t \in ReqTests, g \in Gates \cup {NoGate} :
          AppendRequirement(p, r, {t}, g) \/ AppendReleaseTest(p, r, t, g)
    \/ \E w \in Packages, t \in ReqTests, rs \in SUBSET ReqIds \ {{}},
          status \in {"observed_pass", "observed_fail"} : RecordEvidence(p, w, t, rs, status)

ReqNext == \E p \in ReqCommands : ReqCommand(p) \/ OpenFile(p) \/ WriteFile(p) \/ Killed(p)

ReqSpec == ReqInit /\ [][ReqNext]_reqVars

-----------------------------------------------------------------------------
(* Whatever commands interleave or die, a release gate that `req gate`      *)
(* passes (gate_report) names only requirements the manifest has, each of   *)
(* which `req coverage` (coverage_report) counts as covered.                *)
PassedGateCovered ==
    manifest # Torn => \A g \in DOMAIN manifest.gates :
        GatePasses(g) =>
            \A r \in manifest.gates[g].requirements :
                r \in DOMAIN manifest.requirements /\ CoverageStatus(r) = "COVERED"

(* As long as no two commands have overlapped, a requirement with wording   *)
(* in docs/requirements.md is in the manifest, so a release gate can ask    *)
(* for it: append_requirement killed between its two writes leaves a        *)
(* manifest entry without wording, never wording without an entry.  Killed  *)
(* while it fills the manifest, it leaves a file that every later command   *)
(* and report refuses.                                                      *)
WordingRegistered ==
    overlapped \/ manifest = Torn \/ wording \subseteq DOMAIN manifest.requirements

(* The requirement contract holds together over concurrent and killed       *)
(* commands of `req` (reqtest.py append_requirement, gate_report,           *)
(* coverage_report).                                                        *)
ContractSound == ReqTypeOK /\ PassedGateCovered /\ WordingRegistered
=============================================================================
