----------------------------- MODULE MCPlatform -----------------------------
(***************************************************************************)
(* What the server builds on, each part on its own instance: owned process *)
(* trees, captured output, artifacts, job and workflow history, the tunnel *)
(* runtime, evidence of actions, verification runs and the frames of an    *)
(* extension.  One of them runs, the others stay where they begin.         *)
(***************************************************************************)
EXTENDS OwnedProcesses, OutputDelivery, HistoryRetention, TunnelRuntime,
        ActionEvidence, VerificationRun, ExtensionTransport

VARIABLE serving

TheRest ==
    /\ IF serving = "processes" THEN TRUE ELSE UNCHANGED processVars
    /\ IF serving = "artifacts" THEN TRUE ELSE UNCHANGED artifactVars
    /\ IF serving = "output" THEN TRUE ELSE UNCHANGED outputVars
    /\ IF serving \in {"job history", "workflow history"} THEN TRUE ELSE UNCHANGED historyVars
    /\ IF serving = "tunnel" THEN TRUE ELSE UNCHANGED tunnelVars
    /\ IF serving = "evidence" THEN TRUE ELSE UNCHANGED evidenceVars
    /\ IF serving = "verification" THEN TRUE ELSE UNCHANGED verificationVars
    /\ IF serving \in {"frames", "nesting", "notifications", "transport"} THEN TRUE ELSE UNCHANGED stdioVars

PlatformInit ==
    /\ serving \in {"processes", "artifacts", "output", "job history", "workflow history", "tunnel",
                   "evidence", "verification", "frames", "nesting", "notifications", "transport"}
    /\ ProcessInit /\ (serving # "processes" => backend = "psutil" /\ native)
    /\ OutputInit /\ (serving # "output" => mode = "full")
    /\ TunnelInit /\ (serving # "tunnel" => policy = [auto |-> TRUE, strict |-> TRUE, pin |-> NoRelease])
    /\ EvidenceInit /\ (serving # "evidence" => op = Start("git_stage", "dag", NoScan))
    /\ VerificationInit
    /\ serving # "verification" =>
          req = [background |-> FALSE, parallel |-> FALSE, failFast |-> FALSE, auto |-> FALSE, limit |-> 1]
    /\ StdioInit
    /\ serving = "transport" => \A i \in 2..WireLen : wire[i] = IF i = 2 THEN "nl" ELSE "x"
    /\ serving \notin {"frames", "transport"} => wire = [i \in 1..WireLen |-> "x"]
    /\ ArtifactInit /\ HistoryInit

PlatformNext ==
    /\ \/ serving = "processes" /\ ProcessNext
       \/ serving = "artifacts" /\ ArtifactNext
       \/ serving = "output" /\ OutputNext
       \/ serving = "job history" /\ JobHistoryNext
       \/ serving = "workflow history" /\ FlowHistoryNext
       \/ serving = "tunnel" /\ TunnelNext
       \/ serving = "evidence" /\ EvidenceNext
       \/ serving = "verification" /\ VerificationNext
       \/ serving = "frames" /\ FramingNext
       \/ serving = "nesting" /\ ProbeNext
       \/ serving = "notifications" /\ FloodNext
       \/ serving = "transport" /\ LifeNext
    /\ TheRest
    /\ UNCHANGED serving

PlatformSpec ==
    PlatformInit /\ [][PlatformNext]_<<serving, processVars, artifactVars, outputVars, historyVars,
                                        tunnelVars, evidenceVars, verificationVars, stdioVars>>

\* Artifacts, and processes other than the root, are only told apart by their state.
PlatformSymmetry == Permutations(Artifact) \cup Permutations(Proc \ {Root})

=============================================================================
