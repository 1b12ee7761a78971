---------------------------- MODULE BaselineCommands ----------------------------
(*******************************************************************************)
(* Where a baseline's commands come from (generative_video_paper).  An outer   *)
(* command is the process's own, or a template that calls the bridge; the      *)
(* bridge runs an inner, official command.  Two entries prepare them: the      *)
(* preflight stage (Preflight) and the environment of the formal comparison    *)
(* (Apply), whose children inherit it.  A value is unset or empty, white space *)
(* or a command; only for an inner command is unset unlike empty.              *)
(*******************************************************************************)
EXTENDS Sequences, SequencesExt, FiniteSets, Naturals

CONSTANTS
    Baselines,     \* that some profile may require
    Root, Older,   \* the bundle root of the layout, and roots set before
    Starts         \* bound: how often a cell is run in one process

Outer == {"empty", "space", "bridge", "direct"}
Inner == {"unset", "empty", "space", "adapter", "native"}
Command(v) == v \notin {"unset", "empty", "space"}
Truthy(v) == v \notin {"unset", "empty"}

Names == {"gate", "useBridge", "requireBridge", "useAdapters", "requireCommands"}
Flags == [Names -> BOOLEAN]
Decision == {"earlier", "PASS", "FAIL"}

BaselineCommandsAssumption ==
    /\ IsFiniteSet(Baselines) /\ IsFiniteSet(Older)
    /\ Root \notin Older /\ Starts \in Nat

VARIABLES given,      \* the variables as the user set them
          env,        \* os.environ: outer and inner command of each baseline, bundle roots
          flags,      \* of the notebook, and whether the profile is a paper gate
          required,   \* by the protocol of the profile
          templates,  \* of the repository: the baselines with a bridge row, and with an adapter row
          session,    \* "idle", "bridge", "commands", "export", "raised"; "applied" after Apply
          source,     \* the preflight's template source: inner commands
          decision,   \* on disk
          starts

vars == <<given, env, flags, required, templates, session, source, decision, starts>>
fixed == <<given, flags, required, templates>>

----------------------------------------------------------------------------
(* Templates and decisions                                                  *)

BridgeTemplate(b) == IF b \in templates.bridge THEN "bridge" ELSE "empty"

AdapterTemplate(b) == IF b \in templates.adapter THEN "adapter" ELSE "unset"

\* The inner commands of the formal comparison: a value that is not empty wins.
WithTemplates(e) == [b \in Baselines |->
    IF Truthy(e[b]) \/ b \notin required THEN e[b]
    ELSE IF b \in templates.adapter THEN "adapter" ELSE e[b]]

\* The outer command of a baseline in the environment that is built.
CommandOf(e, b, bridge) ==
    IF Truthy(e[b]) THEN e[b] ELSE IF bridge THEN BridgeTemplate(b) ELSE "empty"

\* The outer command the bridge preflight looks at.
Effective(e, b, bridge) ==
    IF Command(e[b]) THEN e[b] ELSE IF bridge THEN BridgeTemplate(b) ELSE "empty"

\* Baselines whose effective command is the bridge and that have no inner command.
MissingInner(e, inner, bridge) ==
    {b \in required : Effective(e, b, bridge) = "bridge" /\ ~Command(inner[b])}

BridgeDecision(e, inner, f) ==
    IF f.gate /\ f.useBridge /\ f.requireBridge /\ MissingInner(e, inner, f.useBridge) # {}
    THEN "FAIL" ELSE "PASS"

MissingOuter(outer) == {b \in required : ~Command(outer[b])}

CommandsDecision(outer, f) ==
    IF f.gate /\ f.requireCommands /\ MissingOuter(outer) # {} THEN "FAIL" ELSE "PASS"

\* The first of equal values is kept, in the order they come.
Deduplicated(s) ==
    LET firsts[n \in 0 .. Len(s)] ==
            IF n = 0 THEN <<>>
            ELSE IF Contains(firsts[n - 1], s[n]) THEN firsts[n - 1]
            ELSE Append(firsts[n - 1], s[n])
    IN  firsts[Len(s)]

----------------------------------------------------------------------------
Init ==
    /\ env \in [outer : [Baselines -> Outer], inner : [Baselines -> Inner], roots : {<<>>} \cup
                    {<<o, o>> : o \in Older}]
    /\ given = env
    /\ flags \in {f \in Flags : f.gate \/ \A n \in Names \ {"gate"} : f[n]}
    /\ required \in SUBSET Baselines \ {{}}
    /\ templates \in [bridge : {{}, Baselines}, adapter : SUBSET Baselines]
    /\ session = "idle" /\ source = env.inner
    /\ decision = [d \in {"bridge", "commands", "environment"} |-> "earlier"]
    /\ starts = 0

(* write_external_baseline_colab_preflight_for_profile                      *)

Preflight ==
    /\ session = "idle" /\ starts < Starts
    /\ starts' = starts + 1 /\ session' = "bridge"
    /\ source' = [b \in Baselines |->
           IF env.inner[b] # "unset" \/ b \notin required \/ ~flags.useAdapters
           THEN env.inner[b] ELSE AdapterTemplate(b)]
    /\ UNCHANGED <<fixed, env, decision>>

\* A decision is written, then looked at: the reason of a failure stays on disk.
CheckBridge ==
    /\ session = "bridge"
    /\ LET d == BridgeDecision(env.outer, source, flags) IN
       /\ decision' = [decision EXCEPT !.bridge = d]
       /\ session' = IF d = "FAIL" THEN "raised" ELSE "commands"
    /\ UNCHANGED <<fixed, env, source, starts>>

Outers == [b \in Baselines |-> CommandOf(env.outer, b, flags.useBridge)]

CheckCommands ==
    /\ session = "commands"
    /\ LET d == CommandsDecision(Outers, flags) IN
       /\ decision' = [decision EXCEPT !.commands = d]
       /\ session' = IF d = "FAIL" THEN "raised" ELSE "export"
    /\ UNCHANGED <<fixed, env, source, starts>>

\* Only the outer commands reach the environment of later stages.
Export ==
    /\ session = "export" /\ session' = "idle"
    /\ env' = [env EXCEPT !.outer = [b \in Baselines |->
           IF b \in required /\ Truthy(Outers[b]) THEN Outers[b] ELSE env.outer[b]]]
    /\ UNCHANGED <<fixed, source, decision, starts>>

(* apply_formal_comparison_external_baseline_environment                    *)

ApplyFlags == [gate |-> flags.gate, useBridge |-> TRUE, requireBridge |-> TRUE,
               useAdapters |-> TRUE, requireCommands |-> TRUE]

\* The whole environment is put into the process, and the decisions are of what was put.
Apply ==
    /\ session \in {"idle", "applied"} /\ starts < Starts
    /\ LET inner == WithTemplates(env.inner)
           outer == [b \in Baselines |->
               IF b \in required THEN CommandOf(env.outer, b, TRUE) ELSE env.outer[b]]
           kept == [b \in Baselines |-> IF Truthy(outer[b]) THEN outer[b] ELSE env.outer[b]]
           bridge == BridgeDecision(kept, inner, ApplyFlags)
           commands == CommandsDecision(kept, ApplyFlags)
       IN  /\ env' = [outer |-> kept, inner |-> inner,
                      roots |-> Deduplicated(<<Root>> \o env.roots)]
           /\ decision' = [bridge |-> bridge, commands |-> commands,
                           environment |-> IF bridge = "PASS" /\ commands = "PASS"
                                           THEN "PASS" ELSE "FAIL"]
    /\ session' = "applied" /\ starts' = starts + 1
    /\ UNCHANGED <<fixed, source>>

Stopped ==
    \/ session \in {"idle", "applied"} /\ starts = Starts /\ UNCHANGED vars
    \/ session = "raised" /\ UNCHANGED vars

Next == Preflight \/ CheckBridge \/ CheckCommands \/ Export \/ Apply \/ Stopped

Spec == Init /\ [][Next]_vars

----------------------------------------------------------------------------
(* The children                                                             *)

\* How far the child of a baseline gets with what it inherits; with a bundle the adapter
\* needs no source directory.
Outcome(b, hasSource) ==
    IF ~Command(env.outer[b]) THEN "not_runnable"
    ELSE IF env.outer[b] = "direct" THEN "runs"
    ELSE IF ~hasSource /\ ~(env.inner[b] = "adapter" /\ env.roots # <<>>) THEN "no_source"
    ELSE IF ~Command(env.inner[b]) THEN "no_official_command"
    ELSE "runs"

----------------------------------------------------------------------------
(* Properties                                                               *)

\* The process holds commands or blanks, and what it was given stays known.
TypeOK ==
    /\ given.outer \in [Baselines -> Outer] /\ env.outer \in [Baselines -> Outer]
    /\ given.inner \in [Baselines -> Inner] /\ env.inner \in [Baselines -> Inner]
    /\ env.roots \in Seq(Older \cup {Root})
    /\ source \in [Baselines -> Inner] /\ flags \in Flags /\ required \subseteq Baselines
    /\ session \in {"idle", "bridge", "commands", "export", "raised", "applied"}
    /\ decision \in [{"bridge", "commands", "environment"} -> Decision]

\* When the environment of a paper gate passes, every child it requires gets as far as an
\* official or a direct command, with the sources there or not: what was checked is what
\* the children inherit.
PassedChildrenRun ==
    session = "applied" /\ flags.gate /\ decision.environment = "PASS" =>
        \A b \in required :
            /\ Outcome(b, TRUE) = "runs"
            /\ env.inner[b] = "adapter" => Outcome(b, FALSE) = "runs"

\* And the other way: a FAIL names a child that would not run.
FailedChildrenDoNot ==
    session = "applied" /\ decision.environment = "FAIL" =>
        \E b \in required : Outcome(b, TRUE) # "runs"

\* A command the user set is the one that runs, whatever templates there are, in whatever
\* order and however often the cells are run.
UserCommandWins ==
    \A b \in Baselines :
        /\ Command(given.outer[b]) => env.outer[b] = given.outer[b]
        /\ Command(given.inner[b]) => env.inner[b] = given.inner[b]

\* A stage that raised leaves the reason on disk, of this run.
FailureIsRecorded ==
    session = "raised" => decision.bridge = "FAIL" \/
                          (decision.bridge = "PASS" /\ decision.commands = "FAIL")

\* The roots the children read have the layout's first, each once, and none that was there
\* before is lost.
RootsAreKept ==
    session = "applied" =>
        /\ Head(env.roots) = Root
        /\ Cardinality(ToSet(env.roots)) = Len(env.roots)
        /\ ToSet(given.roots) \subseteq ToSet(env.roots)

\* Running the cell again changes neither the commands, nor the roots, nor a decision.
RepeatedIsTheSame == [][session = "applied" /\ session' = "applied" => env' = env /\ decision' = decision]_vars

=============================================================================
