---------------------------- MODULE OfficialScoring ----------------------------
(***************************************************************************)
(* The formal scores of one external baseline                              *)
(* (external_baseline/modern_command_adapter.py and what it starts).       *)
(*                                                                         *)
(* For every comparison unit the adapter reads a result bundle, or runs a  *)
(* command: the user's own (direct) or the bridge, which starts the        *)
(* official command, reads its raw output and writes a normalised one.     *)
(* Every layer has its own deadline and kills nobody but its own child.    *)
(* The paths of both outputs depend on the unit alone, and nothing removes *)
(* what an earlier comparison left there.                                  *)
(***************************************************************************)
EXTENDS Naturals, Sequences, FiniteSets, SequencesExt

CONSTANTS
  Units,       \* comparison units: prompt, seed and attack
  Roots,       \* the bundle roots, in the order they are searched
  Kinds,       \* what a payload may lack; "formal" lacks nothing
  MaxRounds    \* bound on the comparisons that are run

OfficialScoringAssumption ==
  /\ IsFiniteSet(Units) /\ MaxRounds \in Nat
  /\ Len(Roots) \in Nat /\ DOMAIN Roots = 1 .. Len(Roots)
  /\ "formal" \in Kinds
  /\ Kinds \subseteq {"formal", "foreign", "oneSided", "unproven",
                      "unattacked"}

VARIABLES
  round,     \* number of the comparison
  command,   \* the command of the baseline in the environment
  pc,        \* what the adapter is doing
  todo,      \* the units it has still to score
  unit,      \* the unit whose command runs
  bundle,    \* the bundle records under each root
  output,    \* official_output.json of each unit
  raw,       \* official_output_official_raw.json of each unit
  orphans,   \* official commands whose bridge was killed
  records    \* the score records of this comparison

vars == <<round, command, pc, todo, unit, bundle, output, raw, orphans,
          records>>

Rounds == 0 .. MaxRounds      \* bundles were made in round 0
Payloads == [unit : Units, round : Rounds, kind : Kinds]
NoFile == [unit |-> "none"]
NoRecord == [status |-> "none", from |-> "none", payload |-> NoFile]
Unsupported == [NoRecord EXCEPT !.status = "unsupported"]
Measured(from, payload) ==
  [status |-> "measured_formal", from |-> from, payload |-> payload]

Bundles(u) == {NoFile} \union [unit : {u}, round : {0}, kind : Kinds]

Init ==
  /\ round = 0 /\ command = "none" /\ pc = "idle" /\ todo = {}
  /\ unit \in Units /\ orphans = {}
  /\ bundle \in [DOMAIN Roots -> [Units -> UNION {Bundles(u) : u \in Units}]]
  /\ \A r \in DOMAIN Roots, u \in Units : bundle[r][u] \in Bundles(u)
  /\ output = [u \in Units |-> NoFile] /\ raw = [u \in Units |-> NoFile]
  /\ records = [u \in Units |-> NoRecord]

-----------------------------------------------------------------------------
(* What each layer refuses. *)

(* validate_clean_negative_payload, ..._score_extraction_payload,            *)
(* ..._formal_comparison_eligibility and the identity of the baseline.       *)
BridgeRefuses == {"foreign", "oneSided"}

(* The reader of bundles also asks who made the bundle. *)
ReaderRefuses == BridgeRefuses \union {"unproven"}

(* A record also needs a verified attack on both videos. *)
AdapterRefuses == ReaderRefuses \union {"unattacked"}

Score(from, payload) ==
  IF payload.kind \in AdapterRefuses THEN Unsupported
  ELSE Measured(from, payload)

(* Mutation: one evidence directory for all units of the baseline. *)
FirstUnit(u) == CHOOSE v \in Units : TRUE

(* The evidence directory is named after the identity of the unit. *)
EvidenceOf(u) == u

(* The first root that has a record of the unit; the others are not asked. *)
Found(u) ==
  LET having == {r \in DOMAIN Roots : bundle[r][u] # NoFile}
  IN IF having = {} THEN NoFile
     ELSE bundle[CHOOSE r \in having : \A s \in having : r <= s][u]

-----------------------------------------------------------------------------
(* The environment of the comparison notebook: what the user configured      *)
(* stays, else the template of the repository's bridge is taken.             *)
Configure(own) ==
  /\ pc = "idle" /\ round < MaxRounds
  /\ command' = IF own = "none" THEN "bridge" ELSE own
  /\ UNCHANGED <<round, pc, todo, unit, bundle, output, raw, orphans, records>>

(* Without a command nothing is read, not even a bundle. *)
Begin ==
  /\ pc = "idle" /\ round < MaxRounds
  /\ round' = round + 1
  /\ IF command = "none"
     THEN /\ records' = [u \in Units |-> Unsupported]
          /\ UNCHANGED <<pc, todo>>
     ELSE /\ records' = [u \in Units |-> NoRecord]
          /\ pc' = "units" /\ todo' = Units
  /\ UNCHANGED <<command, unit, bundle, output, raw, orphans>>

Record(u, record) == /\ records' = [records EXCEPT ![u] = record]
                     /\ todo' = todo \ {u} /\ pc' = "units"

ReadBundle(u) ==
  /\ pc = "units" /\ u \in todo /\ Found(u) # NoFile
  /\ IF Found(u).kind \in ReaderRefuses
     THEN Record(u, Unsupported) /\ UNCHANGED output
     ELSE /\ output' = [output EXCEPT ![EvidenceOf(u)] = Found(u)]
          /\ Record(u, Score("bundle", Found(u)))
  /\ UNCHANGED <<round, command, unit, bundle, raw, orphans>>

(* A video is missing, or the command line cannot be formatted. *)
CannotStart(u) ==
  /\ pc = "units" /\ u \in todo /\ Found(u) = NoFile
  /\ Record(u, Unsupported)
  /\ UNCHANGED <<round, command, unit, bundle, output, raw, orphans>>

StartCommand(u) ==
  /\ pc = "units" /\ u \in todo /\ Found(u) = NoFile
  /\ unit' = u /\ pc' = "official"
  /\ UNCHANGED <<round, command, todo, bundle, output, raw, orphans, records>>

(* The command writes a payload of its own where it was told to. *)
OfficialWrites(kind) ==
  /\ pc = "official"
  /\ LET own == [unit |-> unit, round |-> round, kind |-> kind]
     IN IF command = "direct"
        THEN output' = [output EXCEPT ![EvidenceOf(unit)] = own]
             /\ UNCHANGED raw
        ELSE raw' = [raw EXCEPT ![EvidenceOf(unit)] = own]
             /\ UNCHANGED output
  /\ UNCHANGED <<round, command, pc, todo, unit, bundle, orphans, records>>

OfficialEnds ==
  /\ pc = "official"
  /\ pc' = IF command = "direct" THEN "read" ELSE "bridge"
  /\ UNCHANGED <<round, command, todo, unit, bundle, output, raw, orphans,
                 records>>

Stays == UNCHANGED <<round, command, unit, bundle, output, raw>>

(* A return code that is not 0, of the command or of the bridge above it.  *)
OfficialFails == pc = "official" /\ Record(unit, Unsupported) /\ Stays
                 /\ UNCHANGED orphans

(* run_bridge: a raw output must be there and pass; the rest raises, and     *)
(* the adapter sees a return code.                                           *)
BridgeAccepts == /\ raw[EvidenceOf(unit)] # NoFile
                 /\ raw[EvidenceOf(unit)].kind \notin BridgeRefuses

BridgeNormalises ==
  /\ pc = "bridge"
  /\ IF BridgeAccepts
     THEN /\ output' = [output EXCEPT ![EvidenceOf(unit)] =
                          raw[EvidenceOf(unit)]]
          /\ pc' = "read" /\ UNCHANGED <<records, todo>>
     ELSE Record(unit, Unsupported) /\ UNCHANGED output
  /\ UNCHANGED <<round, command, unit, bundle, raw, orphans>>

ReadOutput ==
  /\ pc = "read"
  /\ LET payload == output[EvidenceOf(unit)]
     IN Record(unit, IF payload = NoFile THEN Unsupported
                     ELSE Score("command", payload))
  /\ Stays /\ UNCHANGED orphans

(* A deadline expires.  The bridge kills the official command, but not what *)
(* that one started; the adapter kills the bridge, and the official command *)
(* goes on.  With a direct command nobody is left who writes.               *)
TimesOut ==
  /\ pc \in {"official", "bridge"} /\ Record(unit, Unsupported) /\ Stays
  /\ orphans' \in
       IF command = "bridge" /\ pc = "official"
       THEN {orphans, orphans \union {[unit |-> unit, round |-> round]}}
       ELSE {orphans}

OrphanEnds(o, kind) ==
  /\ o \in orphans /\ orphans' = orphans \ {o}
  /\ raw' = [raw EXCEPT ![EvidenceOf(o.unit)] =
               [unit |-> o.unit, round |-> o.round, kind |-> kind]]
  /\ UNCHANGED <<round, command, pc, todo, unit, bundle, output, records>>

End ==
  /\ pc = "units" /\ todo = {} /\ pc' = "idle"
  /\ UNCHANGED <<todo, records, orphans>> /\ Stays

Adapter == \/ \E u \in Units : ReadBundle(u) \/ CannotStart(u) \/ StartCommand(u)
           \/ BridgeNormalises \/ ReadOutput \/ TimesOut \/ End

Next ==
  \/ \E own \in {"none", "direct"} : Configure(own)
  \/ Begin \/ Adapter
  \/ \E kind \in Kinds : OfficialWrites(kind)
  \/ OfficialEnds \/ OfficialFails
  \/ \E o \in orphans, kind \in Kinds : OrphanEnds(o, kind)

(* The adapter and the bridge go on, and deadlines expire; nothing is        *)
(* expected of an official command.                                          *)
Spec == Init /\ [][Next]_vars /\ WF_vars(Adapter)
-----------------------------------------------------------------------------
(* Type invariant; nothing is scored twice in one comparison. *)
TypeOK ==
  /\ round \in Rounds /\ command \in {"none", "direct", "bridge"}
  /\ pc \in {"idle", "units", "official", "bridge", "read"}
  /\ todo \subseteq Units /\ unit \in Units
  /\ \A u \in Units : output[u] \in Payloads \union {NoFile}
                      /\ raw[u] \in Payloads \union {NoFile}
  /\ orphans \subseteq [unit : Units, round : Rounds]
  /\ \A u \in Units :
       /\ records[u].status \in {"none", "measured_formal", "unsupported"}
       /\ u \in todo => records[u] = NoRecord

(* Whatever command was configured, a measured record rests on a payload     *)
(* of its own unit that lacks nothing (_measured_formal_record_from_payload  *)
(* is behind both ways to a payload).                                        *)
MeasuredIsFormal ==
  \A u \in Units : records[u].status = "measured_formal" =>
    records[u].payload.unit = u /\ records[u].payload.kind = "formal"

(* The evidence file a measured record names holds the payload it was made  *)
(* of as long as the record stands, late writers and other units included.  *)
EvidenceBacksRecord ==
  \A u \in Units : records[u].status = "measured_formal" =>
    output[EvidenceOf(u)] = records[u].payload

(* A comparison that ends has one verdict for every unit: a refused bundle, *)
(* a failed command or an expired deadline costs its own unit only.         *)
EndHasAllRecords == pc = "idle" /\ round > 0 =>
                      \A u \in Units : records[u].status # "none"

(* No comparison waits for ever for an official command that hangs.         *)
ComparisonEnds == pc # "idle" ~> pc = "idle"

(* official_command_bridge.py:141 has an official command that outputs no   *)
(* score fail: what the bridge normalises was written by the command it has *)
(* just run.                                                                *)
RawIsOfThisCommand ==
  [][BridgeNormalises /\ pc' = "read" => raw[EvidenceOf(unit)].round = round]_vars
=============================================================================
