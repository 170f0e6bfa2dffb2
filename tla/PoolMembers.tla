---------------------------- MODULE PoolMembers -----------------------------
(***************************************************************************)
(* What the server knows of a DrivePool pool: the agent asks dpcmd for the *)
(* pool's parts and walks its folders for the copies each is to have (Get- *)
(* PoolInventory, Get-DuplicationRules), the report leaves rows of parts   *)
(* and a list of rules (agent-service.ts, duplication.ts), and the parts   *)
(* become the roots of the catalog (root-detection.ts).                    *)
(***************************************************************************)
EXTENDS Integers, Sequences, FiniteSets

CONSTANTS
    FolderNames,      \* the names folders have
    Folders,          \* the pool's folders, each the path of its names; << >> is the pool itself
    FirstLevels,      \* of each folder: the copies set for it at first, 0 when it inherits them
    PoolDisks,        \* the disks that may hold a part
    CopyLevels,       \* the copies there may be, and 0 for none set
    DuplicationDepth, \* of agent.config.json: how deep the folders are asked
    MaxPoolReports, MaxPoolEdits \* bounds: reports; changes and failures

Above(f) == {SubSeq(f, 1, n) : n \in 0..Len(f)}
Deepest(fs) == CHOOSE f \in fs : \A g \in fs : Len(g) <= Len(f)

ASSUME PoolAssumption ==
  /\ DuplicationDepth \in Nat /\ MaxPoolReports \in Nat /\ MaxPoolEdits \in Nat
  /\ Folders \subseteq Seq(FolderNames) /\ IsFiniteSet(Folders)
  /\ <<>> \in Folders /\ \A f \in Folders : Above(f) \subseteq Folders
  /\ CopyLevels \subseteq Nat /\ 0 \in CopyLevels /\ FirstLevels \in [Folders -> CopyLevels] /\ FirstLevels[<<>>] > 0

VARIABLES
    setLevel,    \* DrivePool: the copies set for a folder, 0 when it inherits
    poolDisks,   \* Windows: of each disk, whether it has a letter, is connected, is in the pool
    inventory,   \* the agent's collection under way
    partRows,    \* pool_parts: of each disk, its row or <<>>
    manualLevel, \* duplication.rules with source manual: of each folder, 0 when it has none
    agentLevel,  \* the ones with source drivepool: a function from some of the folders
    knownRoots,  \* catalog.roots, by disk and path
    learned,     \* ghost: what the rules in force were made from
    moved,       \* ghost: the disks whose path changed
    emptied,     \* ghost: the roots were removed since the last report
    poolReports, poolEdits \* ghost: counters for the bounds

memberVars == <<setLevel, poolDisks, inventory, partRows, manualLevel, agentLevel, knownRoots, learned, moved, emptied, poolReports, poolEdits>>

\* DrivePool's own: the nearest level set at or above a folder, and whether all below agree.
LevelOf(f) == setLevel[Deepest({g \in Above(f) : setLevel[g] > 0})]
Uniform(f) == \A g \in Folders : f \in Above(g) => LevelOf(g) = LevelOf(f)

NoInventory == [pc |-> "off", parts |-> {}, queue |-> <<>>, map |-> <<>>, covered |-> {}, fresh |-> TRUE]
NothingLearned == [levels |-> <<>>, covered |-> {}]

EditsPool == poolEdits < MaxPoolEdits /\ poolEdits' = poolEdits + 1

-----------------------------------------------------------------------------
(* The agent.                                                              *)

\* Resolve-PoolPartVolume: the letter if there is one, else the GUID path; a part
\* that no volume holds is missing, and keeps the device path dpcmd named it by.
PartOf(d) ==
  [disk |-> d, missing |-> ~poolDisks[d].here,
   path |-> IF ~poolDisks[d].here THEN "device" ELSE IF poolDisks[d].letter THEN "letter" ELSE "guid"]

\* dpcmd list-poolparts: the part of every disk of the pool, connected or not.
Listed == {PartOf(d) : d \in {e \in PoolDisks : poolDisks[e].member}}

\* The parts, and the probe is given the pool's root.
CollectBegins ==
  /\ inventory.pc = "off" /\ poolReports < MaxPoolReports /\ poolReports' = poolReports + 1
  /\ inventory' = [NoInventory EXCEPT !.pc = "probe", !.queue = <<(<<>>)>>,
                                      !.parts = Listed]
  /\ UNCHANGED <<setLevel, poolDisks, partRows, manualLevel, agentLevel, knownRoots, learned, moved, emptied, poolEdits>>

\* Get-ChildItem lists the folders of one in an order that is always the same.
Ordered(fs) ==
  CHOOSE s \in [1..Cardinality(fs) -> fs] : \A i, j \in 1..Cardinality(fs) : s[i] = s[j] => i = j

\* The folders of one below f, breadth first, up to the depth.
Children(f) == IF Len(f) >= DuplicationDepth THEN <<>> ELSE Ordered({g \in Folders : Len(g) = Len(f) + 1 /\ f \in Above(g)})

\* dpcmd get-duplication: the expected copies, and whether some below have others.
Answer(f) == [copies |-> LevelOf(f), mixed |-> ~Uniform(f)]

\* It answers: no descent where all below agrees.
Asks ==
  /\ inventory.pc = "probe" /\ inventory.queue # <<>>
  /\ LET f == Head(inventory.queue)
     IN inventory' = [inventory EXCEPT
          !.map = [g \in DOMAIN @ \cup {f} |-> IF g = f THEN Answer(f).copies ELSE @[g]],
          !.covered = @ \cup IF Answer(f).mixed THEN {f} ELSE {g \in Folders : f \in Above(g)},
          !.queue = Tail(@) \o IF Answer(f).mixed THEN Children(f) ELSE <<>>]
  /\ UNCHANGED <<setLevel, poolDisks, partRows, manualLevel, agentLevel, knownRoots, learned, moved, emptied, poolReports, poolEdits>>

\* It does not: the folders below are asked all the same.
AskFails ==
  /\ inventory.pc = "probe" /\ inventory.queue # <<>> /\ EditsPool
  /\ inventory' = [inventory EXCEPT !.queue = Tail(@) \o Children(Head(@))]
  /\ UNCHANGED <<setLevel, poolDisks, partRows, manualLevel, agentLevel, knownRoots, learned, moved, emptied, poolReports>>

\* Mutant of Inherited: the pool's own level stands for the nearest folder's.
InheritedFromTop(map, f) == {map[g] : g \in {<<>>} \cap DOMAIN map}

\* Select-ChangedDuplicationRules: the level of the nearest folder above that was read.
Inherited(map, f) ==
  LET read == (Above(f) \ {f}) \cap DOMAIN map
  IN {map[Deepest(r)] : r \in {read} \ {{}}}

Changed(map) == {f \in DOMAIN map : f = <<>> \/ map[f] \notin Inherited(map, f)}

ProbeEnds ==
  /\ inventory.pc = "probe" /\ inventory.queue = <<>>
  /\ inventory' = [inventory EXCEPT !.pc = "send"]
  /\ UNCHANGED <<setLevel, poolDisks, partRows, manualLevel, agentLevel, knownRoots, learned, moved, emptied, poolReports, poolEdits>>

\* The report does not arrive, or the agent stops: nothing of it is kept.
ReportLost ==
  /\ inventory.pc # "off" /\ EditsPool /\ inventory' = NoInventory
  /\ UNCHANGED <<setLevel, poolDisks, partRows, manualLevel, agentLevel, knownRoots, learned, moved, emptied, poolReports>>

-----------------------------------------------------------------------------
(* The server.                                                             *)

\* upsertPools(): a part that is not listed any more keeps its row.
Upserted ==
  [d \in PoolDisks |-> LET new == {p \in inventory.parts : p.disk = d}
                   IN IF new = {} THEN partRows[d] ELSE <<CHOOSE p \in new : TRUE>>]

\* planRootDetection(): the parts that are not missing and whose path has no root.
Detected(rows) ==
  {[disk |-> d, path |-> rows[d][1].path] : d \in {e \in PoolDisks : rows[e] # <<>> /\ ~rows[e][1].missing}} \ knownRoots

\* ingest(): the parts, the rules unless there are none, and the roots if there are none.
ReportArrives ==
  LET map == inventory.map
  IN /\ inventory.pc = "send" /\ inventory' = NoInventory
     /\ partRows' = Upserted
     /\ IF map = <<>> THEN UNCHANGED <<agentLevel, learned>>
        ELSE /\ agentLevel' = [f \in Changed(map) |-> map[f]]
             /\ learned' = [levels |-> map, covered |-> IF inventory.fresh THEN inventory.covered ELSE {}]
     /\ knownRoots' = IF knownRoots = {} THEN Detected(partRows') ELSE knownRoots
     /\ emptied' = FALSE
     /\ UNCHANGED <<setLevel, poolDisks, manualLevel, moved, poolReports, poolEdits>>

\* POST /api/catalog/roots/detect.
Detects ==
  /\ Detected(partRows) # {} /\ knownRoots' = knownRoots \cup Detected(partRows)
  /\ UNCHANGED <<setLevel, poolDisks, inventory, partRows, manualLevel, agentLevel, learned, moved, emptied, poolReports, poolEdits>>

RemovesRoot(r) ==
  /\ EditsPool /\ knownRoots' = knownRoots \ {r} /\ emptied' = (knownRoots' = {})
  /\ UNCHANGED <<setLevel, poolDisks, inventory, partRows, manualLevel, agentLevel, learned, moved, poolReports>>

\* A rule written by hand, or taken back.
WritesRule(f, level) ==
  /\ EditsPool /\ manualLevel[f] # level /\ manualLevel' = [manualLevel EXCEPT ![f] = level]
  /\ UNCHANGED <<setLevel, poolDisks, inventory, partRows, agentLevel, knownRoots, learned, moved, emptied, poolReports>>

\* resolveDuplication(): the deepest rule, the manual one of two; or the default.
ResolvedLevel(f) ==
  LET manual == {g \in Above(f) : manualLevel[g] > 0}
      reported == Above(f) \cap DOMAIN agentLevel
      by == manual \cup reported
  IN IF by = {} THEN 1
     ELSE IF Deepest(by) \in manual THEN manualLevel[Deepest(by)] ELSE agentLevel[Deepest(by)]

-----------------------------------------------------------------------------
(* DrivePool, Windows and the hands that plug.                             *)

SetsLevel(f, level) ==
  /\ EditsPool /\ setLevel[f] # level /\ (f = <<>> => level > 0)
  /\ setLevel' = [setLevel EXCEPT ![f] = level] /\ inventory' = [inventory EXCEPT !.fresh = (inventory.pc = "off")]
  /\ UNCHANGED <<poolDisks, partRows, manualLevel, agentLevel, knownRoots, learned, moved, emptied, poolReports>>

\* A letter is given or taken away: the part has another path.
LetterChanges(d) ==
  /\ EditsPool /\ poolDisks[d].here
  /\ poolDisks' = [poolDisks EXCEPT ![d].letter = ~@] /\ moved' = moved \cup {d}
  /\ UNCHANGED <<setLevel, inventory, partRows, manualLevel, agentLevel, knownRoots, learned, emptied, poolReports>>

Plugs(d) ==
  /\ EditsPool /\ poolDisks' = [poolDisks EXCEPT ![d].here = ~@]
  /\ UNCHANGED <<setLevel, inventory, partRows, manualLevel, agentLevel, knownRoots, learned, moved, emptied, poolReports>>

JoinsOrLeaves(d) ==
  /\ EditsPool /\ poolDisks[d].here /\ poolDisks' = [poolDisks EXCEPT ![d].member = ~@]
  /\ UNCHANGED <<setLevel, inventory, partRows, manualLevel, agentLevel, knownRoots, learned, moved, emptied, poolReports>>

InitMembers ==
  /\ setLevel = FirstLevels
  /\ poolDisks \in [PoolDisks -> {[letter |-> l, here |-> TRUE, member |-> TRUE] : l \in BOOLEAN}]
  /\ inventory = NoInventory /\ partRows = [d \in PoolDisks |-> <<>>]
  /\ manualLevel = [f \in Folders |-> 0] /\ agentLevel = <<>> /\ knownRoots = {}
  /\ learned = NothingLearned /\ moved = {} /\ emptied = FALSE /\ poolReports = 0 /\ poolEdits = 0

NextMembers ==
  \/ CollectBegins \/ Asks \/ AskFails \/ ProbeEnds \/ ReportLost \/ ReportArrives \/ Detects
  \/ \E r \in knownRoots : RemovesRoot(r)
  \/ \E f \in Folders, level \in CopyLevels : WritesRule(f, level) \/ SetsLevel(f, level)
  \/ \E d \in PoolDisks : LetterChanges(d) \/ Plugs(d) \/ JoinsOrLeaves(d)

MembersSpec == InitMembers /\ [][NextMembers]_memberVars

-----------------------------------------------------------------------------
MembersTypeOK ==
  /\ setLevel \in [Folders -> CopyLevels] /\ manualLevel \in [Folders -> CopyLevels]
  /\ inventory.pc \in {"off", "probe", "send"} /\ DOMAIN agentLevel \subseteq Folders
  /\ \A r \in knownRoots : r.disk \in PoolDisks /\ r.path \in {"letter", "guid"}

\* The level a folder ought to have: what DrivePool was found to do, except below a
\* rule written by hand, which holds for as long as DrivePool's level is the same there.
Ought(f) ==
  LET read(g) == Above(g) \cap DOMAIN learned.levels
      level(g) == IF read(g) = {} THEN 0 ELSE learned.levels[Deepest(read(g))]
      manual == {g \in Above(f) : manualLevel[g] > 0}
      between == {g \in Above(f) : Len(g) >= Len(Deepest(manual))}
  IN IF manual # {} /\ \A g \in between : level(g) = level(f) THEN manualLevel[Deepest(manual)] ELSE level(f)

(* Whatever was probed, pruned, unread or lost on the way: every folder    *)
(* the probe reached resolves to the copies DrivePool keeps of it, or to   *)
(* those of a rule written by hand: while nothing is set during the probe, *)
(* the nearest folder that was read has the level of each. A disk has one  *)
(* root, unless its path changed, no root is of a disk that was missing    *)
(* when it was adopted, and a report of a pool leaves the catalog without  *)
(* roots only when they are removed by hand.                               *)
PoolIsKnown ==
  /\ inventory.fresh => \A f \in inventory.covered : inventory.map[Deepest(Above(f) \cap DOMAIN inventory.map)] = LevelOf(f)
  /\ \A f \in learned.covered : ResolvedLevel(f) = Ought(f)
  /\ \A d \in PoolDisks \ moved : Cardinality({r \in knownRoots : r.disk = d}) <= 1
  /\ \A r \in knownRoots : r.path # "device"
  /\ knownRoots = {} /\ ~emptied => \A d \in PoolDisks : partRows[d] # <<>> => partRows[d][1].missing
=============================================================================
