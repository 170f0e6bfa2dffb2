--------------------------- MODULE Configuration ----------------------------
(***************************************************************************)
(* The settings, one document with several writers (settings-service.ts,   *)
(* shared/settings.ts): the settings page edits a copy of all of it and    *)
(* sends all of it back, the schedule page and the performance page send   *)
(* their part, the agent's reports and the server's own conveniences write *)
(* theirs, and an import replaces everything. Credentials leave the server *)
(* masked, and the mask sent back stands for the one that is stored.       *)
(***************************************************************************)
EXTENDS Integers, FiniteSets

CONSTANTS
    Pages,        \* the settings pages open in browsers
    PerfPages,    \* the performance pages
    Volumes,      \* the volumes that may be excluded from the benchmark
    MaxSettingEdits \* bound: changes

ASSUME ConfigurationAssumption == MaxSettingEdits \in Nat

\* The parts of the document some writer owns, and the webhook's address.
Sections == {"roots", "manualRules", "agentRules", "window", "muted"}
PageSections == {"roots", "manualRules"} \* that have a form in the settings page
Mask == -1 Empty == 0

VARIABLES
    document,   \* settings: of each part, which of its versions it holds
    webhook,    \* notifications.discord.webhookUrl: its version, Empty, or Mask as any text
    excluded,   \* perfTest.excludedVolumeIds
    page,       \* of each settings page: its copy and what was changed in it
    perfPage,   \* of each performance page: the click it is working on
    bundle,     \* the settings in an export bundle, or <<>>
    meant,      \* ghost: of each part, the version last written on purpose
    meantHook, meantExcluded, \* ghost: the same of the other two
    undone,     \* ghost: what a copy older than it has written over
    settingEdits \* ghost: counter for the bound

configVars == <<document, webhook, excluded, page, perfPage, bundle, meant, meantHook, meantExcluded, undone, settingEdits>>

Everything == Sections \cup {"webhook", "excluded"}
ClosedPage == [pc |-> "closed", copy |-> <<>>, hook |-> Empty, excluded |-> {}, edited |-> {}, behind |-> {}]
IdleClick == [pc |-> "idle", list |-> {}, volume |-> 0, on |-> FALSE, behind |-> FALSE]

EditsSettings == settingEdits < MaxSettingEdits /\ settingEdits' = settingEdits + 1

-----------------------------------------------------------------------------
\* Writing of some parts: the pages that are open fall behind in them.
FallBehind(pages, parts) == [p \in Pages |-> [pages[p] EXCEPT !.behind = @ \cup IF pages[p].pc = "closed" THEN {} ELSE parts]]
ClicksBehind == [q \in PerfPages |-> [perfPage[q] EXCEPT !.behind = perfPage[q].pc = "read"]]

\* SettingsService.update() with a patch of one part.
Writes(part) ==
  /\ document' = [document EXCEPT ![part] = meant[part] + 1] /\ meant' = [meant EXCEPT ![part] = @ + 1]
  /\ undone' = undone \ {part}
  /\ page' = FallBehind(page, {part})
  /\ UNCHANGED <<webhook, excluded, perfPage, bundle, meantHook, meantExcluded>>

\* PUT /api/settings/schedule; the page has the window and nothing else.
SavesSchedule == EditsSettings /\ Writes("window")

\* setLowSpaceAlerts() of the drives page, made from what is stored.
MutesVolume == EditsSettings /\ Writes("muted")

\* syncDuplicationRules(): the ones by hand are those stored.
AgentReports == EditsSettings /\ Writes("agentRules")

\* RootDetectionService.apply() and adoptIfUnconfigured(): more roots after those stored.
RootsDetected == EditsSettings /\ Writes("roots")

-----------------------------------------------------------------------------
(* The settings page.                                                      *)

\* getRedacted().
Shown == IF webhook = Empty THEN Empty ELSE Mask

\* GET /api/settings, on opening the page and after a save: the copy is replaced.
Loads(p) ==
  /\ page[p].pc \in {"closed", "saved"}
  /\ page' = [page EXCEPT ![p] = [pc |-> "open", copy |-> document, hook |-> Shown, excluded |-> excluded, edited |-> {}, behind |-> {}]]
  /\ UNCHANGED <<document, webhook, excluded, perfPage, bundle, meant, meantHook, meantExcluded, undone, settingEdits>>

\* patch() of a tab's form.
EditsForm(p, part) ==
  /\ page[p].pc = "open" /\ part \notin page[p].edited /\ EditsSettings
  /\ page' = [page EXCEPT ![p].edited = @ \cup {part}]
  /\ UNCHANGED <<document, webhook, excluded, perfPage, bundle, meant, meantHook, meantExcluded, undone>>

\* The field of the webhook: typed anew, or emptied.
TypesHook(p) ==
  /\ page[p].pc = "open" /\ "webhook" \notin page[p].edited /\ EditsSettings
  /\ \E url \in {Empty, settingEdits + 1} :
       page' = [page EXCEPT ![p].hook = url, ![p].edited = @ \cup {"webhook"}]
  /\ UNCHANGED <<document, webhook, excluded, perfPage, bundle, meant, meantHook, meantExcluded, undone>>

\* Mutant of Unmasked: what comes back is stored as it is.
UnmaskedNever(hook) == hook

\* mergeSettings(): the mask means what is stored.
Unmasked(hook) == IF hook = Mask THEN webhook ELSE hook

\* PATCH /api/settings with the whole copy: lists and values replace what is stored.
SavesPage(p) ==
  LET mine == page[p]
      over == mine.behind \ mine.edited
  IN /\ mine.pc = "open" /\ mine.edited # {}
     /\ document' = [s \in Sections |-> IF s \in mine.edited THEN meant[s] + 1 ELSE mine.copy[s]]
     /\ meant' = [s \in Sections |-> IF s \in mine.edited THEN meant[s] + 1 ELSE meant[s]]
     /\ webhook' = Unmasked(mine.hook)
     /\ meantHook' = IF "webhook" \in mine.edited THEN mine.hook ELSE meantHook
     /\ excluded' = mine.excluded
     /\ undone' = (undone \ mine.edited) \cup over
     /\ page' = [FallBehind(page, Everything) EXCEPT ![p] = [mine EXCEPT !.pc = "saved", !.edited = {}]]
     /\ perfPage' = ClicksBehind
     /\ UNCHANGED <<bundle, meantExcluded, settingEdits>>

Leaves(p) ==
  /\ page[p].pc = "open" /\ page' = [page EXCEPT ![p] = ClosedPage]
  /\ UNCHANGED <<document, webhook, excluded, perfPage, bundle, meant, meantHook, meantExcluded, undone, settingEdits>>

-----------------------------------------------------------------------------
(* The performance page: the list is read, changed and written back.       *)

ClicksExclude(q, v) ==
  /\ perfPage[q].pc = "idle" /\ EditsSettings
  /\ perfPage' = [perfPage EXCEPT ![q] = [pc |-> "read", list |-> excluded, volume |-> v, on |-> v \notin excluded, behind |-> FALSE]]
  /\ UNCHANGED <<document, webhook, excluded, page, bundle, meant, meantHook, meantExcluded, undone>>

WritesExcluded(q) ==
  LET click == perfPage[q]
  IN /\ click.pc = "read"
     /\ excluded' = IF click.on THEN click.list \cup {click.volume} ELSE click.list \ {click.volume}
     /\ meantExcluded' = IF click.on THEN meantExcluded \cup {click.volume} ELSE meantExcluded \ {click.volume}
     /\ undone' = IF click.behind THEN undone \cup {"excluded"} ELSE undone
     /\ perfPage' = [ClicksBehind EXCEPT ![q] = IdleClick]
     /\ page' = FallBehind(page, {"excluded"})
     /\ UNCHANGED <<document, webhook, bundle, meant, meantHook, settingEdits>>

-----------------------------------------------------------------------------
(* Bundles.                                                                *)

\* A bundle's settings are redacted, unless that is turned off.
ExportsSettings ==
  /\ bundle = <<>> /\ bundle' = <<[parts |-> document, hook |-> Shown, excluded |-> excluded]>>
  /\ UNCHANGED <<document, webhook, excluded, page, perfPage, meant, meantHook, meantExcluded, undone, settingEdits>>

\* import() with the settings: replace() stores what the bundle says, the mask too.
\* z.coerce.boolean() takes the page's importSettings=false for true, so this is
\* every import from the page, whether its box was ticked or not.
ImportsSettings ==
  /\ bundle # <<>> /\ EditsSettings
  /\ document' = bundle[1].parts /\ webhook' = bundle[1].hook /\ excluded' = bundle[1].excluded
  /\ undone' = Everything
  /\ page' = FallBehind(page, Everything) /\ perfPage' = ClicksBehind
  /\ UNCHANGED <<bundle, meant, meantHook, meantExcluded>>

-----------------------------------------------------------------------------
InitConfiguration ==
  /\ document = [s \in Sections |-> 0] /\ webhook = Empty /\ excluded = {}
  /\ page = [p \in Pages |-> ClosedPage] /\ perfPage = [q \in PerfPages |-> IdleClick] /\ bundle = <<>>
  /\ meant = document /\ meantHook = Empty /\ meantExcluded = {} /\ undone = {} /\ settingEdits = 0

NextConfiguration ==
  \/ SavesSchedule \/ MutesVolume \/ AgentReports \/ RootsDetected \/ ExportsSettings \/ ImportsSettings
  \/ \E p \in Pages : Loads(p) \/ TypesHook(p) \/ SavesPage(p) \/ Leaves(p) \/ \E part \in PageSections : EditsForm(p, part)
  \/ \E q \in PerfPages : WritesExcluded(q) \/ \E v \in Volumes : ClicksExclude(q, v)

ConfigurationSpec == InitConfiguration /\ [][NextConfiguration]_configVars

-----------------------------------------------------------------------------
ConfigurationTypeOK ==
  /\ document \in [Sections -> 0..MaxSettingEdits] /\ webhook \in Mask..MaxSettingEdits /\ excluded \subseteq Volumes
  /\ undone \subseteq Everything /\ \A p \in Pages : page[p].pc \in {"closed", "open", "saved"}

(* With any number of pages and other writers: what was last set on purpose *)
(* is what the document holds, unless a page, a click or a bundle that was  *)
(* read before it was set has written over it; and the mask is never kept   *)
(* as a credential, unless a bundle brought it.                             *)
SettingsAreAsMeant ==
  /\ \A s \in Sections \ undone : document[s] = meant[s]
  /\ "webhook" \notin undone => webhook = meantHook
  /\ "excluded" \notin undone => excluded = meantExcluded
  /\ webhook = Mask => "webhook" \in undone
=============================================================================
