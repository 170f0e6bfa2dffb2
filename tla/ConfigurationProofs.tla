------------------------ MODULE ConfigurationProofs -------------------------
(***************************************************************************)
(* What TLAPS proves of Configuration, for every number of settings pages, *)
(* performance pages, volumes and changes: the document holds what was set *)
(* last, but for the parts that an older copy has written over, and the    *)
(* mask of a credential is never kept as one. Of PoolMembers, for every    *)
(* tree of folders, every depth of the probe and every number of disks:    *)
(* the rules a report leaves resolve to the copies DrivePool keeps.        *)
(* Of Schedule, for a week of every length: what the dashboard says of the *)
(* window comes true.                                                      *)
(***************************************************************************)
EXTENDS Configuration, PoolMembers, Schedule, FiniteSetTheorems, SequenceTheorems, TLAPS

-----------------------------------------------------------------------------
(* Types.                                                                  *)

Document == [Sections -> Int]

PageType ==
  [pc : {"closed", "open", "saved"}, copy : Document \cup {<<>>}, hook : Int, excluded : SUBSET Volumes,
   edited : SUBSET (PageSections \cup {"webhook"}), behind : SUBSET Everything]

ClickType == [pc : {"idle", "read"}, list : SUBSET Volumes, volume : Volumes \cup {0}, on : BOOLEAN,
              behind : BOOLEAN]

BundleType == {<<>>} \cup {<<b>> : b \in [parts : Document, hook : Int, excluded : SUBSET Volumes]}

Typed ==
  /\ document \in Document /\ meant \in Document
  /\ webhook \in Int /\ meantHook \in Int
  /\ excluded \subseteq Volumes /\ meantExcluded \subseteq Volumes /\ undone \subseteq Everything
  /\ page \in [Pages -> PageType] /\ perfPage \in [PerfPages -> ClickType]
  /\ bundle \in BundleType /\ settingEdits \in Nat

(* The copy of an open page is what is stored, but for the parts written   *)
(* since; what the page shows of the webhook stands for the stored one     *)
(* until it is typed anew, and what is typed is not the mask.              *)
CopyIsFresh(p) ==
  page[p].pc = "open" =>
    /\ page[p].copy \in Document
    /\ \A s \in Sections \ page[p].behind : page[p].copy[s] = document[s]
    /\ "webhook" \notin page[p].edited =>
         page[p].hook \in {Empty, Mask} /\ ("webhook" \notin page[p].behind => page[p].hook = Shown)
    /\ "webhook" \in page[p].edited => page[p].hook # Mask
    /\ "excluded" \notin page[p].behind => page[p].excluded = excluded

(* The list a click has read is the stored one, unless it is behind.       *)
ClickIsFresh(q) ==
  perfPage[q].pc = "read" =>
    /\ perfPage[q].volume \in Volumes
    /\ ~perfPage[q].behind => perfPage[q].list = excluded

Fresh == (\A p \in Pages : CopyIsFresh(p)) /\ (\A q \in PerfPages : ClickIsFresh(q))

Inv == Typed /\ Fresh /\ SettingsAreAsMeant

-----------------------------------------------------------------------------
(* What a page or a click is after others have written, field by field.    *)

LEMMA PartsAre ==
  /\ PageSections \subseteq Sections /\ Sections \subseteq Everything
  /\ "webhook" \notin Sections /\ "excluded" \notin Sections
  /\ Everything = Sections \cup {"webhook", "excluded"}
  BY DEF PageSections, Sections, Everything

LEMMA FallBehindIs ==
  ASSUME page \in [Pages -> PageType], NEW parts \in SUBSET Everything
  PROVE  /\ FallBehind(page, parts) \in [Pages -> PageType]
         /\ \A p \in Pages :
              /\ FallBehind(page, parts)[p].pc = page[p].pc
              /\ FallBehind(page, parts)[p].copy = page[p].copy
              /\ FallBehind(page, parts)[p].hook = page[p].hook
              /\ FallBehind(page, parts)[p].excluded = page[p].excluded
              /\ FallBehind(page, parts)[p].edited = page[p].edited
              /\ FallBehind(page, parts)[p].behind
                   = page[p].behind \cup IF page[p].pc = "closed" THEN {} ELSE parts
  <1> DEFINE more(p) == page[p].behind \cup IF page[p].pc = "closed" THEN {} ELSE parts
  <1>1. FallBehind(page, parts) = [p \in Pages |-> [page[p] EXCEPT !.behind = more(p)]]
    BY DEF FallBehind
  <1>2. \A p \in Pages : more(p) \in SUBSET Everything
    BY DEF PageType
  <1> HIDE DEF more
  <1>3. ASSUME NEW p \in Pages
        PROVE  /\ FallBehind(page, parts)[p] \in PageType
               /\ FallBehind(page, parts)[p].pc = page[p].pc
               /\ FallBehind(page, parts)[p].copy = page[p].copy
               /\ FallBehind(page, parts)[p].hook = page[p].hook
               /\ FallBehind(page, parts)[p].excluded = page[p].excluded
               /\ FallBehind(page, parts)[p].edited = page[p].edited
               /\ FallBehind(page, parts)[p].behind = more(p)
    <2>1. FallBehind(page, parts)[p] = [page[p] EXCEPT !.behind = more(p)]
      BY <1>1
    <2> QED BY <2>1, <1>2 DEF PageType
  <1>4. FallBehind(page, parts) \in [Pages -> PageType]
    BY <1>1, <1>3
  <1> QED BY <1>3, <1>4 DEF more

LEMMA ClicksBehindIs ==
  ASSUME perfPage \in [PerfPages -> ClickType]
  PROVE  /\ ClicksBehind \in [PerfPages -> ClickType]
         /\ \A q \in PerfPages : /\ ClicksBehind[q].pc = perfPage[q].pc
                                 /\ ClicksBehind[q].volume = perfPage[q].volume
                                 /\ ClicksBehind[q].behind = (perfPage[q].pc = "read")
  <1> DEFINE reads(q) == perfPage[q].pc = "read"
  <1>1. ClicksBehind = [q \in PerfPages |-> [perfPage[q] EXCEPT !.behind = reads(q)]]
    BY DEF ClicksBehind
  <1>2. \A q \in PerfPages : reads(q) \in BOOLEAN
    OBVIOUS
  <1>3. \A q \in PerfPages : [perfPage[q] EXCEPT !.behind = reads(q)] \in ClickType
    BY <1>2, ZenonT(40) DEF ClickType
  <1>4. \A q \in PerfPages : /\ [perfPage[q] EXCEPT !.behind = reads(q)].pc = perfPage[q].pc
                             /\ [perfPage[q] EXCEPT !.behind = reads(q)].volume = perfPage[q].volume
                             /\ [perfPage[q] EXCEPT !.behind = reads(q)].behind = reads(q)
    BY DEF ClickType
  <1> QED BY <1>1, <1>3, <1>4

-----------------------------------------------------------------------------
(* The steps.                                                              *)

LEMMA ConfigurationStarts == InitConfiguration => Inv
  <1> SUFFICES ASSUME InitConfiguration PROVE Inv
    OBVIOUS
  <1>1. ClosedPage \in PageType /\ ClosedPage.pc = "closed"
    BY DEF ClosedPage, PageType, Empty
  <1>2. IdleClick \in ClickType /\ IdleClick.pc = "idle"
    BY DEF IdleClick, ClickType
  <1>3. Typed
    BY <1>1, <1>2 DEF InitConfiguration, Typed, Document, BundleType, Empty
  <1>4. Fresh
    BY <1>1, <1>2 DEF InitConfiguration, Fresh, CopyIsFresh, ClickIsFresh
  <1>5. SettingsAreAsMeant
    BY DEF InitConfiguration, SettingsAreAsMeant, Empty, Mask
  <1> QED BY <1>3, <1>4, <1>5 DEF Inv

LEMMA InvParts ==
  ASSUME Inv
  PROVE  /\ document \in Document /\ meant \in Document /\ webhook \in Int /\ meantHook \in Int
         /\ excluded \subseteq Volumes /\ meantExcluded \subseteq Volumes /\ undone \subseteq Everything
         /\ page \in [Pages -> PageType] /\ perfPage \in [PerfPages -> ClickType]
         /\ bundle \in BundleType /\ settingEdits \in Nat
         /\ \A p \in Pages : page[p] \in PageType /\ CopyIsFresh(p)
         /\ \A q \in PerfPages : perfPage[q] \in ClickType /\ ClickIsFresh(q)
         /\ Shown \in {Empty, Mask} /\ Shown \in Int
  BY DEF Inv, Typed, Fresh, Shown, Empty, Mask

(* One part is written, from what is stored.                               *)
LEMMA WritesKeeps ==
  ASSUME Inv, NEW part \in Sections, Writes(part), settingEdits' \in Nat
  PROVE  Inv'
  <1>a. /\ document' = [document EXCEPT ![part] = meant[part] + 1] /\ meant' = [meant EXCEPT ![part] = meant[part] + 1]
        /\ undone' = undone \ {part} /\ page' = FallBehind(page, {part})
        /\ UNCHANGED <<webhook, excluded, perfPage, bundle, meantHook, meantExcluded>>
    BY InvParts DEF Writes, Document
  <1>b. {part} \in SUBSET Everything
    BY PartsAre
  <1>1. /\ document' \in Document /\ meant' \in Document /\ document'[part] = meant'[part]
        /\ \A s \in Sections : s # part => document'[s] = document[s] /\ meant'[s] = meant[s]
    BY <1>a, InvParts DEF Document
  <1>2. /\ page' \in [Pages -> PageType]
        /\ \A p \in Pages :
              /\ page'[p].pc = page[p].pc /\ page'[p].copy = page[p].copy /\ page'[p].hook = page[p].hook
              /\ page'[p].excluded = page[p].excluded /\ page'[p].edited = page[p].edited
              /\ page'[p].behind = page[p].behind \cup IF page[p].pc = "closed" THEN {} ELSE {part}
    BY <1>a, <1>b, InvParts, FallBehindIs
  <1>3. Typed'
    BY <1>a, <1>1, <1>2, InvParts DEF Typed
  <1>4. Shown' = Shown
    BY <1>a DEF Shown
  <1>5. ASSUME NEW p \in Pages PROVE CopyIsFresh(p)'
    <2> SUFFICES ASSUME page'[p].pc = "open" PROVE CopyIsFresh(p)'
      BY DEF CopyIsFresh
    <2>1. /\ page[p].copy \in Document
          /\ \A s \in Sections \ page[p].behind : page[p].copy[s] = document[s]
          /\ "webhook" \notin page[p].edited =>
               page[p].hook \in {Empty, Mask} /\ ("webhook" \notin page[p].behind => page[p].hook = Shown)
          /\ "webhook" \in page[p].edited => page[p].hook # Mask
          /\ "excluded" \notin page[p].behind => page[p].excluded = excluded
      BY <1>2, InvParts DEF CopyIsFresh
    <2>2. page'[p].behind = page[p].behind \cup {part}
      BY <1>2
    <2>3. \A s \in Sections \ page'[p].behind : page'[p].copy[s] = document'[s]
      BY <2>1, <2>2, <1>1, <1>2
    <2>4. page[p].behind \subseteq page'[p].behind
      BY <2>2
    <2> QED BY <2>1, <2>3, <2>4, <1>a, <1>2, <1>4 DEF CopyIsFresh
  <1>6. ASSUME NEW q \in PerfPages PROVE ClickIsFresh(q)'
    BY <1>a, InvParts DEF ClickIsFresh
  <1>7. SettingsAreAsMeant'
    BY <1>a, <1>1, PartsAre DEF Inv, SettingsAreAsMeant
  <1> QED BY <1>3, <1>5, <1>6, <1>7 DEF Inv, Fresh

(* A page is set to something whose copy is fresh; nothing else moves.     *)
LEMMA PageMoves ==
  ASSUME Inv, NEW p \in Pages, NEW new \in PageType, page' = [page EXCEPT ![p] = new],
         UNCHANGED <<document, webhook, excluded, perfPage, bundle, meant, meantHook, meantExcluded, undone>>,
         settingEdits' \in Nat,
         new.pc = "open" =>
           /\ new.copy \in Document
           /\ \A s \in Sections \ new.behind : new.copy[s] = document[s]
           /\ "webhook" \notin new.edited =>
                new.hook \in {Empty, Mask} /\ ("webhook" \notin new.behind => new.hook = Shown)
           /\ "webhook" \in new.edited => new.hook # Mask
           /\ "excluded" \notin new.behind => new.excluded = excluded
  PROVE  Inv'
  <1>1. page' \in [Pages -> PageType] /\ page'[p] = new /\ \A o \in Pages : o # p => page'[o] = page[o]
    BY InvParts
  <1>2. Typed'
    BY <1>1, InvParts DEF Typed
  <1>3. Shown' = Shown
    BY DEF Shown
  <1>4. \A o \in Pages : CopyIsFresh(o)'
    BY <1>1, <1>3, InvParts DEF CopyIsFresh
  <1>5. (\A q \in PerfPages : ClickIsFresh(q)') /\ SettingsAreAsMeant'
    BY InvParts DEF ClickIsFresh, SettingsAreAsMeant, Inv
  <1> QED BY <1>2, <1>4, <1>5 DEF Inv, Fresh

LEMMA LoadsKeeps == ASSUME Inv, NEW p \in Pages, Loads(p) PROVE Inv'
  <1>1. PICK new : new = [pc |-> "open", copy |-> document, hook |-> Shown, excluded |-> excluded,
                          edited |-> {}, behind |-> {}]
    OBVIOUS
  <1>2. /\ page' = [page EXCEPT ![p] = new]
        /\ UNCHANGED <<document, webhook, excluded, perfPage, bundle, meant, meantHook, meantExcluded, undone,
                       settingEdits>>
    BY <1>1 DEF Loads
  <1>3. new \in PageType
    BY <1>1, InvParts DEF PageType
  <1>4. /\ new.copy = document /\ new.hook = Shown /\ new.excluded = excluded /\ new.edited = {}
    BY <1>1
  <1> QED BY <1>2, <1>3, <1>4, InvParts, PageMoves

LEMMA EditsKeeps == ASSUME Inv, NEW p \in Pages, NEW part \in PageSections, EditsForm(p, part) PROVE Inv'
  <1>1. page[p] \in PageType /\ page[p].hook \in Int /\ CopyIsFresh(p) /\ settingEdits \in Nat
    BY InvParts DEF PageType
  <1>2. page[p].edited \cup {part} \in SUBSET (PageSections \cup {"webhook"})
    BY <1>1 DEF PageType
  <1>3. PICK edited : edited = page[p].edited \cup {part}
    OBVIOUS
  <1>4. edited \in SUBSET (PageSections \cup {"webhook"})
    BY <1>2, <1>3, Zenon
  <1>5. [page[p] EXCEPT !.edited = edited] = [page[p] EXCEPT !.hook = page[p].hook, !.edited = edited]
    BY <1>1 DEF PageType
  <1>6. PICK new : new = [page[p] EXCEPT !.hook = page[p].hook, !.edited = edited]
    OBVIOUS
  <1>7. /\ page' = [page EXCEPT ![p] = [page[p] EXCEPT !.edited = page[p].edited \cup {part}]]
        /\ settingEdits' = settingEdits + 1
        /\ UNCHANGED <<document, webhook, excluded, perfPage, bundle, meant, meantHook, meantExcluded, undone>>
        /\ page[p].pc = "open"
    BY InvParts DEF EditsForm, EditsSettings
  <1>8. page' = [page EXCEPT ![p] = new]
    BY <1>3, <1>5, <1>6, <1>7, Zenon
  <1>9. /\ new \in PageType /\ new.copy = page[p].copy /\ new.hook = page[p].hook
        /\ new.excluded = page[p].excluded /\ new.behind = page[p].behind /\ new.edited = edited
    <2>1. PICK x \in PageType : x = page[p]
      BY <1>1
    <2>2. PICK url \in Int : url = page[p].hook
      BY <1>1
    <2>3. new = [x EXCEPT !.hook = url, !.edited = edited]
      BY <1>6, <2>1, <2>2, Zenon
    <2>4. /\ new \in PageType /\ new.copy = x.copy /\ new.hook = url
          /\ new.excluded = x.excluded /\ new.behind = x.behind /\ new.edited = edited
      BY <1>4, <2>3 DEF PageType
    <2> QED BY <2>1, <2>2, <2>4
  <1>10. "webhook" \in new.edited <=> "webhook" \in page[p].edited
    BY <1>3, <1>9, PartsAre
  <1>11. new.pc = "open" =>
           /\ new.copy \in Document
           /\ \A s \in Sections \ new.behind : new.copy[s] = document[s]
           /\ "webhook" \notin new.edited =>
                new.hook \in {Empty, Mask} /\ ("webhook" \notin new.behind => new.hook = Shown)
           /\ "webhook" \in new.edited => new.hook # Mask
           /\ "excluded" \notin new.behind => new.excluded = excluded
    BY <1>1, <1>7, <1>9, <1>10 DEF CopyIsFresh
  <1>12. settingEdits' \in Nat
    BY <1>1, <1>7
  <1> QED BY <1>7, <1>8, <1>9, <1>11, <1>12, PageMoves

LEMMA TypesKeeps == ASSUME Inv, NEW p \in Pages, TypesHook(p) PROVE Inv'
  <1>1. PICK url \in {Empty, settingEdits + 1} :
           page' = [page EXCEPT ![p].hook = url, ![p].edited = @ \cup {"webhook"}]
    BY DEF TypesHook
  <1>2. page[p] \in PageType /\ CopyIsFresh(p) /\ settingEdits \in Nat
    BY InvParts
  <1>3. url \in Int /\ url # Mask
    BY <1>2 DEF Empty, Mask
  <1>4. page[p].edited \cup {"webhook"} \in SUBSET (PageSections \cup {"webhook"})
    BY <1>2 DEF PageType
  <1>5. PICK edited : edited = page[p].edited \cup {"webhook"}
    OBVIOUS
  <1>6. edited \in SUBSET (PageSections \cup {"webhook"})
    BY <1>4, <1>5, Zenon
  <1>7. page' = [page EXCEPT ![p] = [page[p] EXCEPT !.hook = url, !.edited = page[p].edited \cup {"webhook"}]]
    BY <1>1, InvParts
  <1>8. PICK new : new = [page[p] EXCEPT !.hook = url, !.edited = edited]
    OBVIOUS
  <1>9. page' = [page EXCEPT ![p] = new]
    BY <1>5, <1>7, <1>8, Zenon
  <1>10. /\ settingEdits' = settingEdits + 1 /\ page[p].pc = "open"
         /\ UNCHANGED <<document, webhook, excluded, perfPage, bundle, meant, meantHook, meantExcluded, undone>>
    BY DEF TypesHook, EditsSettings
  <1>11. /\ new \in PageType /\ new.copy = page[p].copy /\ new.hook = url
         /\ new.excluded = page[p].excluded /\ new.behind = page[p].behind /\ new.edited = edited
    <2>1. PICK x \in PageType : x = page[p]
      BY <1>2
    <2>2. new = [x EXCEPT !.hook = url, !.edited = edited]
      BY <1>8, <2>1, Zenon
    <2>3. /\ new \in PageType /\ new.copy = x.copy /\ new.hook = url
          /\ new.excluded = x.excluded /\ new.behind = x.behind /\ new.edited = edited
      BY <1>3, <1>6, <2>2 DEF PageType
    <2> QED BY <2>1, <2>3
  <1>12. "webhook" \in new.edited
    BY <1>5, <1>11
  <1>13. new.pc = "open" =>
           /\ new.copy \in Document
           /\ \A s \in Sections \ new.behind : new.copy[s] = document[s]
           /\ "webhook" \notin new.edited =>
                new.hook \in {Empty, Mask} /\ ("webhook" \notin new.behind => new.hook = Shown)
           /\ "webhook" \in new.edited => new.hook # Mask
           /\ "excluded" \notin new.behind => new.excluded = excluded
    BY <1>2, <1>3, <1>10, <1>11, <1>12 DEF CopyIsFresh
  <1>14. settingEdits' \in Nat
    BY <1>2, <1>10
  <1> QED BY <1>9, <1>10, <1>11, <1>13, <1>14, PageMoves

LEMMA LeavesKeeps == ASSUME Inv, NEW p \in Pages, Leaves(p) PROVE Inv'
  <1>1. ClosedPage \in PageType /\ ClosedPage.pc = "closed"
    BY DEF ClosedPage, PageType, Empty
  <1>2. /\ page' = [page EXCEPT ![p] = ClosedPage]
        /\ UNCHANGED <<document, webhook, excluded, perfPage, bundle, meant, meantHook, meantExcluded, undone,
                       settingEdits>>
    BY DEF Leaves
  <1> QED BY <1>1, <1>2, InvParts, PageMoves

(* A page that has fallen behind in everything is fresh in nothing but     *)
(* what was typed in it; and so a click.                                   *)
LEMMA BehindInEverything ==
  ASSUME Inv, NEW o \in Pages, page'[o].pc = page[o].pc, page'[o].copy = page[o].copy,
         page'[o].hook = page[o].hook, page'[o].edited = page[o].edited,
         page[o].pc = "open" => Everything \subseteq page'[o].behind
  PROVE  CopyIsFresh(o)'
  <1> SUFFICES ASSUME page[o].pc = "open" PROVE CopyIsFresh(o)'
    BY DEF CopyIsFresh
  <1>1. CopyIsFresh(o)
    BY InvParts
  <1> QED BY <1>1, PartsAre DEF CopyIsFresh

LEMMA SavesKeeps == ASSUME Inv, NEW p \in Pages, SavesPage(p) PROVE Inv'
  <1>1. PICK copy, hook, shut, edited, behind :
          /\ copy = page[p].copy /\ hook = page[p].hook /\ shut = page[p].excluded
          /\ edited = page[p].edited /\ behind = page[p].behind
    OBVIOUS
  <1>2. /\ copy \in Document /\ hook \in Int /\ shut \subseteq Volumes
        /\ edited \subseteq PageSections \cup {"webhook"} /\ behind \subseteq Everything
        /\ \A s \in Sections \ behind : copy[s] = document[s]
        /\ "webhook" \notin edited => hook \in {Empty, Mask} /\ ("webhook" \notin behind => hook = Shown)
        /\ "webhook" \in edited => hook # Mask
        /\ "excluded" \notin behind => shut = excluded
    <2>1. page[p] \in PageType /\ CopyIsFresh(p) /\ page[p].pc = "open"
      BY InvParts DEF SavesPage
    <2>2. page[p].hook \in Int /\ page[p].excluded \subseteq Volumes
          /\ page[p].edited \subseteq PageSections \cup {"webhook"} /\ page[p].behind \subseteq Everything
      BY <2>1 DEF PageType
    <2> QED BY <1>1, <2>1, <2>2 DEF CopyIsFresh
  <1>3. /\ document' = [s \in Sections |-> IF s \in edited THEN meant[s] + 1 ELSE copy[s]]
        /\ meant' = [s \in Sections |-> IF s \in edited THEN meant[s] + 1 ELSE meant[s]]
        /\ webhook' = Unmasked(hook)
        /\ meantHook' = IF "webhook" \in edited THEN hook ELSE meantHook
        /\ excluded' = shut
        /\ undone' = (undone \ edited) \cup (behind \ edited)
        /\ page' = [FallBehind(page, Everything) EXCEPT ![p] = [page[p] EXCEPT !.pc = "saved", !.edited = {}]]
        /\ perfPage' = ClicksBehind
        /\ UNCHANGED <<bundle, meantExcluded, settingEdits>>
    BY <1>1, Zenon DEF SavesPage
  <1>4. /\ document' \in Document /\ meant' \in Document
        /\ \A s \in Sections : /\ s \in edited => document'[s] = meant'[s]
                               /\ s \notin edited => document'[s] = copy[s] /\ meant'[s] = meant[s]
    BY <1>2, <1>3, InvParts DEF Document
  <1>5. /\ page' \in [Pages -> PageType] /\ page'[p].pc = "saved"
        /\ \A o \in Pages : o # p =>
             /\ page'[o].pc = page[o].pc /\ page'[o].copy = page[o].copy /\ page'[o].hook = page[o].hook
             /\ page'[o].edited = page[o].edited
             /\ page[o].pc = "open" => Everything \subseteq page'[o].behind
    <2>1. PICK new : new = [page[p] EXCEPT !.pc = "saved", !.edited = {}]
      OBVIOUS
    <2>2. new \in PageType /\ new.pc = "saved"
      <3>1. page[p] \in PageType
        BY InvParts
      <3> QED BY <2>1, <3>1 DEF PageType
    <2>3. PICK others : others = FallBehind(page, Everything)
      OBVIOUS
    <2>4. Everything \in SUBSET Everything
      OBVIOUS
    <2>5. /\ others \in [Pages -> PageType]
          /\ \A o \in Pages :
                /\ others[o].pc = page[o].pc /\ others[o].copy = page[o].copy /\ others[o].hook = page[o].hook
                /\ others[o].edited = page[o].edited
                /\ others[o].behind = page[o].behind \cup IF page[o].pc = "closed" THEN {} ELSE Everything
      BY <2>3, <2>4, InvParts, FallBehindIs
    <2>6. page' = [others EXCEPT ![p] = new]
      BY <1>3, <2>1, <2>3, Zenon
    <2> QED BY <2>2, <2>5, <2>6
  <1>6. /\ perfPage' \in [PerfPages -> ClickType]
        /\ \A q \in PerfPages : perfPage'[q].pc = "read" => perfPage'[q].behind /\ perfPage'[q].volume \in Volumes
    BY <1>3, InvParts, ClicksBehindIs DEF ClickIsFresh
  <1>7. webhook' \in Int /\ meantHook' \in Int /\ undone' \subseteq Everything
    BY <1>2, <1>3, InvParts DEF Unmasked
  <1>8. Typed'
    BY <1>2, <1>3, <1>4, <1>5, <1>6, <1>7, InvParts DEF Typed
  <1>9. \A o \in Pages : CopyIsFresh(o)'
    <2>1. CopyIsFresh(p)'
      BY <1>5 DEF CopyIsFresh
    <2>2. ASSUME NEW o \in Pages, o # p PROVE CopyIsFresh(o)'
      BY <1>5, <2>2, BehindInEverything
    <2> QED BY <2>1, <2>2
  <1>10. \A q \in PerfPages : ClickIsFresh(q)'
    BY <1>6 DEF ClickIsFresh
  <1>11. SettingsAreAsMeant'
    <2>0. /\ \A s \in Sections \ undone : document[s] = meant[s]
          /\ "webhook" \notin undone => webhook = meantHook
          /\ "excluded" \notin undone => excluded = meantExcluded
          /\ webhook = Mask => "webhook" \in undone
      BY DEF Inv, SettingsAreAsMeant
    <2>1. \A s \in Sections \ undone' : document'[s] = meant'[s]
      BY <2>0, <1>2, <1>3, <1>4
    <2>2. "webhook" \notin undone' => webhook' = meantHook'
      BY <2>0, <1>2, <1>3 DEF Unmasked, Shown, Empty, Mask
    <2>3. "excluded" \notin edited
      BY <1>2, PartsAre
    <2>4. "excluded" \notin undone' => excluded' = meantExcluded'
      BY <2>0, <2>3, <1>2, <1>3
    <2>5. webhook' = Mask => "webhook" \in undone'
      BY <2>0, <1>2, <1>3 DEF Unmasked, Empty, Mask
    <2> QED BY <2>1, <2>2, <2>4, <2>5 DEF SettingsAreAsMeant
  <1> QED BY <1>8, <1>9, <1>10, <1>11 DEF Inv, Fresh

LEMMA ClicksKeeps == ASSUME Inv, NEW q \in PerfPages, NEW v \in Volumes, ClicksExclude(q, v) PROVE Inv'
  <1>1. PICK new : new = [pc |-> "read", list |-> excluded, volume |-> v, on |-> v \notin excluded, behind |-> FALSE]
    OBVIOUS
  <1>2. /\ perfPage' = [perfPage EXCEPT ![q] = new] /\ settingEdits' = settingEdits + 1
        /\ UNCHANGED <<document, webhook, excluded, page, bundle, meant, meantHook, meantExcluded, undone>>
    BY <1>1, Zenon DEF ClicksExclude, EditsSettings
  <1>3. new \in ClickType /\ new.list = excluded /\ new.volume \in Volumes
    BY <1>1, InvParts DEF ClickType
  <1>4. /\ perfPage' \in [PerfPages -> ClickType] /\ perfPage'[q] = new
        /\ \A o \in PerfPages : o # q => perfPage'[o] = perfPage[o]
    BY <1>2, <1>3, InvParts
  <1>5. Typed'
    BY <1>2, <1>4, InvParts DEF Typed
  <1>6. \A o \in PerfPages : ClickIsFresh(o)'
    BY <1>2, <1>3, <1>4, InvParts DEF ClickIsFresh
  <1>7. (\A p \in Pages : CopyIsFresh(p)') /\ SettingsAreAsMeant'
    BY <1>2, InvParts DEF CopyIsFresh, Shown, SettingsAreAsMeant, Inv
  <1> QED BY <1>5, <1>6, <1>7 DEF Inv, Fresh

LEMMA ListIsWritten == ASSUME Inv, NEW q \in PerfPages, WritesExcluded(q) PROVE Inv'
  <1>1. PICK list, volume, on, behind :
          /\ list = perfPage[q].list /\ volume = perfPage[q].volume /\ on = perfPage[q].on
          /\ behind = perfPage[q].behind
    OBVIOUS
  <1>2. /\ excluded' = IF on THEN list \cup {volume} ELSE list \ {volume}
        /\ meantExcluded' = IF on THEN meantExcluded \cup {volume} ELSE meantExcluded \ {volume}
        /\ undone' = IF behind THEN undone \cup {"excluded"} ELSE undone
        /\ perfPage' = [ClicksBehind EXCEPT ![q] = IdleClick]
        /\ page' = FallBehind(page, {"excluded"})
        /\ UNCHANGED <<document, webhook, bundle, meant, meantHook, settingEdits>>
    BY <1>1, Zenon DEF WritesExcluded
  <1>3. /\ list \subseteq Volumes /\ volume \in Volumes /\ behind \in BOOLEAN /\ (~behind => list = excluded)
        /\ on \in BOOLEAN
    <2>1. perfPage[q] \in ClickType /\ ClickIsFresh(q) /\ perfPage[q].pc = "read"
      BY InvParts DEF WritesExcluded
    <2>2. perfPage[q].list \subseteq Volumes /\ perfPage[q].behind \in BOOLEAN /\ perfPage[q].on \in BOOLEAN
      BY <2>1 DEF ClickType
    <2> QED BY <1>1, <2>1, <2>2 DEF ClickIsFresh
  <1>4. {"excluded"} \in SUBSET Everything
    BY PartsAre
  <1>5. /\ page' \in [Pages -> PageType]
        /\ \A p \in Pages :
              /\ page'[p].pc = page[p].pc /\ page'[p].copy = page[p].copy /\ page'[p].hook = page[p].hook
              /\ page'[p].edited = page[p].edited
              /\ page'[p].behind = page[p].behind \cup IF page[p].pc = "closed" THEN {} ELSE {"excluded"}
    BY <1>2, <1>4, InvParts, FallBehindIs
  <1>6. IdleClick \in ClickType /\ IdleClick.pc = "idle"
    BY DEF IdleClick, ClickType
  <1>7. PICK clicks : clicks = ClicksBehind
    OBVIOUS
  <1>8. /\ clicks \in [PerfPages -> ClickType]
        /\ \A o \in PerfPages : clicks[o].pc = "read" => clicks[o].behind /\ clicks[o].volume \in Volumes
    BY <1>7, InvParts, ClicksBehindIs DEF ClickIsFresh
  <1>9. /\ perfPage' \in [PerfPages -> ClickType]
        /\ \A o \in PerfPages : perfPage'[o].pc = "read" => perfPage'[o].behind /\ perfPage'[o].volume \in Volumes
    BY <1>2, <1>6, <1>7, <1>8
  <1>10. excluded' \subseteq Volumes /\ meantExcluded' \subseteq Volumes /\ undone' \subseteq Everything
    BY <1>1, <1>2, <1>3, <1>4, InvParts
  <1>11. Typed'
    BY <1>2, <1>5, <1>9, <1>10, InvParts DEF Typed
  <1>12. ASSUME NEW p \in Pages PROVE CopyIsFresh(p)'
    <2> SUFFICES ASSUME page'[p].pc = "open" PROVE CopyIsFresh(p)'
      BY DEF CopyIsFresh
    <2>1. CopyIsFresh(p)
      BY InvParts
    <2>2. /\ page[p].pc = "open" /\ "excluded" \in page'[p].behind /\ page[p].behind \subseteq page'[p].behind
          /\ page'[p].copy = page[p].copy /\ page'[p].hook = page[p].hook /\ page'[p].edited = page[p].edited
      BY <1>5
    <2>3. Shown' = Shown
      BY <1>2 DEF Shown
    <2> QED BY <2>1, <2>2, <2>3, <1>2 DEF CopyIsFresh
  <1>13. \A o \in PerfPages : ClickIsFresh(o)'
    BY <1>9 DEF ClickIsFresh
  <1>14. SettingsAreAsMeant'
    BY <1>2, <1>3, PartsAre DEF Inv, SettingsAreAsMeant
  <1> QED BY <1>11, <1>12, <1>13, <1>14 DEF Inv, Fresh

LEMMA ExportsKeeps == ASSUME Inv, ExportsSettings PROVE Inv'
  <1>1. PICK b : b = [parts |-> document, hook |-> Shown, excluded |-> excluded]
    OBVIOUS
  <1>2. b \in [parts : Document, hook : Int, excluded : SUBSET Volumes]
    BY <1>1, InvParts
  <1>3. bundle' = <<b>>
    BY <1>1, Zenon DEF ExportsSettings
  <1>4. bundle' \in BundleType
    BY <1>2, <1>3 DEF BundleType
  <1>5. UNCHANGED <<document, webhook, excluded, page, perfPage, meant, meantHook, meantExcluded, undone, settingEdits>>
    BY DEF ExportsSettings
  <1> QED BY <1>4, <1>5, InvParts
          DEF Inv, Typed, Fresh, CopyIsFresh, ClickIsFresh, Shown, SettingsAreAsMeant

LEMMA ImportsKeeps == ASSUME Inv, ImportsSettings PROVE Inv'
  <1>1. PICK b \in [parts : Document, hook : Int, excluded : SUBSET Volumes] : bundle = <<b>>
    BY InvParts DEF ImportsSettings, BundleType
  <1>2. /\ document' = b.parts /\ webhook' = b.hook /\ excluded' = b.excluded
        /\ undone' = Everything /\ page' = FallBehind(page, Everything) /\ perfPage' = ClicksBehind
        /\ UNCHANGED <<bundle, meant, meantHook, meantExcluded>> /\ settingEdits' = settingEdits + 1
    BY <1>1 DEF ImportsSettings, EditsSettings
  <1>3. document' \in Document /\ webhook' \in Int /\ excluded' \subseteq Volumes
    BY <1>1, <1>2
  <1>4. Everything \in SUBSET Everything
    OBVIOUS
  <1>5. /\ page' \in [Pages -> PageType]
        /\ \A p \in Pages :
              /\ page'[p].pc = page[p].pc /\ page'[p].copy = page[p].copy /\ page'[p].hook = page[p].hook
              /\ page'[p].edited = page[p].edited
              /\ page'[p].behind = page[p].behind \cup IF page[p].pc = "closed" THEN {} ELSE Everything
    BY <1>2, <1>4, InvParts, FallBehindIs
  <1>6. /\ perfPage' \in [PerfPages -> ClickType]
        /\ \A q \in PerfPages : perfPage'[q].pc = "read" => perfPage'[q].behind /\ perfPage'[q].volume \in Volumes
    BY <1>2, InvParts, ClicksBehindIs DEF ClickIsFresh
  <1>7. Typed'
    BY <1>2, <1>3, <1>5, <1>6, InvParts DEF Typed
  <1>8. ASSUME NEW p \in Pages PROVE CopyIsFresh(p)'
    <2>1. page[p].pc = "open" => Everything \subseteq page'[p].behind
      BY <1>5
    <2> QED BY <1>5, <2>1, BehindInEverything
  <1>9. \A q \in PerfPages : ClickIsFresh(q)'
    BY <1>6 DEF ClickIsFresh
  <1>10. SettingsAreAsMeant'
    BY <1>2, PartsAre DEF SettingsAreAsMeant
  <1> QED BY <1>7, <1>8, <1>9, <1>10 DEF Inv, Fresh

(* The writers of one part.                                                *)
LEMMA OthersKeep ==
  ASSUME Inv, SavesSchedule \/ MutesVolume \/ AgentReports \/ RootsDetected PROVE Inv'
  <1>1. PICK part \in Sections : Writes(part) /\ EditsSettings
    BY DEF SavesSchedule, MutesVolume, AgentReports, RootsDetected, Sections
  <1>2. settingEdits' \in Nat
    BY <1>1, InvParts DEF EditsSettings
  <1> QED BY <1>1, <1>2, WritesKeeps

LEMMA InvKeeps == ASSUME Inv, [NextConfiguration]_configVars PROVE Inv'
  <1>1. CASE UNCHANGED configVars
    BY <1>1 DEF configVars, Inv, Typed, Fresh, CopyIsFresh, ClickIsFresh, Shown, SettingsAreAsMeant
  <1>2. CASE SavesSchedule \/ MutesVolume \/ AgentReports \/ RootsDetected
    BY <1>2, OthersKeep
  <1>3. CASE ExportsSettings
    BY <1>3, ExportsKeeps
  <1>4. CASE ImportsSettings
    BY <1>4, ImportsKeeps
  <1>5. ASSUME NEW p \in Pages, Loads(p) PROVE Inv'
    BY <1>5, LoadsKeeps
  <1>6. ASSUME NEW p \in Pages, TypesHook(p) PROVE Inv'
    BY <1>6, TypesKeeps
  <1>7. ASSUME NEW p \in Pages, SavesPage(p) PROVE Inv'
    BY <1>7, SavesKeeps
  <1>8. ASSUME NEW p \in Pages, Leaves(p) PROVE Inv'
    BY <1>8, LeavesKeeps
  <1>9. ASSUME NEW p \in Pages, NEW part \in PageSections, EditsForm(p, part) PROVE Inv'
    BY <1>9, EditsKeeps
  <1>10. ASSUME NEW q \in PerfPages, WritesExcluded(q) PROVE Inv'
    BY <1>10, ListIsWritten
  <1>11. ASSUME NEW q \in PerfPages, NEW v \in Volumes, ClicksExclude(q, v) PROVE Inv'
    BY <1>11, ClicksKeeps
  <1> QED BY <1>1, <1>2, <1>3, <1>4, <1>5, <1>6, <1>7, <1>8, <1>9, <1>10, <1>11 DEF NextConfiguration

-----------------------------------------------------------------------------
(* With any number of settings pages, performance pages and other writers: *)
(* what was last set on purpose is what the document holds, unless a page, *)
(* a click or a bundle read before it was set has written over it, and the *)
(* mask is never kept as a credential, unless a bundle brought it          *)
(* (SettingsService.update, mergeSettings, PATCH /api/settings).           *)
THEOREM SettingsAreKept == ConfigurationSpec => []SettingsAreAsMeant
  <1>1. Inv => SettingsAreAsMeant
    BY DEF Inv
  <1> QED BY <1>1, ConfigurationStarts, InvKeeps, PTL DEF ConfigurationSpec

(* How many versions a part has had: what was meant of it and the pages    *)
(* that are still to save it have each taken a change of their own.        *)
Editing(s) == {p \in Pages : s \in page[p].edited}

PartNumbered(s) ==
  /\ document[s] \in 0..settingEdits /\ meant[s] >= 0
  /\ IsFiniteSet(Editing(s)) /\ meant[s] + Cardinality(Editing(s)) <= settingEdits

PageNumbered(p) ==
  page[p].pc = "open" =>
    page[p].hook \in Mask..settingEdits /\ \A s \in Sections : page[p].copy[s] \in 0..settingEdits

Numbered ==
  /\ settingEdits <= MaxSettingEdits /\ webhook \in Mask..settingEdits
  /\ \A s \in Sections : PartNumbered(s)
  /\ \A p \in Pages : PageNumbered(p)
  /\ bundle # <<>> =>
       bundle[1].hook \in Mask..settingEdits /\ \A s \in Sections : bundle[1].parts[s] \in 0..settingEdits

LEMMA SameEdits ==
  ASSUME \A p \in Pages : page'[p].edited = page[p].edited PROVE \A s : Editing(s)' = Editing(s)
  BY DEF Editing

LEMMA PartsAreNumbers ==
  ASSUME Inv, Numbered, NEW s \in Sections
  PROVE  meant[s] \in Nat /\ document[s] \in Nat /\ settingEdits \in Nat /\ Cardinality(Editing(s)) \in Nat
  BY InvParts, FS_CardinalityType DEF Numbered, PartNumbered, Document

(* Later changes make no number too large.                                 *)
LEMMA NumbersLast ==
  ASSUME Inv, Numbered, settingEdits' \in {settingEdits, settingEdits + 1}, settingEdits' <= MaxSettingEdits,
         bundle' = bundle
  PROVE  /\ settingEdits \in Nat /\ settingEdits' \in Nat /\ 0..settingEdits \subseteq 0..settingEdits'
         /\ Mask..settingEdits \subseteq Mask..settingEdits'
         /\ bundle' # <<>> =>
              bundle'[1].hook \in Mask..settingEdits' /\ \A s \in Sections : bundle'[1].parts[s] \in 0..settingEdits'
  <1>1. settingEdits \in Nat
    BY InvParts
  <1>2. 0..settingEdits \subseteq 0..settingEdits' /\ Mask..settingEdits \subseteq Mask..settingEdits'
    BY <1>1 DEF Mask
  <1> QED BY <1>1, <1>2 DEF Numbered

(* The pages as they were but for what they have fallen behind in.         *)
LEMMA PagesLast ==
  ASSUME Inv, Numbered, 0..settingEdits \subseteq 0..settingEdits', Mask..settingEdits \subseteq Mask..settingEdits',
         NEW p \in Pages, page'[p].pc = page[p].pc, page'[p].hook = page[p].hook, page'[p].copy = page[p].copy
  PROVE  PageNumbered(p)'
  BY DEF Numbered, PageNumbered

LEMMA PartsLast ==
  ASSUME Inv, Numbered, settingEdits' \in {settingEdits, settingEdits + 1}, NEW s \in Sections,
         Editing(s)' \subseteq Editing(s), meant'[s] = meant[s], document'[s] \in 0..settingEdits'
  PROVE  PartNumbered(s)'
  <1>1. IsFiniteSet(Editing(s)) /\ meant[s] + Cardinality(Editing(s)) <= settingEdits
    BY DEF Numbered, PartNumbered
  <1>2. IsFiniteSet(Editing(s)') /\ Cardinality(Editing(s)') <= Cardinality(Editing(s))
    BY <1>1, FS_Subset
  <1>3. Cardinality(Editing(s)') \in Nat
    BY <1>2, FS_CardinalityType
  <1> QED BY <1>1, <1>2, <1>3, PartsAreNumbers DEF PartNumbered

LEMMA WritesNumbers ==
  ASSUME Inv, Numbered, NEW part \in Sections, Writes(part), EditsSettings
  PROVE  Numbered'
  <1>1. /\ document' = [document EXCEPT ![part] = meant[part] + 1] /\ meant' = [meant EXCEPT ![part] = meant[part] + 1]
        /\ page' = FallBehind(page, {part}) /\ UNCHANGED <<webhook, bundle>>
        /\ settingEdits' = settingEdits + 1 /\ settingEdits' <= MaxSettingEdits
    BY InvParts, ConfigurationAssumption DEF Writes, EditsSettings, Document
  <1>2. {part} \in SUBSET Everything
    BY PartsAre
  <1>3. \A p \in Pages : /\ page'[p].pc = page[p].pc /\ page'[p].copy = page[p].copy
                         /\ page'[p].hook = page[p].hook /\ page'[p].edited = page[p].edited
    BY <1>1, <1>2, InvParts, FallBehindIs
  <1>4. \A s \in Sections : IF s = part THEN document'[s] = meant[s] + 1 /\ meant'[s] = meant[s] + 1
                                        ELSE document'[s] = document[s] /\ meant'[s] = meant[s]
    BY <1>1, InvParts DEF Document
  <1>5. ASSUME NEW s \in Sections PROVE PartNumbered(s)'
    <2>1. PartNumbered(s) /\ Editing(s)' = Editing(s)
      BY <1>3, SameEdits DEF Numbered
    <2> QED BY <1>1, <1>4, <2>1, PartsAreNumbers DEF PartNumbered
  <1>6. \A p \in Pages : PageNumbered(p)'
    BY <1>1, <1>3, NumbersLast, PagesLast
  <1>7. webhook' \in Mask..settingEdits'
    BY <1>1, NumbersLast DEF Numbered
  <1> QED BY <1>1, <1>5, <1>6, <1>7, NumbersLast DEF Numbered

(* One page changes, nothing is stored.                                    *)
LEMMA PageNumbers ==
  ASSUME Inv, Numbered, NEW p \in Pages, \A o \in Pages : o # p => page'[o] = page[o],
         UNCHANGED <<document, webhook, bundle, meant>>, PageNumbered(p)',
         settingEdits' \in {settingEdits, settingEdits + 1}, settingEdits' <= MaxSettingEdits,
         \A s \in Sections : s \in page'[p].edited =>
           s \in page[p].edited
             \/ (settingEdits' = settingEdits + 1 /\ \A t \in Sections \ {s} : t \in page'[p].edited => t \in page[p].edited)
  PROVE  Numbered'
  <1>1. \A o \in Pages : PageNumbered(o)'
    <2> TAKE o \in Pages
    <2>1. CASE o = p
      BY <2>1
    <2>2. CASE o # p
      BY <2>2, NumbersLast, PagesLast
    <2> QED BY <2>1, <2>2
  <1>2. ASSUME NEW s \in Sections PROVE PartNumbered(s)'
    <2>1. document'[s] \in 0..settingEdits' /\ meant'[s] = meant[s]
      BY NumbersLast DEF Numbered, PartNumbered
    <2>2. CASE s \in page'[p].edited => s \in page[p].edited
      <3>1. Editing(s)' \subseteq Editing(s)
        BY <2>2 DEF Editing
      <3> QED BY <2>1, <3>1, PartsLast
    <2>3. CASE s \in page'[p].edited /\ s \notin page[p].edited
      <3>1. Editing(s)' = Editing(s) \cup {p} /\ p \notin Editing(s)
        BY <2>3 DEF Editing
      <3>2. settingEdits' = settingEdits + 1
        BY <2>3
      <3>3. PartNumbered(s)
        BY DEF Numbered
      <3>4. IsFiniteSet(Editing(s)') /\ Cardinality(Editing(s)') = Cardinality(Editing(s)) + 1
        BY <3>1, <3>3, FS_AddElement DEF PartNumbered
      <3> QED BY <2>1, <3>2, <3>3, <3>4, PartsAreNumbers DEF PartNumbered
    <2> QED BY <2>2, <2>3
  <1>3. webhook' \in Mask..settingEdits'
    BY NumbersLast DEF Numbered
  <1> QED BY <1>1, <1>2, <1>3, NumbersLast DEF Numbered

LEMMA PagesNumber ==
  ASSUME Inv, Numbered, NEW p \in Pages,
         Loads(p) \/ TypesHook(p) \/ Leaves(p) \/ \E part \in PageSections : EditsForm(p, part)
  PROVE  Numbered'
  <1>0. /\ page \in [Pages -> PageType] /\ page[p] \in PageType /\ settingEdits \in Nat /\ PageNumbered(p)
        /\ settingEdits <= MaxSettingEdits /\ MaxSettingEdits \in Nat /\ document \in Document
    BY InvParts, ConfigurationAssumption DEF Numbered
  <1>1. CASE Loads(p)
    <2>1. PICK new : new = [pc |-> "open", copy |-> document, hook |-> Shown, excluded |-> excluded, edited |-> {}, behind |-> {}]
      OBVIOUS
    <2>2. new.hook = Shown /\ new.copy = document /\ new.edited = {}
      BY <2>1
    <2>3. /\ page' = [page EXCEPT ![p] = new]
          /\ UNCHANGED <<document, webhook, bundle, meant, settingEdits>>
      BY <1>1, <2>1 DEF Loads
    <2>4. page'[p] = new /\ \A o \in Pages : o # p => page'[o] = page[o]
      BY <1>0, <2>3
    <2>5. Shown \in Mask..settingEdits'
      BY <1>0, <2>3, InvParts DEF Empty, Mask
    <2>6. PageNumbered(p)'
      BY <2>2, <2>3, <2>4, <2>5 DEF Numbered, PartNumbered, PageNumbered
    <2> QED BY <1>0, <2>2, <2>3, <2>4, <2>6, PageNumbers
  <1>2. CASE Leaves(p)
    <2>1. page'[p] = ClosedPage /\ \A o \in Pages : o # p => page'[o] = page[o]
      BY <1>0, <1>2 DEF Leaves
    <2>2. ClosedPage.pc = "closed" /\ ClosedPage.edited = {}
      BY DEF ClosedPage
    <2>3. UNCHANGED <<document, webhook, bundle, meant, settingEdits>>
      BY <1>2 DEF Leaves
    <2>4. PageNumbered(p)'
      BY <2>1, <2>2 DEF PageNumbered
    <2> QED BY <1>0, <2>1, <2>2, <2>3, <2>4, PageNumbers
  <1>3. CASE TypesHook(p)
    <2>1. PICK url \in {Empty, settingEdits + 1} :
             page' = [page EXCEPT ![p].hook = url, ![p].edited = @ \cup {"webhook"}]
      BY <1>3 DEF TypesHook
    <2>2. /\ page'[p].pc = page[p].pc /\ page'[p].copy = page[p].copy /\ page'[p].hook = url
          /\ page'[p].edited = page[p].edited \cup {"webhook"}
          /\ \A o \in Pages : o # p => page'[o] = page[o]
      BY <1>0, <2>1 DEF PageType
    <2>3. /\ UNCHANGED <<document, webhook, bundle, meant>>
          /\ settingEdits' = settingEdits + 1 /\ settingEdits' <= MaxSettingEdits
      BY <1>0, <1>3 DEF TypesHook, EditsSettings
    <2>4. url \in Mask..settingEdits'
      BY <1>0, <2>3 DEF Empty, Mask
    <2>5. PageNumbered(p)'
      BY <1>0, <2>2, <2>3, <2>4, NumbersLast DEF PageNumbered
    <2>6. \A s \in Sections : s \in page'[p].edited => s \in page[p].edited
      BY <2>2, PartsAre
    <2> QED BY <2>2, <2>3, <2>5, <2>6, PageNumbers
  <1>4. ASSUME NEW part \in PageSections, EditsForm(p, part) PROVE Numbered'
    <2>1. page' = [page EXCEPT ![p].edited = @ \cup {part}]
      BY <1>4 DEF EditsForm
    <2>2. /\ page'[p].pc = page[p].pc /\ page'[p].copy = page[p].copy /\ page'[p].hook = page[p].hook
          /\ page'[p].edited = page[p].edited \cup {part}
          /\ \A o \in Pages : o # p => page'[o] = page[o]
      BY <1>0, <2>1 DEF PageType
    <2>3. /\ UNCHANGED <<document, webhook, bundle, meant>>
          /\ settingEdits' = settingEdits + 1 /\ settingEdits' <= MaxSettingEdits
      BY <1>0, <1>4 DEF EditsForm, EditsSettings
    <2>4. PageNumbered(p)'
      BY <2>2, <2>3, NumbersLast, PagesLast
    <2>5. \A s \in Sections : s \in page'[p].edited => s \in page[p].edited \/ s = part
      BY <2>2
    <2> QED BY <2>2, <2>3, <2>4, <2>5, PageNumbers
  <1> QED BY <1>1, <1>2, <1>3, <1>4

LEMMA SavesNumbers == ASSUME Inv, Numbered, NEW p \in Pages, SavesPage(p) PROVE Numbered'
  <1>1. PICK copy, hook, edited : copy = page[p].copy /\ hook = page[p].hook /\ edited = page[p].edited
    OBVIOUS
  <1>2. /\ document' = [s \in Sections |-> IF s \in edited THEN meant[s] + 1 ELSE copy[s]]
        /\ meant' = [s \in Sections |-> IF s \in edited THEN meant[s] + 1 ELSE meant[s]]
        /\ webhook' = Unmasked(hook)
        /\ page' = [FallBehind(page, Everything) EXCEPT ![p] = [page[p] EXCEPT !.pc = "saved", !.edited = {}]]
        /\ UNCHANGED <<bundle, settingEdits>>
    BY <1>1, Zenon DEF SavesPage
  <1>3. /\ hook \in Mask..settingEdits /\ \A s \in Sections : copy[s] \in 0..settingEdits
    BY <1>1 DEF SavesPage, Numbered, PageNumbered
  <1>4. /\ settingEdits \in Nat /\ settingEdits' \in {settingEdits, settingEdits + 1}
        /\ settingEdits' <= MaxSettingEdits
    BY <1>2, InvParts DEF Numbered
  <1>5. /\ page'[p].pc = "saved" /\ page'[p].edited = {}
        /\ \A o \in Pages : o # p =>
             /\ page'[o].pc = page[o].pc /\ page'[o].copy = page[o].copy /\ page'[o].hook = page[o].hook
             /\ page'[o].edited = page[o].edited
    <2>1. PICK new : new = [page[p] EXCEPT !.pc = "saved", !.edited = {}]
      OBVIOUS
    <2>2. new.pc = "saved" /\ new.edited = {}
      <3>1. page[p] \in PageType
        BY InvParts
      <3> QED BY <2>1, <3>1 DEF PageType
    <2>3. PICK others : others = FallBehind(page, Everything)
      OBVIOUS
    <2>4. Everything \in SUBSET Everything
      OBVIOUS
    <2>5. /\ others \in [Pages -> PageType]
          /\ \A o \in Pages :
                /\ others[o].pc = page[o].pc /\ others[o].copy = page[o].copy /\ others[o].hook = page[o].hook
                /\ others[o].edited = page[o].edited
      BY <2>3, <2>4, InvParts, FallBehindIs
    <2>6. page' = [others EXCEPT ![p] = new]
      BY <1>2, <2>1, <2>3, Zenon
    <2> QED BY <2>2, <2>5, <2>6
  <1>6. \A o \in Pages : PageNumbered(o)'
    <2> TAKE o \in Pages
    <2>1. CASE o = p
      BY <1>5, <2>1 DEF PageNumbered
    <2>2. CASE o # p
      BY <1>2, <1>4, <1>5, <2>2, NumbersLast, PagesLast
    <2> QED BY <2>1, <2>2
  <1>7. ASSUME NEW s \in Sections PROVE PartNumbered(s)'
    <2>1. PartNumbered(s)
      BY DEF Numbered
    <2>2. CASE s \notin edited
      <3>1. document'[s] = copy[s] /\ meant'[s] = meant[s]
        BY <1>2, <2>2
      <3>2. Editing(s)' \subseteq Editing(s)
        BY <1>5 DEF Editing
      <3> QED BY <1>2, <1>3, <1>4, <3>1, <3>2, PartsLast
    <2>3. CASE s \in edited
      <3>1. document'[s] = meant[s] + 1 /\ meant'[s] = meant[s] + 1
        BY <1>2, <2>3
      <3>2. Editing(s)' = Editing(s) \ {p} /\ p \in Editing(s)
        BY <1>1, <1>5, <2>3 DEF Editing
      <3>3. IsFiniteSet(Editing(s)') /\ Cardinality(Editing(s)') = Cardinality(Editing(s)) - 1
        BY <2>1, <3>2, FS_RemoveElement DEF PartNumbered
      <3>4. Cardinality(Editing(s)') \in Nat
        BY <3>3, FS_CardinalityType
      <3> QED BY <1>2, <2>1, <3>1, <3>3, <3>4, PartsAreNumbers DEF PartNumbered
    <2> QED BY <2>2, <2>3
  <1>8. webhook' \in Mask..settingEdits'
    BY <1>2, <1>3 DEF Unmasked, Numbered
  <1> QED BY <1>2, <1>4, <1>6, <1>7, <1>8, NumbersLast DEF Numbered

(* The steps of the exclusion list and of the bundles.                     *)
LEMMA OthersNumber ==
  ASSUME Inv, Numbered,
         \/ ExportsSettings \/ ImportsSettings
         \/ \E q \in PerfPages : WritesExcluded(q) \/ \E v \in Volumes : ClicksExclude(q, v)
  PROVE  Numbered'
  <1>0. settingEdits \in Nat /\ MaxSettingEdits \in Nat /\ settingEdits <= MaxSettingEdits
    BY InvParts, ConfigurationAssumption DEF Numbered
  <1>1. /\ meant' = meant /\ settingEdits' \in {settingEdits, settingEdits + 1} /\ settingEdits' <= MaxSettingEdits
        /\ page' = page \/ page' = FallBehind(page, {"excluded"}) \/ page' = FallBehind(page, Everything)
        /\ document' = document \/ (ImportsSettings /\ document' = bundle[1].parts)
        /\ webhook' = webhook \/ (ImportsSettings /\ webhook' = bundle[1].hook)
    BY <1>0 DEF ExportsSettings, ImportsSettings, WritesExcluded, ClicksExclude, EditsSettings
  <1>2. 0..settingEdits \subseteq 0..settingEdits' /\ Mask..settingEdits \subseteq Mask..settingEdits'
    BY <1>0, <1>1 DEF Mask
  <1>3. \A p \in Pages : /\ page'[p].pc = page[p].pc /\ page'[p].copy = page[p].copy
                         /\ page'[p].hook = page[p].hook /\ page'[p].edited = page[p].edited
    <2>1. {"excluded"} \in SUBSET Everything /\ Everything \in SUBSET Everything
      BY PartsAre
    <2> QED BY <1>1, <2>1, InvParts, FallBehindIs
  <1>4. \A p \in Pages : PageNumbered(p)'
    BY <1>2, <1>3, PagesLast
  <1>5. ImportsSettings => bundle # <<>>
    BY DEF ImportsSettings
  <1>6. \A s \in Sections : document'[s] \in 0..settingEdits'
    BY <1>1, <1>2, <1>5 DEF Numbered, PartNumbered
  <1>7. webhook' \in Mask..settingEdits'
    BY <1>1, <1>2, <1>5 DEF Numbered
  <1>8. \A s \in Sections : PartNumbered(s)'
    BY <1>1, <1>3, <1>6, SameEdits, PartsLast
  <1>9. bundle' # <<>> =>
          bundle'[1].hook \in Mask..settingEdits' /\ \A s \in Sections : bundle'[1].parts[s] \in 0..settingEdits'
    <2>1. CASE bundle' = bundle
      BY <2>1, <1>1, NumbersLast
    <2>2. CASE ExportsSettings
      <3>1. PICK b : b = [parts |-> document, hook |-> Shown, excluded |-> excluded]
        OBVIOUS
      <3>2. bundle' = <<b>> /\ b.parts = document /\ b.hook = Shown
        BY <2>2, <3>1 DEF ExportsSettings
      <3>3. bundle'[1].parts = document /\ bundle'[1].hook = Shown
        BY <3>2
      <3>4. Shown \in Mask..settingEdits
        BY <1>0, InvParts DEF Empty, Mask
      <3> QED BY <1>2, <3>3, <3>4 DEF Numbered, PartNumbered
    <2> QED BY <2>1, <2>2 DEF ImportsSettings, WritesExcluded, ClicksExclude
  <1> QED BY <1>1, <1>4, <1>7, <1>8, <1>9 DEF Numbered

(* A part never has a version that nobody made, wherever a copy of it went *)
(* and came back from, and neither has the webhook (mergeSettings,         *)
(* SettingsService.update).                                                *)
THEOREM ConfigurationTypeCorrect == ConfigurationSpec => []ConfigurationTypeOK
  <1>1. InitConfiguration => Numbered
    <2> SUFFICES ASSUME InitConfiguration PROVE Numbered
      OBVIOUS
    <2>1. /\ \A s \in Sections : document[s] = 0 /\ meant[s] = 0
          /\ webhook = Empty /\ bundle = <<>> /\ settingEdits = 0
          /\ \A p \in Pages : page[p].pc = "closed" /\ page[p].edited = {}
      BY DEF InitConfiguration, ClosedPage
    <2>2. \A s \in Sections : Editing(s) = {}
      BY <2>1 DEF Editing
    <2>3. ASSUME NEW s \in Sections PROVE PartNumbered(s)
      <3>1. IsFiniteSet({}) /\ Cardinality({}) = 0
        BY FS_EmptySet
      <3>2. PICK none : none = Editing(s)
        OBVIOUS
      <3>3. IsFiniteSet(none) /\ Cardinality(none) = 0
        BY <2>2, <3>1, <3>2
      <3> QED BY <2>1, <3>2, <3>3 DEF PartNumbered
    <2>4. \A p \in Pages : PageNumbered(p)
      BY <2>1 DEF PageNumbered
    <2> QED BY <2>1, <2>3, <2>4, ConfigurationAssumption DEF Numbered, Empty, Mask
  <1>2. ASSUME Inv, Numbered, [NextConfiguration]_configVars PROVE Numbered'
    <2>1. CASE UNCHANGED configVars
      BY <1>2, <2>1 DEF configVars, Numbered, PartNumbered, PageNumbered, Editing
    <2>2. CASE SavesSchedule \/ MutesVolume \/ AgentReports \/ RootsDetected
      <3>1. PICK part \in Sections : Writes(part) /\ EditsSettings
        BY <2>2 DEF SavesSchedule, MutesVolume, AgentReports, RootsDetected, Sections
      <3> QED BY <1>2, <3>1, WritesNumbers
    <2>3. ASSUME NEW p \in Pages, SavesPage(p) PROVE Numbered'
      BY <1>2, <2>3, SavesNumbers
    <2>4. ASSUME NEW p \in Pages,
                 Loads(p) \/ TypesHook(p) \/ Leaves(p) \/ \E part \in PageSections : EditsForm(p, part)
          PROVE  Numbered'
      BY <1>2, <2>4, PagesNumber
    <2>5. CASE \/ ExportsSettings \/ ImportsSettings
               \/ \E q \in PerfPages : WritesExcluded(q) \/ \E v \in Volumes : ClicksExclude(q, v)
      BY <1>2, <2>5, OthersNumber
    <2> QED BY <1>2, <2>1, <2>2, <2>3, <2>4, <2>5 DEF NextConfiguration
  <1>3. ASSUME Inv, Numbered PROVE ConfigurationTypeOK
    <2>1. /\ document \in Document /\ \A s \in Sections : document[s] \in 0..settingEdits
          /\ settingEdits \in Nat /\ settingEdits <= MaxSettingEdits /\ MaxSettingEdits \in Nat
      BY <1>3, InvParts, ConfigurationAssumption DEF Numbered, PartNumbered
    <2>2. document \in [Sections -> 0..MaxSettingEdits]
      BY <2>1 DEF Document
    <2>3. webhook \in Mask..MaxSettingEdits
      BY <1>3, <2>1 DEF Numbered, Mask
    <2>4. \A p \in Pages : page[p].pc \in {"closed", "open", "saved"}
      BY <1>3, InvParts DEF PageType
    <2> QED BY <1>3, <2>2, <2>3, <2>4, InvParts DEF ConfigurationTypeOK
  <1> QED BY <1>1, <1>2, <1>3, ConfigurationStarts, InvKeeps, PTL DEF ConfigurationSpec


-----------------------------------------------------------------------------
(* Numbers.                                                                *)

(* A set of numbers without a least one would leave below it a finite set  *)
(* that is as large as itself without zero.                                *)
LEMMA LeastIs == ASSUME NEW S \in SUBSET Nat, S # {} PROVE \E n \in S : \A m \in S : n <= m
  <1> SUFFICES ASSUME \A n \in S : \E m \in S : m < n PROVE FALSE
    OBVIOUS
  <1>1. PICK x \in S : TRUE
    OBVIOUS
  <1> DEFINE A == {n \in 0..x : \A m \in S : n < m}
             f == [n \in A |-> IF n = 0 THEN 0 ELSE n - 1]
  <1>2. 0 \in A
    BY <1>1
  <1>3. \A n \in A : n + 1 \in A
    <2> TAKE n \in A
    <2>1. n \in Nat /\ \A m \in S : m \in Nat /\ n + 1 <= m
      OBVIOUS
    <2>2. ASSUME NEW m \in S, m = n + 1 PROVE FALSE
      BY <2>1, <2>2
    <2>3. \A m \in S : n + 1 < m
      BY <2>1, <2>2
    <2> QED BY <1>1, <2>1, <2>3
  <1>4. IsFiniteSet(A)
    <2>1. IsFiniteSet(0..x)
      BY <1>1, FS_Interval
    <2> QED BY <2>1, FS_Subset
  <1>5. f \in Surjection(A, A)
    <2>1. \A n \in A : f[n] \in A
      OBVIOUS
    <2>2. \A n \in A : n + 1 \in A /\ f[n + 1] = n
      BY <1>3
    <2> QED BY <2>1, <2>2 DEF Surjection
  <1>6. f \in Injection(A, A)
    <2>1. \A U : IsFiniteSet(U) => \A g \in Surjection(U, U) : g \in Injection(U, U)
      BY FS_SurjSameCardinalityImpliesInj
    <2> HIDE DEF A, f
    <2> QED BY <1>4, <1>5, <2>1
  <1>7. 0 \in A /\ 1 \in A /\ 0 # 1 /\ f[0] = f[1]
    BY <1>2, <1>3
  <1>8. \A a, b \in A : f[a] = f[b] => a = b
    <2> HIDE DEF A, f
    <2> QED BY <1>6 DEF Injection, IsInjective
  <1> HIDE DEF A, f
  <1> QED BY <1>7, <1>8

-----------------------------------------------------------------------------
(* Paths.                                                                  *)

LEMMA PrefixIs ==
  ASSUME NEW S, NEW f \in Seq(S), NEW n \in 0..Len(f)
  PROVE  /\ SubSeq(f, 1, n) \in Seq(S) /\ Len(SubSeq(f, 1, n)) = n
         /\ \A k \in 0..n : SubSeq(SubSeq(f, 1, n), 1, k) = SubSeq(f, 1, k)
  <1>1. Len(f) \in Nat /\ \A i \in 1..Len(f) : f[i] \in S
    BY LenProperties, ElementOfSeq
  <1>2. SubSeq(f, 1, n) \in Seq(S) /\ Len(SubSeq(f, 1, n)) = n
    BY <1>1, SubSeqProperties
  <1>3. PICK g \in Seq(S) : g = SubSeq(f, 1, n) /\ Len(g) = n
    BY <1>2
  <1>4. ASSUME NEW k \in 0..n PROVE SubSeq(g, 1, k) = SubSeq(f, 1, k)
    <2>1. g = [i \in 1..n |-> f[i]]
      BY <1>1, <1>3, SubSeqRestrict DEF Restrict
    <2>2. SubSeq(g, 1, k) = [i \in 1..k |-> g[i]]
      BY <1>3, <1>4, SubSeqRestrict DEF Restrict
    <2>3. SubSeq(f, 1, k) = [i \in 1..k |-> f[i]]
      BY <1>1, <1>4, SubSeqRestrict DEF Restrict
    <2>4. \A i \in 1..k : g[i] = f[i]
      BY <2>1, <1>4, <1>1
    <2> QED BY <2>2, <2>3, <2>4
  <1> QED BY <1>2, <1>3, <1>4

(* The folders above one are told apart by their lengths.                  *)
LEMMA AboveIs ==
  ASSUME NEW f \in Folders
  PROVE  /\ Len(f) \in Nat /\ f \in Above(f) /\ <<>> \in Above(f) /\ Above(f) \subseteq Folders
         /\ \A g \in Above(f) : Len(g) \in 0..Len(f)
         /\ \A g, h \in Above(f) : Len(g) = Len(h) => g = h
         /\ \A g \in Above(f) : \A h : h \in Above(g) <=> h \in Above(f) /\ Len(h) <= Len(g)
  <1>1. f \in Seq(FolderNames) /\ Len(f) \in Nat /\ Above(f) \subseteq Folders
    BY PoolAssumption, LenProperties
  <1>2. f \in Above(f) /\ <<>> \in Above(f)
    <2>1. SubSeq(f, 1, Len(f)) = f /\ SubSeq(f, 1, 0) = <<>>
      BY <1>1, SubSeqFull, SubSeqEmpty
    <2>2. Len(f) \in 0..Len(f) /\ 0 \in 0..Len(f)
      BY <1>1
    <2>3. \A n \in 0..Len(f) : SubSeq(f, 1, n) \in Above(f)
      BY DEF Above
    <2> QED BY <2>1, <2>2, <2>3
  <1>3. ASSUME NEW g \in Above(f)
        PROVE  Len(g) \in 0..Len(f) /\ g = SubSeq(f, 1, Len(g)) /\ \A k \in 0..Len(g) : SubSeq(g, 1, k) = SubSeq(f, 1, k)
    <2>1. PICK n \in 0..Len(f) : g = SubSeq(f, 1, n)
      BY DEF Above
    <2> QED BY <1>1, <2>1, PrefixIs
  <1>4. ASSUME NEW g \in Above(f), NEW h PROVE h \in Above(g) <=> h \in Above(f) /\ Len(h) <= Len(g)
    <2>1. ASSUME h \in Above(g) PROVE h \in Above(f) /\ Len(h) <= Len(g)
      <3>1. PICK k \in 0..Len(g) : h = SubSeq(g, 1, k)
        BY <2>1 DEF Above
      <3>2. k \in 0..Len(f) /\ h = SubSeq(f, 1, k) /\ Len(h) = k
        BY <1>1, <1>3, <3>1, PrefixIs
      <3> QED BY <3>1, <3>2 DEF Above
    <2>2. ASSUME h \in Above(f), Len(h) <= Len(g) PROVE h \in Above(g)
      <3>1. Len(h) \in 0..Len(g) /\ h = SubSeq(g, 1, Len(h))
        BY <1>1, <1>3, <2>2
      <3> QED BY <3>1 DEF Above
    <2> QED BY <2>1, <2>2
  <1> QED BY <1>1, <1>2, <1>3, <1>4

(* The deepest of some folders above one.                                  *)
LEMMA DeepestIs ==
  ASSUME NEW f \in Folders, NEW fs \in SUBSET Above(f), fs # {}
  PROVE  Deepest(fs) \in fs /\ \A g \in fs : Len(g) <= Len(Deepest(fs))
  <1>1. /\ Len(f) \in Nat /\ \A g \in Above(f) : Len(g) \in 0..Len(f)
    BY AboveIs
  <1> DEFINE short == {n \in 0..Len(f) : \E g \in fs : Len(g) = Len(f) - n}
  <1>2. short \in SUBSET Nat /\ short # {}
    <2>1. PICK g \in fs : Len(g) \in 0..Len(f)
      BY <1>1
    <2>2. Len(f) - Len(g) \in short
      BY <1>1, <2>1
    <2>3. short \in SUBSET Nat
      BY <1>1
    <2> HIDE DEF short
    <2> QED BY <2>2, <2>3
  <1>3. PICK n \in short : \A m \in short : n <= m
    <2> HIDE DEF short
    <2> QED BY <1>2, LeastIs
  <1>4. PICK g \in fs : Len(g) = Len(f) - n
    OBVIOUS
  <1>5. \A h \in fs : Len(h) <= Len(g)
    <2> TAKE h \in fs
    <2>1. Len(h) \in 0..Len(f) /\ Len(f) - Len(h) \in short
      BY <1>1
    <2>2. n <= Len(f) - Len(h) /\ n \in 0..Len(f)
      BY <1>3, <2>1
    <2> QED BY <1>1, <1>4, <2>1, <2>2
  <1> QED BY <1>4, <1>5 DEF Deepest

(* A deepest folder is the one.                                            *)
LEMMA DeepestIsThe ==
  ASSUME NEW f \in Folders, NEW fs \in SUBSET Above(f), NEW g \in fs, \A h \in fs : Len(h) <= Len(g)
  PROVE  Deepest(fs) = g
  <1>1. Deepest(fs) \in fs /\ Len(g) <= Len(Deepest(fs))
    BY DeepestIs
  <1>2. Len(Deepest(fs)) <= Len(g) /\ Len(g) \in Nat /\ Len(Deepest(fs)) \in Nat
    BY <1>1, AboveIs
  <1> QED BY <1>1, <1>2, AboveIs

-----------------------------------------------------------------------------
(* The rules. What is pruned of them is what is inherited.                 *)

LEMMA InheritedIs ==
  ASSUME NEW map, NEW t, NEW read, read = (Above(t) \ {t}) \cap DOMAIN map
  PROVE  \A x : x \in Inherited(map, t) <=> read # {} /\ x = map[Deepest(read)]
  BY DEF Inherited

LEMMA ChangedIs ==
  ASSUME NEW map, NEW f \in Folders, NEW deep \in Above(f) \cap DOMAIN map,
         \A g \in Above(f) \cap DOMAIN map : Len(g) <= Len(deep)
  PROVE  \E rule \in Above(f) \cap Changed(map) :
           /\ \A g \in Above(f) \cap Changed(map) : Len(g) <= Len(rule)
           /\ \A h \in Above(f) \cap DOMAIN map : Len(rule) <= Len(h) => map[h] = map[deep]
  <1> DEFINE R == Above(f) \cap DOMAIN map
             same(n) == \A h \in R : n <= Len(h) => map[h] = map[deep]
             N == {n \in 0..Len(deep) : \E t \in R : Len(t) = n /\ same(n)}
  <1>1. Len(f) \in Nat /\ (\A g \in R : g \in Folders /\ Len(g) \in Nat) /\ \A g, h \in R : Len(g) = Len(h) => g = h
    BY AboveIs
  <1>2. N \in SUBSET Nat /\ Len(deep) \in N
    <2>1. \A h \in R : Len(deep) <= Len(h) => h = deep
      BY <1>1
    <2>2. same(Len(deep)) /\ Len(deep) \in 0..Len(deep) /\ Len(deep) \in Nat
      BY <1>1, <2>1
    <2> QED BY <2>2
  <1>3. PICK n \in N : \A m \in N : n <= m
    <2> HIDE DEF N
    <2> QED BY <1>2, LeastIs
  <1>4. PICK t \in R : Len(t) = n /\ same(n)
    OBVIOUS
  <1>5. t \in Changed(map)
    <2> SUFFICES ASSUME map[t] \in Inherited(map, t) PROVE FALSE
      BY DEF Changed
    <2>1. PICK read : read = (Above(t) \ {t}) \cap DOMAIN map
      OBVIOUS
    <2>2. read # {} /\ map[t] = map[Deepest(read)]
      BY <2>1, InheritedIs
    <2>3. PICK r : r = Deepest(read)
      OBVIOUS
    <2>4. r \in read /\ \A h \in read : Len(h) <= Len(r)
      BY <1>1, <2>1, <2>2, <2>3, DeepestIs
    <2>5. \A h : h \in read <=> h \in R /\ h # t /\ Len(h) <= Len(t)
      BY <2>1, AboveIs
    <2>6. Len(r) < Len(t) /\ r \in R
      BY <1>1, <2>4, <2>5
    <2>7. ASSUME NEW h \in R, Len(r) <= Len(h) PROVE map[h] = map[deep]
      <3>1. CASE Len(t) <= Len(h)
        BY <1>4, <3>1
      <3>2. CASE Len(h) < Len(t)
        <4>1. h \in read
          BY <1>1, <2>5, <3>2
        <4>2. h = r
          BY <1>1, <2>4, <2>6, <2>7, <4>1
        <4>3. map[t] = map[deep]
          BY <1>1, <1>4
        <4> QED BY <2>2, <2>3, <4>2, <4>3
      <3> QED BY <1>1, <3>1, <3>2
    <2>8. Len(r) \in N
      BY <1>1, <1>3, <1>4, <2>6, <2>7
    <2> QED BY <1>1, <1>3, <1>4, <2>6, <2>8
  <1>6. Changed(map) \subseteq DOMAIN map
    BY DEF Changed
  <1>7. PICK rule : rule = Deepest(Above(f) \cap Changed(map))
    OBVIOUS
  <1>8. rule \in Above(f) \cap Changed(map) /\ \A g \in Above(f) \cap Changed(map) : Len(g) <= Len(rule)
    BY <1>5, <1>7, DeepestIs
  <1>9. \A h \in R : Len(rule) <= Len(h) => map[h] = map[deep]
    BY <1>1, <1>4, <1>5, <1>6, <1>8
  <1> QED BY <1>8, <1>9

LEMMA RuleResolves ==
  ASSUME NEW map, map = learned.levels, agentLevel = [g \in Changed(map) |-> map[g]],
         \A g \in DOMAIN map : map[g] # 0, NEW f \in Folders, Above(f) \cap DOMAIN map # {}
  PROVE  ResolvedLevel(f) = Ought(f)
  <1> DEFINE R == Above(f) \cap DOMAIN map
             manual == {g \in Above(f) : manualLevel[g] > 0}
             read(g) == Above(g) \cap DOMAIN map
             level(g) == IF read(g) = {} THEN 0 ELSE map[Deepest(read(g))]
             between == {g \in Above(f) : Len(g) >= Len(Deepest(manual))}
             reported == Above(f) \cap DOMAIN agentLevel
             by == manual \cup reported
  <1>1. Len(f) \in Nat /\ (\A g \in Above(f) : g \in Folders /\ Len(g) \in Nat /\ Len(g) <= Len(f))
        /\ (\A g, h \in Above(f) : Len(g) = Len(h) => g = h) /\ f \in Above(f) /\ <<>> \in Above(f)
    BY AboveIs
  <1>2. PICK deep : deep = Deepest(R)
    OBVIOUS
  <1>3. deep \in R /\ \A g \in R : Len(g) <= Len(deep)
    BY <1>2, DeepestIs
  <1>4. PICK rule \in Above(f) \cap Changed(map) :
           /\ \A g \in Above(f) \cap Changed(map) : Len(g) <= Len(rule)
           /\ \A h \in R : Len(rule) <= Len(h) => map[h] = map[deep]
    <2>1. deep \in Above(f) \cap DOMAIN map /\ \A g \in Above(f) \cap DOMAIN map : Len(g) <= Len(deep)
      BY <1>3
    <2> HIDE DEF R
    <2>2. \E rul \in Above(f) \cap Changed(map) :
            /\ \A g \in Above(f) \cap Changed(map) : Len(g) <= Len(rul)
            /\ \A h \in Above(f) \cap DOMAIN map : Len(rul) <= Len(h) => map[h] = map[deep]
      BY <2>1, ChangedIs
    <2> QED BY <2>2 DEF R
  <1>5. Changed(map) \subseteq DOMAIN map /\ DOMAIN agentLevel = Changed(map) /\ agentLevel[rule] = map[rule] /\ map[rule] = map[deep]
    <2>1. Changed(map) \subseteq DOMAIN map
      BY DEF Changed
    <2> QED BY <1>1, <1>4, <2>1
  <1>6. ResolvedLevel(f) = IF Deepest(by) \in manual THEN manualLevel[Deepest(by)] ELSE agentLevel[Deepest(by)]
    <2>1. by # {}
      BY <1>4, <1>5
    <2> QED BY <2>1 DEF ResolvedLevel
  <1>7. Ought(f) = IF manual # {} /\ \A g \in between : level(g) = level(f) THEN manualLevel[Deepest(manual)] ELSE level(f)
    BY DEF Ought
  <1>8. ASSUME NEW g \in Above(f), NEW h \in R, Len(h) <= Len(g), \A k \in R : Len(k) <= Len(g) => Len(k) <= Len(h)
        PROVE  level(g) = map[h]
    <2>1. \A k : k \in read(g) <=> k \in R /\ Len(k) <= Len(g)
      BY AboveIs
    <2>2. h \in read(g) /\ \A k \in read(g) : Len(k) <= Len(h)
      BY <1>8, <2>1
    <2>3. Deepest(read(g)) = h
      BY <1>1, <2>2, DeepestIsThe
    <2> QED BY <2>2, <2>3
  <1>9. level(f) = map[deep]
    BY <1>1, <1>3, <1>8
  <1>10. ASSUME NEW g \in Above(f), Len(rule) <= Len(g) PROVE level(g) = map[deep]
    <2>1. PICK h : h = Deepest(read(g))
      OBVIOUS
    <2>2. \A k : k \in read(g) <=> k \in R /\ Len(k) <= Len(g)
      BY AboveIs
    <2>3. rule \in read(g)
      BY <1>4, <1>5, <1>10, <2>2
    <2>4. h \in read(g) /\ Len(rule) <= Len(h)
      BY <1>1, <2>1, <2>3, DeepestIs
    <2> QED BY <1>4, <2>1, <2>2, <2>3, <2>4
  <1> HIDE DEF level
  <1>11. manual \in SUBSET Above(f) /\ reported = Above(f) \cap Changed(map)
    BY <1>5
  <1>12. CASE manual = {}
    <2>1. Deepest(by) = rule
      BY <1>4, <1>11, <1>12, DeepestIsThe
    <2> QED BY <1>5, <1>6, <1>7, <1>9, <1>12, <2>1
  <1>13. CASE manual # {}
    <2>1. PICK m : m = Deepest(manual)
      OBVIOUS
    <2>2. m \in manual /\ \A g \in manual : Len(g) <= Len(m)
      BY <1>11, <1>13, <2>1, DeepestIs
    <2>3. CASE Len(rule) <= Len(m)
      <3>1. Deepest(by) = m
        <4>1. \A g \in by : Len(g) <= Len(m)
          BY <1>1, <1>4, <1>11, <2>2, <2>3
        <4>2. by \in SUBSET Above(f) /\ m \in by
          BY <1>11, <2>2
        <4> HIDE DEF by
        <4> QED BY <4>1, <4>2, DeepestIsThe
      <3>2. \A g \in between : level(g) = level(f)
        BY <1>1, <1>4, <1>9, <1>10, <2>1, <2>2, <2>3
      <3> QED BY <1>6, <1>7, <1>13, <2>1, <2>2, <3>1, <3>2
    <2>4. CASE Len(m) < Len(rule)
      <3>1. Deepest(by) = rule /\ rule \notin manual
        <4>1. \A g \in by : Len(g) <= Len(rule)
          BY <1>1, <1>4, <1>11, <2>2, <2>4
        <4>2. by \in SUBSET Above(f) /\ rule \in by
          BY <1>4, <1>11
        <4>3. rule \notin manual
          BY <1>1, <1>4, <2>2, <2>4
        <4> HIDE DEF by
        <4> QED BY <4>1, <4>2, <4>3, DeepestIsThe
      <3>2. ResolvedLevel(f) = level(f)
        BY <1>5, <1>6, <1>9, <3>1
      <3>3. \E g \in between : level(g) # level(f)
        <4>1. PICK higher : higher = (Above(rule) \ {rule}) \cap DOMAIN map
          OBVIOUS
        <4>2. rule # <<>>
          BY <1>1, <2>2, <2>4
        <4>3. higher # {} => map[rule] # map[Deepest(higher)]
          <5>1. map[rule] \notin Inherited(map, rule)
            BY <1>4, <4>2 DEF Changed
          <5> QED BY <4>1, <5>1, InheritedIs
        <4>4. \A h : h \in higher <=> h \in R /\ h # rule /\ Len(h) <= Len(rule)
          BY <1>4, <4>1, AboveIs
        <4>5. \A k : k \in read(m) <=> k \in R /\ Len(k) <= Len(m)
          BY <2>2, AboveIs
        <4>6. m \in between
          BY <1>1, <2>1, <2>2
        <4>7. CASE higher = {}
          <5>1. read(m) = {}
            BY <1>1, <1>4, <2>2, <2>4, <4>4, <4>5, <4>7
          <5>2. level(m) = 0
            BY <5>1 DEF level
          <5>3. level(f) # 0
            BY <1>3, <1>9
          <5> QED BY <4>6, <5>2, <5>3
        <4>8. CASE higher # {}
          <5>1. PICK r : r = Deepest(higher)
            OBVIOUS
          <5>2. r \in higher /\ \A h \in higher : Len(h) <= Len(r)
            BY <1>1, <1>4, <4>1, <4>8, <5>1, DeepestIs
          <5>3. r \in R /\ Len(r) < Len(rule) /\ map[r] # map[deep]
            BY <1>1, <1>4, <1>5, <4>3, <4>4, <4>8, <5>1, <5>2
          <5>4. CASE Len(r) <= Len(m)
            <6>1. \A k \in R : Len(k) <= Len(m) => Len(k) <= Len(r)
              BY <1>1, <1>4, <2>2, <2>4, <4>4, <5>2
            <6>2. level(m) = map[r]
              BY <1>8, <2>2, <5>3, <5>4, <6>1
            <6> QED BY <1>9, <4>6, <5>3, <6>2
          <5>5. CASE Len(m) < Len(r)
            <6>1. r \in between
              BY <1>1, <2>1, <2>2, <5>3, <5>5
            <6>2. level(r) = map[r]
              BY <1>1, <1>8, <5>3
            <6> QED BY <1>9, <5>3, <6>1, <6>2
          <5> QED BY <1>1, <2>2, <5>3, <5>4, <5>5
        <4> QED BY <4>7, <4>8
      <3> QED BY <1>7, <3>2, <3>3
    <2> QED BY <1>1, <1>4, <2>2, <2>3, <2>4
  <1> QED BY <1>12, <1>13

-----------------------------------------------------------------------------
(* What holds at every step.                                               *)

Levels == UNION {[fs -> Nat \ {0}] : fs \in SUBSET Folders}
PartType == [disk : PoolDisks, missing : BOOLEAN, path : {"device", "letter", "guid"}]
InventoryType ==
  [pc : {"off", "probe", "send"}, parts : SUBSET PartType, queue : Seq(Folders), map : Levels,
   covered : SUBSET Folders, fresh : BOOLEAN]

MembersTyped ==
  /\ setLevel \in [Folders -> CopyLevels] /\ setLevel[<<>>] > 0 /\ manualLevel \in [Folders -> CopyLevels]
  /\ poolDisks \in [PoolDisks -> [letter : BOOLEAN, here : BOOLEAN, member : BOOLEAN]]
  /\ inventory \in InventoryType /\ partRows \in [PoolDisks -> Seq(PartType)]
  /\ learned.levels \in Levels /\ learned.covered \subseteq Folders
  /\ knownRoots \subseteq [disk : PoolDisks, path : {"letter", "guid"}]

(* What was read is what DrivePool answered, of a folder that alone or     *)
(* with all below it has that level, unless a level was set on the way.    *)
ProbeIsTrue ==
  /\ inventory.pc = "off" => DOMAIN inventory.map = {} /\ inventory.covered = {}
  /\ inventory.fresh => \A g \in DOMAIN inventory.map : inventory.map[g] = LevelOf(g)
  /\ \A f \in inventory.covered : \E g \in Above(f) \cap DOMAIN inventory.map : inventory.fresh => g = f \/ Uniform(g)

RulesAreTold ==
  /\ agentLevel = [f \in Changed(learned.levels) |-> learned.levels[f]]
  /\ \A f \in learned.covered : Above(f) \cap DOMAIN learned.levels # {}

(* A part that is not missing has the path of its disk, as has a root.     *)
PathOf(d) == IF poolDisks[d].letter THEN "letter" ELSE "guid"
NamesDisk(p) ==
  \/ p.missing
  \/ /\ p.path \in {"letter", "guid"}
     /\ p.disk \in moved \/ p.path = PathOf(p.disk)
RootsHaveParts ==
  /\ \A p \in inventory.parts : NamesDisk(p)
  /\ \A d \in PoolDisks : partRows[d] # <<>> => partRows[d][1].disk = d /\ NamesDisk(partRows[d][1])
  /\ \A r \in knownRoots : r.disk \in moved \/ r.path = PathOf(r.disk)
  /\ knownRoots = {} /\ ~emptied => \A d \in PoolDisks : partRows[d] # <<>> => partRows[d][1].missing

MembersInv == MembersTyped /\ ProbeIsTrue /\ RulesAreTold /\ RootsHaveParts

LEMMA OrderedIs == ASSUME NEW fs \in SUBSET Folders PROVE Ordered(fs) \in Seq(Folders)
  <1>1. IsFiniteSet(fs)
    BY PoolAssumption, FS_Subset
  <1>2. PICK n \in Nat : n = Cardinality(fs) /\ ExistsBijection(1..n, fs)
    BY <1>1, FS_CardinalityType
  <1>3. PICK s \in [1..n -> fs] : \A i, j \in 1..n : s[i] = s[j] => i = j
    BY <1>2 DEF ExistsBijection, Bijection, Injection, IsInjective
  <1>4. Ordered(fs) \in [1..n -> fs]
    BY <1>2, <1>3 DEF Ordered
  <1> QED BY <1>4, SeqDef

LEMMA ChildrenAre == ASSUME NEW f PROVE Children(f) \in Seq(Folders)
  <1>1. Ordered({g \in Folders : Len(g) = Len(f) + 1 /\ f \in Above(g)}) \in Seq(Folders)
    BY OrderedIs
  <1> QED BY <1>1, EmptySeq DEF Children

LEMMA InventoryIs ==
  ASSUME MembersTyped
  PROVE  /\ inventory.pc \in {"off", "probe", "send"} /\ inventory.parts \in SUBSET PartType /\ inventory.queue \in Seq(Folders)
         /\ inventory.map \in Levels /\ inventory.covered \in SUBSET Folders /\ inventory.fresh \in BOOLEAN
         /\ NoInventory \in InventoryType /\ NoInventory.pc = "off" /\ NoInventory.parts = {} /\ NoInventory.map = <<>>
         /\ NoInventory.covered = {} /\ DOMAIN NoInventory.map = {}
  <1>1. NoInventory \in InventoryType
    <2>1. <<>> \in [{} -> Nat \ {0}] /\ <<>> \in Seq(Folders)
      BY EmptySeq
    <2>2. <<>> \in Levels
      BY <2>1 DEF Levels
    <2> QED BY <2>1, <2>2 DEF NoInventory, InventoryType
  <1> QED BY <1>1 DEF MembersTyped, InventoryType, NoInventory

LEMMA LevelsAre ==
  ASSUME NEW map \in Levels
  PROVE  DOMAIN map \in SUBSET Folders /\ \A f \in DOMAIN map : map[f] \in Nat \ {0}
  BY DEF Levels

(* DrivePool has a level for every folder.                                 *)
LEMMA LevelIs == ASSUME MembersTyped, NEW f \in Folders PROVE LevelOf(f) \in Nat \ {0}
  <1> DEFINE set == {g \in Above(f) : setLevel[g] > 0}
  <1>1. <<>> \in set /\ set \in SUBSET Above(f) /\ Above(f) \subseteq Folders
    BY AboveIs DEF MembersTyped
  <1>2. PICK d : d = Deepest(set) /\ d \in set
    <2> HIDE DEF set
    <2> QED BY <1>1, DeepestIs
  <1>3. setLevel[d] \in Nat /\ setLevel[d] > 0
    BY <1>1, <1>2, PoolAssumption DEF MembersTyped
  <1> QED BY <1>2, <1>3 DEF LevelOf

(* What asking does: the folder is read, and it or all below it covered.   *)
LEMMA AsksIs ==
  ASSUME MembersTyped, Asks
  PROVE  \E f \in Folders :
           /\ inventory'.map = [g \in DOMAIN inventory.map \cup {f} |-> IF g = f THEN LevelOf(f) ELSE inventory.map[g]]
           /\ inventory'.covered = inventory.covered \cup IF Uniform(f) THEN {g \in Folders : f \in Above(g)} ELSE {f}
           /\ UNCHANGED <<inventory.pc, inventory.parts, inventory.fresh>> /\ inventory' \in InventoryType
  <1>1. inventory.queue \in Seq(Folders) /\ inventory.queue # <<>>
    BY InventoryIs DEF Asks
  <1>2. PICK f \in Folders : f = Head(inventory.queue)
    BY <1>1, HeadTailProperties
  <1>3. Answer(f).copies = LevelOf(f) /\ Answer(f).mixed = ~Uniform(f)
    BY DEF Answer
  <1>4. PICK map : map = [g \in DOMAIN inventory.map \cup {f} |-> IF g = f THEN LevelOf(f) ELSE inventory.map[g]]
    OBVIOUS
  <1>5. PICK covered : covered = inventory.covered \cup IF Uniform(f) THEN {g \in Folders : f \in Above(g)} ELSE {f}
    OBVIOUS
  <1>6. PICK queue : queue = Tail(inventory.queue) \o IF Answer(f).mixed THEN Children(f) ELSE <<>>
    OBVIOUS
  <1>7. inventory' = [inventory EXCEPT !.map = map, !.covered = covered, !.queue = queue]
    <2>1. map = [g \in DOMAIN inventory.map \cup {f} |-> IF g = f THEN Answer(f).copies ELSE inventory.map[g]]
      BY <1>3, <1>4
    <2>2. covered = inventory.covered \cup IF Answer(f).mixed THEN {f} ELSE {g \in Folders : f \in Above(g)}
      BY <1>3, <1>5
    <2>3. inventory' = [inventory EXCEPT
            !.map = [g \in DOMAIN @ \cup {f} |-> IF g = f THEN Answer(f).copies ELSE @[g]],
            !.covered = @ \cup IF Answer(f).mixed THEN {f} ELSE {g \in Folders : f \in Above(g)},
            !.queue = Tail(@) \o IF Answer(f).mixed THEN Children(f) ELSE <<>>]
      BY <1>2 DEF Asks
    <2> QED BY <2>1, <2>2, <2>3, <1>6
  <1>8. map \in Levels
    <2>1. DOMAIN inventory.map \in SUBSET Folders /\ \A g \in DOMAIN inventory.map : inventory.map[g] \in Nat \ {0}
      BY InventoryIs, LevelsAre
    <2>2. map \in [DOMAIN inventory.map \cup {f} -> Nat \ {0}]
      BY <1>4, <2>1, LevelIs
    <2> QED BY <2>1, <2>2 DEF Levels
  <1>9. covered \in SUBSET Folders
    BY <1>5, InventoryIs
  <1>10. queue \in Seq(Folders)
    <2>1. Tail(inventory.queue) \in Seq(Folders)
      BY <1>1, HeadTailProperties
    <2>2. (IF Answer(f).mixed THEN Children(f) ELSE <<>>) \in Seq(Folders)
      BY ChildrenAre, EmptySeq
    <2> QED BY <1>6, <2>1, <2>2, ConcatProperties
  <1>11. inventory' \in InventoryType /\ inventory'.map = map /\ inventory'.covered = covered
         /\ UNCHANGED <<inventory.pc, inventory.parts, inventory.fresh>>
    BY <1>7, <1>8, <1>9, <1>10 DEF MembersTyped, InventoryType
  <1> QED BY <1>4, <1>5, <1>11

(* The other actions on what is collected.                                 *)
LEMMA ListedAre == ASSUME MembersTyped PROVE Listed \in SUBSET PartType /\ \A p \in Listed : NamesDisk(p)
  <1>1. ASSUME NEW d \in PoolDisks
        PROVE  /\ PartOf(d) \in PartType /\ PartOf(d).disk = d
               /\ PathOf(d) \in {"letter", "guid"}
               /\ PartOf(d).missing \/ PartOf(d).path = PathOf(d)
    <2>1. poolDisks[d].here \in BOOLEAN
      BY DEF MembersTyped
    <2> QED BY <2>1 DEF PartOf, PartType, PathOf
  <1>2. ASSUME NEW p \in Listed PROVE \E d \in PoolDisks : p = PartOf(d)
    BY DEF Listed
  <1> QED BY <1>1, <1>2 DEF NamesDisk

LEMMA BeginsIs ==
  ASSUME MembersTyped, CollectBegins
  PROVE  /\ inventory' \in InventoryType /\ inventory'.parts = Listed /\ DOMAIN inventory'.map = {} /\ inventory'.covered = {}
         /\ UNCHANGED <<setLevel, poolDisks, partRows, manualLevel, agentLevel, knownRoots, learned, moved, emptied>>
  <1>1. PICK queue : queue = <<(<<>>)>>
    OBVIOUS
  <1>2. queue \in Seq(Folders)
    <2>1. <<>> \in Folders
      BY PoolAssumption
    <2>2. PICK top \in Folders : top = <<>>
      BY <2>1
    <2>3. <<top>> \in Seq(Folders)
      OBVIOUS
    <2> QED BY <1>1, <2>2, <2>3
  <1>3. inventory' = [NoInventory EXCEPT !.pc = "probe", !.queue = queue, !.parts = Listed]
    BY <1>1 DEF CollectBegins
  <1>4. inventory' \in InventoryType /\ inventory'.parts = Listed /\ inventory'.map = NoInventory.map
        /\ inventory'.covered = NoInventory.covered
    BY <1>2, <1>3, InventoryIs, ListedAre DEF InventoryType
  <1> QED BY <1>4, InventoryIs DEF CollectBegins

LEMMA FailIs ==
  ASSUME MembersTyped, AskFails
  PROVE  /\ inventory' \in InventoryType
         /\ UNCHANGED <<inventory.pc, inventory.parts, inventory.map, inventory.covered, inventory.fresh>>
         /\ UNCHANGED <<setLevel, poolDisks, partRows, manualLevel, agentLevel, knownRoots, learned, moved, emptied>>
  <1>1. PICK queue : queue = Tail(inventory.queue) \o Children(Head(inventory.queue))
    OBVIOUS
  <1>2. queue \in Seq(Folders)
    <2>1. inventory.queue \in Seq(Folders) /\ inventory.queue # <<>>
      BY InventoryIs DEF AskFails
    <2>2. Tail(inventory.queue) \in Seq(Folders)
      BY <2>1, HeadTailProperties
    <2> QED BY <1>1, <2>2, ChildrenAre, ConcatProperties
  <1>3. inventory' = [inventory EXCEPT !.queue = queue]
    BY <1>1 DEF AskFails
  <1> QED BY <1>2, <1>3 DEF MembersTyped, InventoryType, AskFails

LEMMA ProbeEndsIs ==
  ASSUME MembersTyped, ProbeEnds
  PROVE  /\ inventory' \in InventoryType /\ inventory'.pc = "send"
         /\ UNCHANGED <<inventory.parts, inventory.map, inventory.covered, inventory.fresh>>
         /\ UNCHANGED <<setLevel, poolDisks, partRows, manualLevel, agentLevel, knownRoots, learned, moved, emptied>>
  BY DEF ProbeEnds, MembersTyped, InventoryType

LEMMA SetsIs ==
  ASSUME MembersTyped, NEW f \in Folders, NEW level \in CopyLevels, SetsLevel(f, level)
  PROVE  /\ inventory' \in InventoryType /\ inventory'.fresh = (inventory.pc = "off")
         /\ UNCHANGED <<inventory.pc, inventory.parts, inventory.map, inventory.covered>>
         /\ setLevel' \in [Folders -> CopyLevels] /\ setLevel'[<<>>] > 0
         /\ UNCHANGED <<poolDisks, partRows, manualLevel, agentLevel, knownRoots, learned, moved, emptied>>
  <1>1. PICK fresh \in BOOLEAN : fresh = (inventory.pc = "off")
    OBVIOUS
  <1>2. inventory' = [inventory EXCEPT !.fresh = fresh]
    BY <1>1 DEF SetsLevel
  <1>3. inventory' \in InventoryType /\ inventory'.fresh = fresh
        /\ UNCHANGED <<inventory.pc, inventory.parts, inventory.map, inventory.covered>>
    BY <1>2 DEF MembersTyped, InventoryType
  <1>4. setLevel' = [setLevel EXCEPT ![f] = level] /\ (f = <<>> => level > 0)
    BY DEF SetsLevel
  <1>5. setLevel' \in [Folders -> CopyLevels] /\ setLevel'[<<>>] > 0
    BY <1>4, PoolAssumption DEF MembersTyped
  <1> QED BY <1>1, <1>3, <1>5 DEF SetsLevel

LEMMA MembersNextIs ==
  ASSUME NextMembers
  PROVE  \/ CollectBegins \/ Asks \/ AskFails \/ ProbeEnds \/ ReportLost \/ ReportArrives \/ Detects
         \/ \E r \in knownRoots : RemovesRoot(r)
         \/ \E f \in Folders, level \in CopyLevels : WritesRule(f, level)
         \/ \E f \in Folders, level \in CopyLevels : SetsLevel(f, level)
         \/ \E d \in PoolDisks : LetterChanges(d)
         \/ \E d \in PoolDisks : Plugs(d)
         \/ \E d \in PoolDisks : JoinsOrLeaves(d)
  BY DEF NextMembers

(* The rows after a report, and the roots made of rows.                    *)
LEMMA UpsertedIs ==
  ASSUME MembersTyped, NEW d \in PoolDisks
  PROVE  /\ Upserted[d] \in Seq(PartType)
         /\ Upserted[d] = partRows[d] \/ \E p \in inventory.parts : p.disk = d /\ Upserted[d] = <<p>>
  <1> DEFINE new == {p \in inventory.parts : p.disk = d}
  <1>1. Upserted[d] = IF new = {} THEN partRows[d] ELSE <<CHOOSE p \in new : TRUE>>
    BY DEF Upserted
  <1>2. CASE new = {}
    BY <1>1, <1>2 DEF MembersTyped
  <1>3. CASE new # {}
    <2>1. PICK p \in new : p = CHOOSE q \in new : TRUE
      BY <1>3
    <2>2. p \in PartType
      BY <2>1, InventoryIs
    <2>3. Upserted[d] = <<p>>
      BY <1>1, <1>3, <2>1
    <2>4. <<p>> \in Seq(PartType)
      BY <2>2
    <2> QED BY <2>1, <2>3, <2>4
  <1> QED BY <1>2, <1>3

LEMMA DetectedIs ==
  ASSUME NEW rows \in [PoolDisks -> Seq(PartType)],
         \A d \in PoolDisks : rows[d] # <<>> => rows[d][1].disk = d /\ NamesDisk(rows[d][1])
  PROVE  /\ Detected(rows) \subseteq [disk : PoolDisks, path : {"letter", "guid"}] \ knownRoots
         /\ \A r \in Detected(rows) : r.disk \in moved \/ r.path = PathOf(r.disk)
         /\ knownRoots = {} /\ Detected(rows) = {} => \A d \in PoolDisks : rows[d] # <<>> => rows[d][1].missing
  <1> DEFINE found == {e \in PoolDisks : rows[e] # <<>> /\ ~rows[e][1].missing}
             root(d) == [disk |-> d, path |-> rows[d][1].path]
  <1>1. Detected(rows) = {root(d) : d \in found} \ knownRoots
    BY DEF Detected
  <1>2. ASSUME NEW d \in found
        PROVE  /\ root(d).disk = d /\ root(d) \in [disk : PoolDisks, path : {"letter", "guid"}]
               /\ d \in moved \/ root(d).path = PathOf(d)
    BY DEF NamesDisk
  <1> HIDE DEF root, found
  <1>3. knownRoots = {} /\ Detected(rows) = {} => found = {}
    BY <1>1
  <1> QED BY <1>1, <1>2, <1>3 DEF found

-----------------------------------------------------------------------------
LEMMA MembersTypesKept == ASSUME MembersInv, [NextMembers]_memberVars PROVE MembersTyped'
  <1> USE InventoryIs DEF MembersInv
  <1>1. CASE CollectBegins
    BY <1>1, BeginsIs DEF MembersTyped
  <1>2. CASE Asks
    <2>1. inventory' \in InventoryType
      BY <1>2, AsksIs
    <2> QED BY <1>2, <2>1 DEF Asks, MembersTyped
  <1>3. CASE AskFails
    BY <1>3, FailIs DEF MembersTyped
  <1>4. CASE ProbeEnds
    BY <1>4, ProbeEndsIs DEF MembersTyped
  <1>5. CASE ReportLost
    BY <1>5 DEF ReportLost, MembersTyped
  <1>6. CASE ReportArrives
    <2>1. partRows' \in [PoolDisks -> Seq(PartType)] /\ inventory' \in InventoryType
      <3>1. partRows' = Upserted
        BY <1>6 DEF ReportArrives
      <3>2. Upserted = [d \in PoolDisks |-> Upserted[d]]
        BY DEF Upserted
      <3> QED BY <1>6, <3>1, <3>2, UpsertedIs DEF ReportArrives
    <2>2. \A d \in PoolDisks : partRows'[d] # <<>> => partRows'[d][1].disk = d /\ NamesDisk(partRows'[d][1])
      <3> TAKE d \in PoolDisks
      <3>1. partRows'[d] = partRows[d] \/ \E p \in inventory.parts : p.disk = d /\ partRows'[d] = <<p>>
        BY <1>6, UpsertedIs DEF ReportArrives
      <3> QED BY <3>1 DEF RootsHaveParts
    <2>3. knownRoots' \subseteq [disk : PoolDisks, path : {"letter", "guid"}]
      <3>1. PICK rows : rows = partRows'
        OBVIOUS
      <3>2. Detected(rows) \subseteq [disk : PoolDisks, path : {"letter", "guid"}]
        BY <2>1, <2>2, <3>1, DetectedIs
      <3>3. knownRoots' = IF knownRoots = {} THEN Detected(rows) ELSE knownRoots
        BY <1>6, <3>1 DEF ReportArrives
      <3> QED BY <3>2, <3>3 DEF MembersTyped
    <2>4. learned'.levels \in Levels /\ learned'.covered \subseteq Folders
      <3>1. CASE inventory.map = <<>>
        BY <1>6, <3>1 DEF ReportArrives, MembersTyped
      <3>2. CASE inventory.map # <<>>
        <4>1. PICK covered : covered = IF inventory.fresh THEN inventory.covered ELSE {}
          OBVIOUS
        <4>2. learned' = [levels |-> inventory.map, covered |-> covered]
          BY <1>6, <3>2, <4>1 DEF ReportArrives
        <4>3. learned'.levels = inventory.map /\ learned'.covered = covered
          BY <4>2
        <4> QED BY <4>1, <4>3
      <3> QED BY <3>1, <3>2
    <2>5. UNCHANGED <<setLevel, poolDisks, manualLevel>>
      BY <1>6 DEF ReportArrives
    <2> QED BY <2>1, <2>3, <2>4, <2>5 DEF MembersTyped
  <1>7. CASE Detects
    <2>1. Detected(partRows) \subseteq [disk : PoolDisks, path : {"letter", "guid"}]
      BY DetectedIs DEF RootsHaveParts, MembersTyped
    <2> QED BY <1>7, <2>1 DEF Detects, MembersTyped
  <1>8. ASSUME NEW r \in knownRoots, RemovesRoot(r) PROVE MembersTyped'
    BY <1>8 DEF RemovesRoot, MembersTyped
  <1>9. ASSUME NEW f \in Folders, NEW level \in CopyLevels, WritesRule(f, level) PROVE MembersTyped'
    BY <1>9 DEF WritesRule, MembersTyped
  <1>10. ASSUME NEW f \in Folders, NEW level \in CopyLevels, SetsLevel(f, level) PROVE MembersTyped'
    BY <1>10, SetsIs DEF MembersTyped
  <1>11. ASSUME NEW d \in PoolDisks, LetterChanges(d) PROVE MembersTyped'
    BY <1>11 DEF LetterChanges, MembersTyped
  <1>12. ASSUME NEW d \in PoolDisks, Plugs(d) PROVE MembersTyped'
    BY <1>12 DEF Plugs, MembersTyped
  <1>13. ASSUME NEW d \in PoolDisks, JoinsOrLeaves(d) PROVE MembersTyped'
    BY <1>13 DEF JoinsOrLeaves, MembersTyped
  <1>14. CASE UNCHANGED memberVars
    BY <1>14 DEF memberVars, MembersTyped
  <1> QED BY <1>1, <1>2, <1>3, <1>4, <1>5, <1>6, <1>7, <1>8, <1>9, <1>10, <1>11, <1>12, <1>13, <1>14, MembersNextIs

(* The collection keeps to what DrivePool answered.                        *)
LEMMA ProbeIsEmpty == ASSUME DOMAIN inventory'.map = {}, inventory'.covered = {} PROVE ProbeIsTrue'
  BY DEF ProbeIsTrue

LEMMA ProbeIsTheSame ==
  ASSUME ProbeIsTrue, UNCHANGED <<setLevel, inventory.map, inventory.covered, inventory.fresh>>,
         inventory'.pc = "off" => inventory.pc = "off"
  PROVE  ProbeIsTrue'
  <1>1. ASSUME NEW g PROVE LevelOf(g)' = LevelOf(g)
    BY DEF LevelOf
  <1>2. ASSUME NEW g PROVE Uniform(g)' = Uniform(g)
    BY <1>1 DEF Uniform
  <1> QED BY <1>1, <1>2 DEF ProbeIsTrue

LEMMA ProbeKept == ASSUME MembersInv, [NextMembers]_memberVars PROVE ProbeIsTrue'
  <1> USE InventoryIs DEF MembersInv
  <1>1. CASE CollectBegins
    BY <1>1, BeginsIs, ProbeIsEmpty
  <1>2. CASE Asks
    <2>1. PICK f \in Folders :
            /\ inventory'.map = [g \in DOMAIN inventory.map \cup {f} |-> IF g = f THEN LevelOf(f) ELSE inventory.map[g]]
            /\ inventory'.covered = inventory.covered \cup IF Uniform(f) THEN {g \in Folders : f \in Above(g)} ELSE {f}
            /\ UNCHANGED <<inventory.pc, inventory.fresh>>
      BY <1>2, AsksIs
    <2>2. inventory.pc = "probe" /\ setLevel' = setLevel
      BY <1>2 DEF Asks
    <2>3. ASSUME NEW g PROVE LevelOf(g)' = LevelOf(g)
      BY <2>2 DEF LevelOf
    <2>4. ASSUME NEW g PROVE Uniform(g)' = Uniform(g)
      BY <2>3 DEF Uniform
    <2>5. inventory'.fresh => \A g \in DOMAIN inventory'.map : inventory'.map[g] = LevelOf(g)'
      BY <2>1, <2>3 DEF ProbeIsTrue
    <2>6. ASSUME NEW h \in inventory'.covered
          PROVE  \E g \in Above(h) \cap DOMAIN inventory'.map : inventory'.fresh => g = h \/ Uniform(g)'
      <3>1. CASE h \in inventory.covered
        <4>1. PICK g \in Above(h) \cap DOMAIN inventory.map : inventory.fresh => g = h \/ Uniform(g)
          BY <3>1 DEF ProbeIsTrue
        <4>2. g \in DOMAIN inventory'.map
          BY <2>1, <4>1
        <4> QED BY <2>1, <2>4, <4>1, <4>2
      <3>2. CASE h \notin inventory.covered
        <4>1. f \in Above(h) /\ (f = h \/ Uniform(f))
          BY <2>1, <2>6, <3>2, AboveIs
        <4>2. f \in DOMAIN inventory'.map
          BY <2>1
        <4> QED BY <2>4, <4>1, <4>2
      <3> QED BY <3>1, <3>2
    <2> QED BY <2>1, <2>2, <2>5, <2>6 DEF ProbeIsTrue
  <1>3. CASE AskFails
    BY <1>3, FailIs, ProbeIsTheSame
  <1>4. CASE ProbeEnds
    BY <1>4, ProbeEndsIs, ProbeIsTheSame
  <1>5. CASE ReportLost
    BY <1>5, ProbeIsEmpty DEF ReportLost
  <1>6. CASE ReportArrives
    BY <1>6, ProbeIsEmpty DEF ReportArrives
  <1>7. CASE Detects
    BY <1>7, ProbeIsTheSame DEF Detects
  <1>8. ASSUME NEW r \in knownRoots, RemovesRoot(r) PROVE ProbeIsTrue'
    BY <1>8, ProbeIsTheSame DEF RemovesRoot
  <1>9. ASSUME NEW f \in Folders, NEW level \in CopyLevels, WritesRule(f, level) PROVE ProbeIsTrue'
    BY <1>9, ProbeIsTheSame DEF WritesRule
  <1>10. ASSUME NEW f \in Folders, NEW level \in CopyLevels, SetsLevel(f, level) PROVE ProbeIsTrue'
    <2>1. CASE inventory.pc = "off"
      BY <1>10, <2>1, SetsIs, ProbeIsEmpty DEF ProbeIsTrue
    <2>2. CASE inventory.pc # "off"
      <3>1. inventory'.pc # "off" /\ inventory'.fresh = FALSE /\ UNCHANGED <<inventory.map, inventory.covered>>
        BY <1>10, <2>2, SetsIs
      <3>2. \A h \in inventory.covered : \E g \in Above(h) \cap DOMAIN inventory.map : TRUE
        BY DEF ProbeIsTrue
      <3> QED BY <3>1, <3>2 DEF ProbeIsTrue
    <2> QED BY <2>1, <2>2
  <1>11. ASSUME NEW d \in PoolDisks, LetterChanges(d) PROVE ProbeIsTrue'
    BY <1>11, ProbeIsTheSame DEF LetterChanges
  <1>12. ASSUME NEW d \in PoolDisks, Plugs(d) PROVE ProbeIsTrue'
    BY <1>12, ProbeIsTheSame DEF Plugs
  <1>13. ASSUME NEW d \in PoolDisks, JoinsOrLeaves(d) PROVE ProbeIsTrue'
    BY <1>13, ProbeIsTheSame DEF JoinsOrLeaves
  <1>14. CASE UNCHANGED memberVars
    BY <1>14, ProbeIsTheSame DEF memberVars
  <1> QED BY <1>1, <1>2, <1>3, <1>4, <1>5, <1>6, <1>7, <1>8, <1>9, <1>10, <1>11, <1>12, <1>13, <1>14, MembersNextIs

(* The rules in force are those of the last report that had any.           *)
LEMMA RulesKept == ASSUME MembersInv, [NextMembers]_memberVars PROVE RulesAreTold'
  <1> USE DEF MembersInv
  <1>1. CASE ReportArrives /\ inventory.map # <<>>
    <2>1. PICK covered : covered = IF inventory.fresh THEN inventory.covered ELSE {}
      OBVIOUS
    <2>2. learned' = [levels |-> inventory.map, covered |-> covered]
      BY <1>1, <2>1 DEF ReportArrives
    <2>3. learned'.levels = inventory.map /\ learned'.covered = covered
      BY <2>2
    <2>4. agentLevel' = [f \in Changed(inventory.map) |-> inventory.map[f]]
      BY <1>1 DEF ReportArrives
    <2>5. \A f \in covered : Above(f) \cap DOMAIN inventory.map # {}
      BY <2>1 DEF ProbeIsTrue
    <2>6. PICK map : map = inventory.map
      OBVIOUS
    <2>7. agentLevel' = [f \in Changed(learned.levels)' |-> learned'.levels[f]]
      BY <2>3, <2>4, <2>6 DEF Changed, Inherited
    <2> QED BY <2>3, <2>5, <2>7 DEF RulesAreTold
  <1>2. ASSUME UNCHANGED <<agentLevel, learned>> PROVE RulesAreTold'
    BY <1>2 DEF RulesAreTold, Changed, Inherited
  <1>3. ReportArrives /\ inventory.map = <<>> => UNCHANGED <<agentLevel, learned>>
    BY DEF ReportArrives
  <1>4. \/ ReportArrives
        \/ UNCHANGED <<agentLevel, learned>>
    <2>1. CollectBegins \/ Asks => UNCHANGED <<agentLevel, learned>>
      BY DEF CollectBegins, Asks
    <2>2. AskFails \/ ProbeEnds \/ ReportLost \/ Detects => UNCHANGED <<agentLevel, learned>>
      BY DEF AskFails, ProbeEnds, ReportLost, Detects
    <2>3. \A r : RemovesRoot(r) => UNCHANGED <<agentLevel, learned>>
      BY DEF RemovesRoot
    <2>4. \A f, level : WritesRule(f, level) \/ SetsLevel(f, level) => UNCHANGED <<agentLevel, learned>>
      BY DEF WritesRule, SetsLevel
    <2>5. \A d : LetterChanges(d) \/ Plugs(d) \/ JoinsOrLeaves(d) => UNCHANGED <<agentLevel, learned>>
      BY DEF LetterChanges, Plugs, JoinsOrLeaves
    <2>6. UNCHANGED memberVars => UNCHANGED <<agentLevel, learned>>
      BY DEF memberVars
    <2> QED BY <2>1, <2>2, <2>3, <2>4, <2>5, <2>6, MembersNextIs
  <1> QED BY <1>1, <1>2, <1>3, <1>4

(* The roots and the parts keep the paths of their disks.                  *)
LEMMA RootsAreTheSame ==
  ASSUME RootsHaveParts, UNCHANGED <<poolDisks, moved, partRows, knownRoots, emptied>>,
         inventory'.parts = inventory.parts \/ inventory'.parts = {}
  PROVE  RootsHaveParts'
  <1>1. (\A p \in inventory.parts : NamesDisk(p))'
    BY DEF RootsHaveParts, NamesDisk, PathOf
  <1>2. (\A d \in PoolDisks : partRows[d] # <<>> => partRows[d][1].disk = d /\ NamesDisk(partRows[d][1]))'
    BY DEF RootsHaveParts, NamesDisk, PathOf
  <1>3. (\A r \in knownRoots : r.disk \in moved \/ r.path = PathOf(r.disk))'
    BY DEF RootsHaveParts, PathOf
  <1> QED BY <1>1, <1>2, <1>3 DEF RootsHaveParts

LEMMA RootsKept == ASSUME MembersInv, [NextMembers]_memberVars PROVE RootsHaveParts'
  <1> USE InventoryIs DEF MembersInv
  <1>1. CASE CollectBegins
    <2>1. inventory'.parts = Listed /\ UNCHANGED <<poolDisks, moved, partRows, knownRoots, emptied>>
      BY <1>1, BeginsIs
    <2>2. \A p \in Listed : NamesDisk(p)
      BY ListedAre
    <2>3. (\A p \in inventory.parts : NamesDisk(p))'
      BY <2>1, <2>2 DEF NamesDisk, PathOf
    <2>4. (\A d \in PoolDisks : partRows[d] # <<>> => partRows[d][1].disk = d /\ NamesDisk(partRows[d][1]))'
      BY <2>1 DEF RootsHaveParts, NamesDisk, PathOf
    <2>5. (\A r \in knownRoots : r.disk \in moved \/ r.path = PathOf(r.disk))'
      BY <2>1 DEF RootsHaveParts, PathOf
    <2> QED BY <2>1, <2>3, <2>4, <2>5 DEF RootsHaveParts
  <1>2. CASE Asks
    <2>1. inventory'.parts = inventory.parts
      BY <1>2, AsksIs
    <2> QED BY <1>2, <2>1, RootsAreTheSame DEF Asks
  <1>3. CASE AskFails
    BY <1>3, FailIs, RootsAreTheSame
  <1>4. CASE ProbeEnds
    BY <1>4, ProbeEndsIs, RootsAreTheSame
  <1>5. CASE ReportLost
    BY <1>5, RootsAreTheSame DEF ReportLost
  <1>6. CASE ReportArrives
    <2>1. PICK rows : rows = partRows'
      OBVIOUS
    <2>2. UNCHANGED <<poolDisks, moved>> /\ emptied' = FALSE /\ inventory'.parts = {}
      BY <1>6 DEF ReportArrives
    <2>3. rows \in [PoolDisks -> Seq(PartType)]
      <3>1. rows = Upserted
        BY <1>6, <2>1 DEF ReportArrives
      <3>2. Upserted = [d \in PoolDisks |-> Upserted[d]]
        BY DEF Upserted
      <3> QED BY <3>1, <3>2, UpsertedIs
    <2>4. \A d \in PoolDisks : rows[d] # <<>> => rows[d][1].disk = d /\ NamesDisk(rows[d][1])
      <3> TAKE d \in PoolDisks
      <3>1. rows[d] = partRows[d] \/ \E p \in inventory.parts : p.disk = d /\ rows[d] = <<p>>
        BY <1>6, <2>1, UpsertedIs DEF ReportArrives
      <3> QED BY <3>1 DEF RootsHaveParts
    <2>5. knownRoots' = IF knownRoots = {} THEN Detected(rows) ELSE knownRoots
      BY <1>6, <2>1 DEF ReportArrives
    <2>6. /\ \A r \in Detected(rows) : r.disk \in moved \/ r.path = PathOf(r.disk)
          /\ knownRoots = {} /\ Detected(rows) = {} => \A d \in PoolDisks : rows[d] # <<>> => rows[d][1].missing
      BY <2>3, <2>4, DetectedIs
    <2>7. (\A d \in PoolDisks : partRows[d] # <<>> => partRows[d][1].disk = d /\ NamesDisk(partRows[d][1]))'
      BY <2>1, <2>2, <2>4 DEF NamesDisk, PathOf
    <2>8. (\A r \in knownRoots : r.disk \in moved \/ r.path = PathOf(r.disk))'
      BY <2>2, <2>5, <2>6 DEF RootsHaveParts, PathOf
    <2>9. knownRoots' = {} => \A d \in PoolDisks : partRows'[d] # <<>> => partRows'[d][1].missing
      BY <2>1, <2>5, <2>6
    <2>10. (\A p \in inventory.parts : NamesDisk(p))'
      BY <2>2
    <2> QED BY <2>7, <2>8, <2>9, <2>10 DEF RootsHaveParts
  <1>7. CASE Detects
    <2>1. /\ UNCHANGED <<poolDisks, moved, partRows, inventory, emptied>> /\ knownRoots' = knownRoots \cup Detected(partRows)
          /\ Detected(partRows) # {}
      BY <1>7 DEF Detects
    <2>2. \A r \in Detected(partRows) : r.disk \in moved \/ r.path = PathOf(r.disk)
      BY DetectedIs DEF RootsHaveParts, MembersTyped
    <2>3. (\A p \in inventory.parts : NamesDisk(p))'
      BY <2>1 DEF RootsHaveParts, NamesDisk, PathOf
    <2>4. (\A d \in PoolDisks : partRows[d] # <<>> => partRows[d][1].disk = d /\ NamesDisk(partRows[d][1]))'
      BY <2>1 DEF RootsHaveParts, NamesDisk, PathOf
    <2>5. (\A r \in knownRoots : r.disk \in moved \/ r.path = PathOf(r.disk))'
      BY <2>1, <2>2 DEF RootsHaveParts, PathOf
    <2> QED BY <2>1, <2>3, <2>4, <2>5 DEF RootsHaveParts
  <1>8. ASSUME NEW r \in knownRoots, RemovesRoot(r) PROVE RootsHaveParts'
    <2>1. UNCHANGED <<poolDisks, moved, partRows, inventory>> /\ knownRoots' \subseteq knownRoots /\ emptied' = (knownRoots' = {})
      BY <1>8 DEF RemovesRoot
    <2>3. (\A p \in inventory.parts : NamesDisk(p))'
      BY <2>1 DEF RootsHaveParts, NamesDisk, PathOf
    <2>4. (\A d \in PoolDisks : partRows[d] # <<>> => partRows[d][1].disk = d /\ NamesDisk(partRows[d][1]))'
      BY <2>1 DEF RootsHaveParts, NamesDisk, PathOf
    <2>5. (\A q \in knownRoots : q.disk \in moved \/ q.path = PathOf(q.disk))'
      BY <2>1 DEF RootsHaveParts, PathOf
    <2> QED BY <2>1, <2>3, <2>4, <2>5 DEF RootsHaveParts
  <1>9. ASSUME NEW f \in Folders, NEW level \in CopyLevels, WritesRule(f, level) PROVE RootsHaveParts'
    BY <1>9, RootsAreTheSame DEF WritesRule
  <1>10. ASSUME NEW f \in Folders, NEW level \in CopyLevels, SetsLevel(f, level) PROVE RootsHaveParts'
    BY <1>10, SetsIs, RootsAreTheSame
  <1>11. ASSUME NEW d \in PoolDisks,
                poolDisks' \in [PoolDisks -> [letter : BOOLEAN, here : BOOLEAN, member : BOOLEAN]],
                \A e \in PoolDisks : e = d \/ poolDisks'[e] = poolDisks[e],
                d \in moved' \/ poolDisks'[d].letter = poolDisks[d].letter, moved \subseteq moved',
                UNCHANGED <<partRows, inventory, knownRoots, emptied>>
         PROVE  RootsHaveParts'
    <2>1. ASSUME NEW e \in PoolDisks, e \notin moved' PROVE PathOf(e)' = PathOf(e)
      BY <1>11, <2>1 DEF PathOf
    <2>2. \A p \in PartType : NamesDisk(p) => NamesDisk(p)'
      BY <1>11, <2>1 DEF NamesDisk, PartType
    <2>3. (\A p \in inventory.parts : NamesDisk(p))'
      BY <1>11, <2>2 DEF RootsHaveParts
    <2>4. ASSUME NEW e \in PoolDisks, partRows[e] # <<>>
          PROVE  \E p \in PartType : p = partRows[e][1] /\ p.disk = e /\ NamesDisk(p)'
      <3>1. partRows[e][1] \in PartType
        BY <2>4 DEF MembersTyped
      <3> QED BY <2>2, <2>4, <3>1 DEF RootsHaveParts
    <2>5. (\A e \in PoolDisks : partRows[e] # <<>> => partRows[e][1].disk = e /\ NamesDisk(partRows[e][1]))'
      BY <1>11, <2>4 DEF NamesDisk, PathOf
    <2>6. (\A q \in knownRoots : q.disk \in moved \/ q.path = PathOf(q.disk))'
      <3>1. ASSUME NEW q \in knownRoots PROVE q.disk \in moved' \/ q.path = PathOf(q.disk)'
        <4>1. q.disk \in PoolDisks
          BY DEF MembersTyped
        <4> QED BY <1>11, <2>1, <4>1 DEF RootsHaveParts
      <3> QED BY <1>11, <3>1
    <2> QED BY <1>11, <2>3, <2>5, <2>6 DEF RootsHaveParts
  <1>12. ASSUME NEW d \in PoolDisks, LetterChanges(d) PROVE RootsHaveParts'
    BY <1>11, <1>12 DEF LetterChanges, MembersTyped
  <1>13. ASSUME NEW d \in PoolDisks, Plugs(d) PROVE RootsHaveParts'
    BY <1>11, <1>13 DEF Plugs, MembersTyped
  <1>14. ASSUME NEW d \in PoolDisks, JoinsOrLeaves(d) PROVE RootsHaveParts'
    BY <1>11, <1>14 DEF JoinsOrLeaves, MembersTyped
  <1>15. CASE UNCHANGED memberVars
    BY <1>15, RootsAreTheSame DEF memberVars
  <1> QED BY <1>1, <1>2, <1>3, <1>4, <1>5, <1>6, <1>7, <1>8, <1>9, <1>10, <1>12, <1>13, <1>14, <1>15, MembersNextIs

-----------------------------------------------------------------------------
LEMMA MembersBegin == InitMembers => MembersInv
  <1> SUFFICES ASSUME InitMembers PROVE MembersInv
    OBVIOUS
  <1>1. <<>> \in [{} -> Nat \ {0}] /\ <<>> \in Seq(Folders) /\ <<>> \in Seq(PartType)
    BY EmptySeq
  <1>2. <<>> \in Levels /\ DOMAIN NothingLearned.levels = {} /\ NothingLearned.covered = {} /\ NothingLearned.levels \in Levels
    BY <1>1 DEF Levels, NothingLearned
  <1>3. NoInventory \in InventoryType /\ NoInventory.parts = {} /\ DOMAIN NoInventory.map = {} /\ NoInventory.covered = {}
    BY <1>1, <1>2 DEF NoInventory, InventoryType
  <1>4. poolDisks \in [PoolDisks -> [letter : BOOLEAN, here : BOOLEAN, member : BOOLEAN]]
    <2>1. PICK disks : disks = {[letter |-> l, here |-> TRUE, member |-> TRUE] : l \in BOOLEAN}
      OBVIOUS
    <2>2. ASSUME NEW x \in disks PROVE x \in [letter : BOOLEAN, here : BOOLEAN, member : BOOLEAN]
      <3>1. PICK l \in BOOLEAN : x = [letter |-> l, here |-> TRUE, member |-> TRUE]
        BY <2>1, <2>2, Zenon
      <3> QED BY <3>1
    <2>3. poolDisks \in [PoolDisks -> disks]
      BY <2>1 DEF InitMembers
    <2> QED BY <2>2, <2>3
  <1>5. MembersTyped
    <2>1. setLevel \in [Folders -> CopyLevels] /\ setLevel[<<>>] > 0
      BY PoolAssumption DEF InitMembers
    <2>2. manualLevel \in [Folders -> CopyLevels]
      BY PoolAssumption DEF InitMembers
    <2> QED BY <1>1, <1>2, <1>3, <1>4, <2>1, <2>2 DEF InitMembers, MembersTyped
  <1>6. ProbeIsTrue
    BY <1>3 DEF InitMembers, ProbeIsTrue
  <1>7. RulesAreTold
    <2>1. Changed(learned.levels) = {}
      BY <1>2 DEF InitMembers, Changed
    <2>2. agentLevel = [f \in {} |-> learned.levels[f]]
      BY DEF InitMembers
    <2> QED BY <1>2, <2>1, <2>2 DEF InitMembers, RulesAreTold
  <1>8. RootsHaveParts
    BY <1>3 DEF InitMembers, RootsHaveParts
  <1> QED BY <1>5, <1>6, <1>7, <1>8 DEF MembersInv

(* What holds at every step says that the pool is known.                   *)
LEMMA NearestHasTheLevel ==
  ASSUME MembersInv, inventory.fresh, NEW f \in inventory.covered
  PROVE  inventory.map[Deepest(Above(f) \cap DOMAIN inventory.map)] = LevelOf(f)
  <1> DEFINE read == Above(f) \cap DOMAIN inventory.map
  <1>1. f \in Folders /\ DOMAIN inventory.map \in SUBSET Folders
    BY InventoryIs, LevelsAre DEF MembersInv
  <1>2. PICK g \in read : g = f \/ Uniform(g)
    BY DEF MembersInv, ProbeIsTrue
  <1>3. PICK d : d = Deepest(read) /\ d \in read /\ \A h \in read : Len(h) <= Len(d)
    <2>1. read \in SUBSET Above(f) /\ read # {}
      BY <1>2
    <2> HIDE DEF read
    <2> QED BY <1>1, <2>1, DeepestIs
  <1>4. inventory.map[d] = LevelOf(d)
    BY <1>3 DEF MembersInv, ProbeIsTrue
  <1>5. CASE g = f
    <2>1. \A h \in read : Len(h) <= Len(f)
      BY <1>1, AboveIs
    <2>2. read \in SUBSET Above(f) /\ f \in read
      BY <1>2, <1>5
    <2>3. Deepest(read) = f
      <3> HIDE DEF read
      <3> QED BY <1>1, <2>1, <2>2, DeepestIsThe
    <2> QED BY <1>3, <1>4, <2>3
  <1>6. CASE Uniform(g)
    <2>1. d \in Folders /\ g \in Above(d) /\ g \in Above(f)
      <3>1. d \in Above(f) /\ g \in Above(f) /\ Len(g) <= Len(d)
        BY <1>2, <1>3
      <3>2. d \in Folders
        BY <1>1, <3>1, AboveIs
      <3> QED BY <1>1, <3>1, <3>2, AboveIs
    <2>2. LevelOf(d) = LevelOf(g) /\ LevelOf(f) = LevelOf(g)
      BY <1>1, <1>6, <2>1 DEF Uniform
    <2> QED BY <1>3, <1>4, <2>2
  <1> QED BY <1>2, <1>5, <1>6

LEMMA OneRootEach ==
  ASSUME MembersInv, NEW d \in PoolDisks \ moved
  PROVE  Cardinality({r \in knownRoots : r.disk = d}) <= 1
  <1> DEFINE its == {r \in knownRoots : r.disk = d}
             the == [disk |-> d, path |-> PathOf(d)]
  <1>1. its \subseteq {the}
    <2>1. ASSUME NEW r \in its PROVE r = the
      <3>1. r \in [disk : PoolDisks, path : {"letter", "guid"}]
        BY DEF MembersInv, MembersTyped
      <3>2. r.disk = d /\ r.path = PathOf(d)
        BY DEF MembersInv, RootsHaveParts
      <3> QED BY <3>1, <3>2
    <2> QED BY <2>1
  <1> HIDE DEF its, the
  <1>2. IsFiniteSet({the}) /\ Cardinality({the}) = 1
    BY FS_Singleton
  <1>3. Cardinality(its) <= 1
    BY <1>1, <1>2, FS_Subset
  <1> QED BY <1>3 DEF its

LEMMA KnownFollows == MembersInv => PoolIsKnown
  <1> SUFFICES ASSUME MembersInv PROVE PoolIsKnown
    OBVIOUS
  <1>1. ASSUME NEW f \in learned.covered PROVE ResolvedLevel(f) = Ought(f)
    <2>1. PICK map : map = learned.levels
      OBVIOUS
    <2>2. map \in Levels /\ f \in Folders
      BY <2>1 DEF MembersInv, MembersTyped
    <2>3. \A g \in DOMAIN map : map[g] # 0
      BY <2>2, LevelsAre
    <2>4. agentLevel = [g \in Changed(map) |-> map[g]] /\ Above(f) \cap DOMAIN map # {}
      BY <2>1 DEF MembersInv, RulesAreTold
    <2> QED BY <2>1, <2>2, <2>3, <2>4, RuleResolves
  <1>2. \A r \in knownRoots : r.path # "device"
    BY DEF MembersInv, MembersTyped
  <1>3. knownRoots = {} /\ ~emptied => \A d \in PoolDisks : partRows[d] # <<>> => partRows[d][1].missing
    BY DEF MembersInv, RootsHaveParts
  <1>4. inventory.fresh => \A f \in inventory.covered : inventory.map[Deepest(Above(f) \cap DOMAIN inventory.map)] = LevelOf(f)
    BY NearestHasTheLevel
  <1> QED BY <1>1, <1>2, <1>3, <1>4, OneRootEach DEF PoolIsKnown

LEMMA MembersTypeFollows == MembersInv => MembersTypeOK
  <1> SUFFICES ASSUME MembersInv PROVE MembersTypeOK
    OBVIOUS
  <1>1. DOMAIN agentLevel \subseteq Folders
    <2>1. learned.levels \in Levels
      BY DEF MembersInv, MembersTyped
    <2>2. DOMAIN learned.levels \in SUBSET Folders
      BY <2>1, LevelsAre
    <2>3. DOMAIN agentLevel = Changed(learned.levels)
      BY DEF MembersInv, RulesAreTold
    <2> QED BY <2>2, <2>3 DEF Changed
  <1> QED BY <1>1, InventoryIs DEF MembersInv, MembersTyped, MembersTypeOK

(* Every behaviour of the pool and of what the server knows of it keeps to *)
(* what was probed: the rules in force are those of the last report that   *)
(* had any, with no folder of it beyond them (Select-ChangedDuplication-   *)
(* Rules and upsertPools()), and a root has the path of its disk.          *)
THEOREM PoolHolds == MembersSpec => []MembersInv
  <1>1. MembersInv /\ [NextMembers]_memberVars => MembersInv'
    <2> SUFFICES ASSUME MembersInv, [NextMembers]_memberVars PROVE MembersInv'
      OBVIOUS
    <2> QED BY MembersTypesKept, ProbeKept, RulesKept, RootsKept DEF MembersInv
  <1> QED BY <1>1, MembersBegin, PTL DEF MembersSpec

(* The tables and the inventory keep their types, whatever the pool is.    *)
THEOREM MembersTypeCorrect == MembersSpec => []MembersTypeOK
  BY PoolHolds, MembersTypeFollows, PTL

(* Whatever the folders, their levels and the depth of the probe: every    *)
(* folder the probe reached resolves to the copies it ought to have, and a *)
(* disk whose path is still the same has one root of the catalog.          *)
THEOREM PoolIsAlwaysKnown == MembersSpec => []PoolIsKnown
  BY PoolHolds, KnownFollows, PTL

-----------------------------------------------------------------------------
(* The clock: a minute of the week is one of its hours and a minute of it. *)

LEMMA DividedIs ==
  ASSUME NEW a \in Nat, NEW b \in Nat \ {0}
  PROVE  a = b * (a \div b) + (a % b) /\ a % b \in 0..(b - 1) /\ a \div b \in Nat
  OBVIOUS

LEMMA DividedOnce ==
  ASSUME NEW b \in Nat \ {0}, NEW q \in Nat, NEW r \in 0..(b - 1), NEW p \in Nat, NEW s \in 0..(b - 1), b * q + r = b * p + s
  PROVE  p = q /\ r = s
  <1>1. CASE p < q
    <2>1. PICK d \in Nat \ {0} : q = p + d
      BY <1>1
    <2>2. b * q = b * p + b * d
      BY <2>1
    <2>3. b * d >= b
      BY <2>1
    <2> QED BY <2>2, <2>3
  <1>2. CASE q < p
    <2>1. PICK d \in Nat \ {0} : p = q + d
      BY <1>2
    <2>2. b * p = b * q + b * d
      BY <2>1
    <2>3. b * d >= b
      BY <2>1
    <2> QED BY <2>2, <2>3
  <1> QED BY <1>1, <1>2

LEMMA QuotientIs ==
  ASSUME NEW b \in Nat \ {0}, NEW q \in Nat, NEW r \in 0..(b - 1)
  PROVE  (b * q + r) \div b = q /\ (b * q + r) % b = r
  <1>1. PICK a \in Nat : a = b * q + r
    <2>1. b * q \in Nat
      OBVIOUS
    <2> QED BY <2>1
  <1>2. a = b * (a \div b) + (a % b) /\ a % b \in 0..(b - 1) /\ a \div b \in Nat
    BY DividedIs
  <1>3. a \div b = q /\ a % b = r
    BY <1>1, <1>2, DividedOnce
  <1> QED BY <1>1, <1>3

LEMMA Distributed ==
  ASSUME NEW a \in Nat, NEW b \in Nat, NEW d \in Nat, NEW h \in Nat
  PROVE  b * (a * d + h) = (a * b) * d + b * h /\ a * (b * d + h) = (a * b) * d + a * h
  OBVIOUS

LEMMA RemainderIs ==
  ASSUME NEW b \in Nat \ {0}, NEW n \in Nat
  PROVE  (n < b => n % b = n) /\ (b + n) % b = n % b
  <1>1. PICK q \in Nat, r \in 0..(b - 1) : n = b * q + r
    BY DividedIs
  <1>2. (b * q + r) % b = r /\ (b * (q + 1) + r) % b = r
    <2>1. q + 1 \in Nat
      OBVIOUS
    <2> QED BY <2>1, QuotientIs
  <1>3. b + n = b * (q + 1) + r
    BY <1>1
  <1>4. n < b => n % b = n
    <2>1. n < b => (b * 0 + n) % b = n
      BY QuotientIs
    <2> QED BY <2>1
  <1> QED BY <1>1, <1>2, <1>3, <1>4

LEMMA SumIsBelow ==
  ASSUME NEW b \in Nat \ {0}, NEW n \in Nat, NEW q \in 0..(n - 1), NEW r \in 0..(b - 1)
  PROVE  b * q + r \in 0..(b * n - 1)
  <1>1. PICK x \in Nat : n = q + 1 + x
    OBVIOUS
  <1>2. b * n = b * q + b + b * x
    BY <1>1
  <1>3. PICK y \in Nat, z \in Nat : y = b * q /\ z = b * x
    BY <1>1
  <1> QED BY <1>2, <1>3

(* A quotient of a number below a product is below the other factor.       *)
LEMMA QuotientIsBelow ==
  ASSUME NEW b \in Nat \ {0}, NEW n \in Nat, NEW a \in 0..(b * n - 1)
  PROVE  a \div b \in 0..(n - 1)
  <1>1. PICK q \in Nat, r \in 0..(b - 1) : q = a \div b /\ a = b * q + r
    BY DividedIs
  <1>2. q < n
    <2> SUFFICES ASSUME q >= n PROVE FALSE
      BY <1>1
    <2>1. PICK d \in Nat : q = n + d
      OBVIOUS
    <2>2. b * q = b * n + b * d /\ b * d \in Nat
      BY <2>1
    <2> QED BY <1>1, <2>2
  <1> QED BY <1>1, <1>2

-----------------------------------------------------------------------------
(* The hours of the week, from the first to the last.                      *)

HourOfWeek(clock) == clock \div MinutesPerHour
Cell(k) == <<k \div HoursPerDay, k % HoursPerDay>>
Ith(clock, n) == Cell((HourOfWeek(clock) + n) % HoursPerWeek)
Minutes == 0..(MinutesPerWeek - 1)

LEMMA WeekIs ==
  /\ DaysPerWeek \in Nat \ {0} /\ HoursPerDay \in Nat \ {0} /\ MinutesPerHour \in Nat \ {0}
  /\ HoursPerWeek \in Nat \ {0} /\ MinutesPerWeek \in Nat \ {0}
  /\ HoursPerWeek = HoursPerDay * DaysPerWeek /\ MinutesPerWeek = MinutesPerHour * HoursPerWeek
  <1>1. /\ DaysPerWeek \in Nat \ {0} /\ HoursPerDay \in Nat \ {0} /\ MinutesPerHour \in Nat \ {0}
    BY ScheduleAssumption
  <1>2. HoursPerWeek = HoursPerDay * DaysPerWeek /\ HoursPerWeek \in Nat \ {0}
    BY <1>1 DEF HoursPerWeek
  <1>3. MinutesPerWeek = MinutesPerHour * HoursPerWeek /\ MinutesPerWeek \in Nat \ {0}
    BY <1>1, <1>2 DEF MinutesPerWeek
  <1> QED BY <1>1, <1>2, <1>3

LEMMA CellIs ==
  ASSUME NEW k \in 0..(HoursPerWeek - 1)
  PROVE  Cell(k) \in WeekHours
  <1>1. k \div HoursPerDay \in Days
    BY WeekIs, QuotientIsBelow DEF Days
  <1>2. k % HoursPerDay \in HoursOfDay
    BY WeekIs, DividedIs DEF HoursOfDay
  <1> QED BY <1>1, <1>2 DEF Cell, WeekHours

LEMMA EveryCell == ASSUME NEW c \in WeekHours PROVE \E k \in 0..(HoursPerWeek - 1) : c = Cell(k)
  <1>1. PICK d \in Days, h \in HoursOfDay : c = <<d, h>>
    BY DEF WeekHours
  <1>2. d \in Nat /\ d <= DaysPerWeek - 1 /\ h \in 0..(HoursPerDay - 1)
    BY <1>1, WeekIs DEF Days, HoursOfDay
  <1>3. PICK k : k = HoursPerDay * d + h
    OBVIOUS
  <1>4. k \div HoursPerDay = d /\ k % HoursPerDay = h
    BY <1>2, <1>3, WeekIs, QuotientIs
  <1>5. k \in 0..(HoursPerWeek - 1)
    BY <1>2, <1>3, WeekIs, SumIsBelow
  <1> QED BY <1>1, <1>4, <1>5 DEF Cell

LEMMA ClockIs ==
  ASSUME NEW clock \in Minutes
  PROVE  /\ HourOfWeek(clock) \in 0..(HoursPerWeek - 1) /\ MinuteAt(clock) \in 0..(MinutesPerHour - 1)
         /\ clock = MinutesPerHour * HourOfWeek(clock) + MinuteAt(clock)
         /\ <<DayAt(clock), HourAt(clock)>> = Cell(HourOfWeek(clock))
         /\ RestOfHour(clock) = MinutesPerHour - MinuteAt(clock) /\ RestOfHour(clock) \in 1..MinutesPerHour
  <1>1. clock \in Nat /\ clock \in 0..(MinutesPerHour * HoursPerWeek - 1)
    BY WeekIs DEF Minutes
  <1>2. HourOfWeek(clock) \in 0..(HoursPerWeek - 1)
    BY <1>1, WeekIs, QuotientIsBelow DEF HourOfWeek
  <1>3. MinuteAt(clock) \in 0..(MinutesPerHour - 1) /\ clock = MinutesPerHour * HourOfWeek(clock) + MinuteAt(clock)
    BY <1>1, WeekIs, DividedIs DEF HourOfWeek, MinuteAt
  <1>4. DayAt(clock) = HourOfWeek(clock) \div HoursPerDay
    <2>1. PICK k \in Nat, m \in 0..(MinutesPerHour - 1) : k = HourOfWeek(clock) /\ m = MinuteAt(clock)
      BY <1>2, <1>3
    <2>2. PICK d \in Nat, h \in 0..(HoursPerDay - 1) : k = HoursPerDay * d + h /\ d = k \div HoursPerDay
      BY DividedIs, WeekIs
    <2>3. PICK r : r = MinutesPerHour * h + m
      OBVIOUS
    <2>4. clock = (HoursPerDay * MinutesPerHour) * d + r
      <3>1. clock = MinutesPerHour * (HoursPerDay * d + h) + m
        BY <1>3, <2>1, <2>2
      <3>2. MinutesPerHour * (HoursPerDay * d + h) = (HoursPerDay * MinutesPerHour) * d + MinutesPerHour * h
        <4>1. d \in Nat /\ h \in Nat /\ HoursPerDay \in Nat /\ MinutesPerHour \in Nat
          BY <2>2, WeekIs
        <4> QED BY <4>1, Distributed
      <3>3. PICK x, y : x = MinutesPerHour * h /\ y = (HoursPerDay * MinutesPerHour) * d /\ x \in Nat /\ y \in Nat
        BY <2>2, WeekIs
      <3> QED BY <2>1, <2>3, <3>1, <3>2, <3>3
    <2>5. r \in 0..(HoursPerDay * MinutesPerHour - 1)
      <3>1. MinutesPerHour * h + m \in 0..(MinutesPerHour * HoursPerDay - 1)
        BY <2>1, <2>2, WeekIs, SumIsBelow
      <3> QED BY <2>3, <3>1, WeekIs
    <2>6. HoursPerDay * MinutesPerHour \in Nat \ {0}
      BY WeekIs
    <2>7. clock \div (HoursPerDay * MinutesPerHour) = d
      BY <2>2, <2>4, <2>5, <2>6, QuotientIs, ZenonT(40)
    <2> QED BY <2>1, <2>2, <2>7 DEF DayAt
  <1>5. HourAt(clock) = HourOfWeek(clock) % HoursPerDay
    BY DEF HourAt, HourOfWeek
  <1>6. RestOfHour(clock) = MinutesPerHour - MinuteAt(clock) /\ RestOfHour(clock) \in 1..MinutesPerHour
    BY <1>3, WeekIs DEF RestOfHour
  <1> QED BY <1>2, <1>3, <1>4, <1>5, <1>6 DEF Cell

(* The cursor of the loops runs through the hours of the week in order.    *)
LEMMA LaterIs ==
  ASSUME NEW clock \in Minutes, NEW n \in Nat
  PROVE  Later(DayAt(clock), HourAt(clock), n) = Ith(clock, n)
  <1>1. PICK k \in 0..(HoursPerWeek - 1) : k = HourOfWeek(clock)
    BY ClockIs
  <1>2. PICK d \in Nat, h \in 0..(HoursPerDay - 1) :
          d = DayAt(clock) /\ h = HourAt(clock) /\ k = HoursPerDay * d + h
    <2>1. DayAt(clock) = k \div HoursPerDay /\ HourAt(clock) = k % HoursPerDay
      <3>1. <<DayAt(clock), HourAt(clock)>> = <<k \div HoursPerDay, k % HoursPerDay>>
        BY <1>1, ClockIs DEF Cell
      <3> QED BY <3>1
    <2>2. k \in Nat /\ HoursPerDay \in Nat \ {0}
      BY WeekIs
    <2>3. k = HoursPerDay * (k \div HoursPerDay) + (k % HoursPerDay) /\ k % HoursPerDay \in 0..(HoursPerDay - 1) /\ k \div HoursPerDay \in Nat
      BY <2>2, DividedIs
    <2> QED BY <2>1, <2>3
  <1>3. PICK e \in Nat, j \in 0..(HoursPerDay - 1) :
          h + n = HoursPerDay * e + j /\ (h + n) \div HoursPerDay = e /\ (h + n) % HoursPerDay = j
    <2>1. h + n \in Nat
      BY WeekIs
    <2> QED BY <2>1, WeekIs, DividedIs
  <1>4. PICK w \in Nat, c \in 0..(DaysPerWeek - 1) : d + e = DaysPerWeek * w + c /\ (d + e) % DaysPerWeek = c
    <2>1. d + e \in Nat
      OBVIOUS
    <2> QED BY <2>1, WeekIs, DividedIs
  <1>5. PICK r : r = HoursPerDay * c + j
    OBVIOUS
  <1>6. k + n = HoursPerWeek * w + r
    <2>1. k + n = HoursPerDay * d + HoursPerDay * e + j
      BY <1>2, <1>3, WeekIs
    <2>2. HoursPerDay * d + HoursPerDay * e = HoursPerDay * (d + e)
      BY WeekIs
    <2>3. HoursPerDay * (DaysPerWeek * w + c) = HoursPerWeek * w + HoursPerDay * c
      BY <1>4, WeekIs, Distributed
    <2>4. HoursPerDay * (d + e) = HoursPerWeek * w + HoursPerDay * c
      BY <1>4, <2>3
    <2> QED BY <1>3, <1>5, <2>1, <2>2, <2>4, WeekIs
  <1>7. r \in 0..(HoursPerWeek - 1)
    BY <1>3, <1>4, <1>5, WeekIs, SumIsBelow
  <1>8. (k + n) % HoursPerWeek = r
    <2>1. (HoursPerWeek * w + r) % HoursPerWeek = r
      BY <1>4, <1>7, WeekIs, QuotientIs
    <2> QED BY <1>6, <2>1
  <1>9. r \div HoursPerDay = c /\ r % HoursPerDay = j
    BY <1>3, <1>4, <1>5, WeekIs, QuotientIs
  <1> QED BY <1>1, <1>2, <1>3, <1>4, <1>8, <1>9 DEF Later, Ith, Cell

-----------------------------------------------------------------------------
(* The window.                                                             *)

LEMMA AllowedIs ==
  ASSUME NEW hours, NEW clock \in Minutes
  PROVE  IsAllowedAt(hours, clock) <=> Ith(clock, 0) \in hours
  <1>1. PICK k \in 0..(HoursPerWeek - 1) : k = HourOfWeek(clock) /\ <<DayAt(clock), HourAt(clock)>> = Cell(k)
    BY ClockIs
  <1>3. k % HoursPerWeek = k /\ k + 0 = k
    BY WeekIs, RemainderIs
  <1> QED BY <1>1, <1>3 DEF IsAllowedAt, IsHourEnabled, Ith

(* Every hour of the week comes within a week.                             *)
LEMMA WeekComes ==
  ASSUME NEW clock \in Minutes, NEW c \in WeekHours
  PROVE  \E n \in 0..(HoursPerWeek - 1) : c = Ith(clock, n)
  <1>1. PICK k \in 0..(HoursPerWeek - 1) : k = HourOfWeek(clock)
    BY ClockIs
  <1>2. PICK l \in 0..(HoursPerWeek - 1) : c = Cell(l)
    BY EveryCell
  <1>3. CASE k <= l
    <2>1. PICK n \in 0..(HoursPerWeek - 1) : k + n = l
      BY <1>3, WeekIs
    <2>3. l % HoursPerWeek = l
      BY WeekIs, RemainderIs
    <2> QED BY <1>1, <1>2, <2>1, <2>3 DEF Ith
  <1>4. CASE l < k
    <2>1. PICK n \in 0..(HoursPerWeek - 1) : k + n = HoursPerWeek + l
      BY <1>4, WeekIs
    <2>3. (k + n) % HoursPerWeek = l
      BY <2>1, WeekIs, RemainderIs
    <2> QED BY <1>1, <1>2, <2>3 DEF Ith
  <1> QED BY <1>3, <1>4, WeekIs

LEMMA WeekTurns == ASSUME NEW clock \in Minutes PROVE Ith(clock, HoursPerWeek) = Ith(clock, 0)
  <1>1. PICK k \in 0..(HoursPerWeek - 1) : k = HourOfWeek(clock)
    BY ClockIs
  <1>2. (HoursPerWeek + k) % HoursPerWeek = k % HoursPerWeek /\ k + 0 = k /\ k + HoursPerWeek = HoursPerWeek + k
    <2>1. k \in Nat /\ HoursPerWeek \in Nat \ {0}
      BY WeekIs
    <2>2. (HoursPerWeek + k) % HoursPerWeek = k % HoursPerWeek
      BY <2>1, RemainderIs
    <2> QED BY <2>1, <2>2
  <1>3. (k + 0) % HoursPerWeek = (k + HoursPerWeek) % HoursPerWeek
    BY <1>2
  <1> QED BY <1>1, <1>3 DEF Ith

(* A minute on, it is the same hour or the next one.                       *)
LEMMA MinuteOn ==
  ASSUME NEW clock \in Minutes, NEW next, next = (clock + 1) % MinutesPerWeek
  PROVE  /\ next \in Minutes
         /\ \/ /\ RestOfHour(clock) > 1 /\ RestOfHour(next) = RestOfHour(clock) - 1
               /\ \A n \in Nat : Ith(next, n) = Ith(clock, n)
            \/ /\ RestOfHour(clock) = 1 /\ RestOfHour(next) = MinutesPerHour
               /\ \A n \in Nat : Ith(next, n) = Ith(clock, n + 1)
  <1>1. PICK k \in 0..(HoursPerWeek - 1), m \in 0..(MinutesPerHour - 1) :
          k = HourOfWeek(clock) /\ m = MinuteAt(clock) /\ clock = MinutesPerHour * k + m
    BY ClockIs
  <1>2. next \in Minutes
    <2>1. clock + 1 \in Nat
      BY WeekIs DEF Minutes
    <2> QED BY <2>1, WeekIs, DividedIs DEF Minutes
  <1>3. RestOfHour(clock) = MinutesPerHour - m /\ RestOfHour(next) = MinutesPerHour - MinuteAt(next)
    BY <1>1, <1>2, ClockIs
  <1>4. ASSUME NEW l \in 0..(HoursPerWeek - 1), NEW r \in 0..(MinutesPerHour - 1), next = MinutesPerHour * l + r
        PROVE  HourOfWeek(next) = l /\ MinuteAt(next) = r
    <2>1. (MinutesPerHour * l + r) \div MinutesPerHour = l /\ (MinutesPerHour * l + r) % MinutesPerHour = r
      BY WeekIs, QuotientIs
    <2> QED BY <1>4, <2>1 DEF HourOfWeek, MinuteAt
  <1>5. \A x \in 0..(MinutesPerWeek - 1) : x % MinutesPerWeek = x
    <2> TAKE x \in 0..(MinutesPerWeek - 1)
    <2>1. x \in Nat /\ x < MinutesPerWeek /\ MinutesPerWeek \in Nat \ {0}
      BY WeekIs
    <2> QED BY <2>1, RemainderIs
  <1>6. CASE m + 1 < MinutesPerHour
    <2>1. clock + 1 = MinutesPerHour * k + (m + 1) /\ clock + 1 \in 0..(MinutesPerWeek - 1)
      <3>1. m + 1 \in 0..(MinutesPerHour - 1) /\ k \in Nat
        BY <1>6, WeekIs
      <3>2. MinutesPerHour * k + (m + 1) \in 0..(MinutesPerWeek - 1)
        BY <3>1, WeekIs, SumIsBelow
      <3>3. PICK x \in Nat : x = MinutesPerHour * k
        BY <3>1, WeekIs
      <3> QED BY <1>1, <3>2, <3>3
    <2>2. next = MinutesPerHour * k + (m + 1) /\ m + 1 \in 0..(MinutesPerHour - 1)
      BY <1>5, <1>6, <2>1, WeekIs
    <2>3. HourOfWeek(next) = k /\ MinuteAt(next) = m + 1
      BY <1>4, <2>2
    <2>4. \A n \in Nat : Ith(next, n) = Ith(clock, n)
      BY <1>1, <2>3 DEF Ith
    <2> QED BY <1>2, <1>3, <1>6, <2>3, <2>4, WeekIs
  <1>7. CASE m + 1 = MinutesPerHour
    <2>1. clock + 1 = MinutesPerHour * (k + 1)
      BY <1>1, <1>7, WeekIs
    <2>2. PICK l \in 0..(HoursPerWeek - 1) :
            (\A n \in Nat : (l + n) % HoursPerWeek = (k + 1 + n) % HoursPerWeek) /\ next = MinutesPerHour * l
      <3>1. CASE k + 1 < HoursPerWeek
        <4>1. k + 1 \in 0..(HoursPerWeek - 1)
          BY <3>1, WeekIs
        <4>2. clock + 1 \in 0..(MinutesPerWeek - 1)
          <5>1. PICK x \in Nat \ {0} : HoursPerWeek = k + 1 + x
            BY <3>1, WeekIs
          <5>2. MinutesPerWeek = MinutesPerHour * (k + 1) + MinutesPerHour * x /\ MinutesPerHour * x \in Nat \ {0}
            BY <5>1, WeekIs
          <5> QED BY <2>1, <5>2, WeekIs DEF Minutes
        <4> QED BY <1>5, <2>1, <4>1, <4>2
      <3>2. CASE k + 1 = HoursPerWeek
        <4>1. clock + 1 = MinutesPerWeek + 0
          BY <2>1, <3>2, WeekIs
        <4>2. next = 0
          <5>1. (MinutesPerWeek + 0) % MinutesPerWeek = 0
            BY WeekIs, RemainderIs
          <5> QED BY <4>1, <5>1
        <4>3. ASSUME NEW n \in Nat PROVE (0 + n) % HoursPerWeek = (k + 1 + n) % HoursPerWeek
          <5>1. (HoursPerWeek + n) % HoursPerWeek = n % HoursPerWeek
            BY WeekIs, RemainderIs
          <5> QED BY <3>2, <5>1
        <4>4. MinutesPerHour * 0 = 0 /\ 0 \in 0..(HoursPerWeek - 1)
          BY WeekIs
        <4> QED BY <4>2, <4>3, <4>4
      <3> QED BY <3>1, <3>2, WeekIs
    <2>3. next = MinutesPerHour * l + 0 /\ 0 \in 0..(MinutesPerHour - 1)
      BY <2>2, WeekIs
    <2>4. HourOfWeek(next) = l /\ MinuteAt(next) = 0
      BY <1>4, <2>3
    <2>5. \A n \in Nat : Ith(next, n) = Ith(clock, n + 1)
      <3> TAKE n \in Nat
      <3>1. (l + n) % HoursPerWeek = (k + (n + 1)) % HoursPerWeek
        <4>1. k + 1 + n = k + (n + 1)
          BY WeekIs
        <4> QED BY <2>2, <4>1
      <3> QED BY <1>1, <2>4, <3>1 DEF Ith
    <2> QED BY <1>2, <1>3, <1>7, <2>4, <2>5, WeekIs
  <1> QED BY <1>6, <1>7, WeekIs

(* The soonest of some hours.                                              *)
LEMMA SoonestIs ==
  ASSUME NEW ns \in SUBSET Nat, ns # {}
  PROVE  Soonest(ns) \in ns /\ \A n \in ns : Soonest(ns) <= n
  <1>1. PICK n \in ns : \A m \in ns : n <= m
    BY LeastIs
  <1> QED BY <1>1 DEF Soonest

LEMMA AheadIs ==
  ASSUME NEW hours, NEW clock \in Minutes
  PROVE  /\ Ahead(hours, clock, TRUE) = {n \in 1..(HoursPerWeek - 1) : Ith(clock, n) \in hours}
         /\ Ahead(hours, clock, FALSE) = {n \in 1..(HoursPerWeek - 1) : Ith(clock, n) \notin hours}
         /\ Ahead(hours, clock, TRUE) \in SUBSET Nat /\ Ahead(hours, clock, FALSE) \in SUBSET Nat
  <1>1. PICK hs \in SUBSET Nat : hs = 1..(HoursPerWeek - 1)
    BY WeekIs
  <1>2. \A n \in hs : Later(DayAt(clock), HourAt(clock), n) = Ith(clock, n)
    BY LaterIs
  <1>3. \A enabled : Ahead(hours, clock, enabled) = {n \in hs : Later(DayAt(clock), HourAt(clock), n) \in hours <=> enabled}
    BY <1>1 DEF Ahead
  <1>4. ASSUME NEW n PROVE n \in Ahead(hours, clock, TRUE) <=> n \in hs /\ Ith(clock, n) \in hours
    BY <1>2, <1>3
  <1>5. ASSUME NEW n PROVE n \in Ahead(hours, clock, FALSE) <=> n \in hs /\ Ith(clock, n) \notin hours
    BY <1>2, <1>3
  <1> QED BY <1>1, <1>4, <1>5

(* What is said of the window: in so many minutes its last hour ends, and  *)
(* the hour after it is another, unless none is.                           *)
TurnsIn(hours, clock, open, left) ==
  \E n \in 1..HoursPerWeek :
    /\ left = RestOfHour(clock) + MinutesPerHour * (n - 1)
    /\ \A j \in 0..(n - 1) : (Ith(clock, j) \in hours <=> open)
    /\ ~(Ith(clock, n) \in hours <=> open) \/ hours = WeekHours

LEMMA LeftIs ==
  ASSUME NEW hours, NEW clock \in Minutes, NEW open \in BOOLEAN, NEW left, TurnsIn(hours, clock, open, left)
  PROVE  left \in 1..MinutesPerWeek
  <1>1. PICK n \in 1..HoursPerWeek : left = RestOfHour(clock) + MinutesPerHour * (n - 1)
    BY DEF TurnsIn
  <1>2. PICK i \in 0..(HoursPerWeek - 1) : i = n - 1
    BY WeekIs
  <1>3. PICK r \in 0..(MinutesPerHour - 1) : RestOfHour(clock) = r + 1
    <2>1. RestOfHour(clock) \in 1..MinutesPerHour /\ MinutesPerHour \in Nat
      BY ClockIs, WeekIs
    <2>2. RestOfHour(clock) - 1 \in 0..(MinutesPerHour - 1) /\ RestOfHour(clock) = (RestOfHour(clock) - 1) + 1
      BY <2>1
    <2> QED BY <2>2
  <1>4. MinutesPerHour * i + r \in 0..(MinutesPerWeek - 1)
    BY WeekIs, SumIsBelow
  <1>5. i \in Nat /\ r \in Nat /\ MinutesPerHour \in Nat
    BY WeekIs
  <1>6. PICK x \in Nat : x = MinutesPerHour * i
    BY <1>5
  <1>7. left = r + 1 + x /\ x + r \in 0..(MinutesPerWeek - 1)
    BY <1>1, <1>2, <1>3, <1>4, <1>6
  <1> QED BY <1>5, <1>7, WeekIs

(* minutesUntilWindowCloses() and minutesUntilWindowOpens() say it.        *)
LEMMA ClosesIs ==
  ASSUME NEW hours \in SUBSET WeekHours, NEW clock \in Minutes, Ith(clock, 0) \in hours
  PROVE  TurnsIn(hours, clock, TRUE, MinutesUntilCloses(hours, clock))
  <1> DEFINE off == Ahead(hours, clock, FALSE)
  <1>1. off = {n \in 1..(HoursPerWeek - 1) : Ith(clock, n) \notin hours}
    BY AheadIs
  <1>2. off \in SUBSET Nat
    BY AheadIs
  <1>3. PICK n : n = IF off = {} THEN HoursPerWeek ELSE Soonest(off)
    OBVIOUS
  <1>4. MinutesUntilCloses(hours, clock) = RestOfHour(clock) + MinutesPerHour * (n - 1)
    BY <1>3 DEF MinutesUntilCloses
  <1> HIDE DEF off
  <1>5. CASE off = {}
    <2>1. \A j \in 0..(HoursPerWeek - 1) : Ith(clock, j) \in hours
      <3> TAKE j \in 0..(HoursPerWeek - 1)
      <3>1. CASE j = 0
        BY <3>1
      <3>2. CASE j # 0
        <4>1. j \in 1..(HoursPerWeek - 1)
          BY <3>2, WeekIs
        <4> QED BY <1>1, <1>5, <4>1
      <3> QED BY <3>1, <3>2
    <2>2. hours = WeekHours
      <3>1. \A c \in WeekHours : c \in hours
        BY <2>1, WeekComes
      <3> QED BY <3>1
    <2>3. n = HoursPerWeek /\ n \in 1..HoursPerWeek
      BY <1>3, <1>5, WeekIs
    <2> QED BY <1>4, <2>1, <2>2, <2>3 DEF TurnsIn
  <1>6. CASE off # {}
    <2>1. n \in off /\ \A m \in off : n <= m
      BY <1>2, <1>3, <1>6, SoonestIs
    <2>2. n \in 1..(HoursPerWeek - 1) /\ Ith(clock, n) \notin hours
      BY <1>1, <2>1
    <2>3. n \in 1..HoursPerWeek
      BY <2>2, WeekIs
    <2>4. \A j \in 0..(n - 1) : Ith(clock, j) \in hours
      <3> TAKE j \in 0..(n - 1)
      <3>1. CASE j = 0
        BY <3>1
      <3>2. CASE j # 0
        <4>1. j \in 1..(HoursPerWeek - 1) /\ ~(n <= j)
          BY <2>2, <3>2, WeekIs
        <4> QED BY <1>1, <2>1, <4>1
      <3> QED BY <3>1, <3>2
    <2> QED BY <1>4, <2>2, <2>3, <2>4 DEF TurnsIn
  <1> QED BY <1>5, <1>6

LEMMA OpensIs ==
  ASSUME NEW hours \in SUBSET WeekHours, NEW clock \in Minutes, Ith(clock, 0) \notin hours
  PROVE  \/ hours = {} /\ MinutesUntilOpens(hours, clock) = Never
         \/ TurnsIn(hours, clock, FALSE, MinutesUntilOpens(hours, clock))
  <1> DEFINE on == Ahead(hours, clock, TRUE)
  <1>1. on = {n \in 1..(HoursPerWeek - 1) : Ith(clock, n) \in hours}
    BY AheadIs
  <1>2. on \in SUBSET Nat
    BY AheadIs
  <1>3. MinutesUntilOpens(hours, clock) = IF on = {} THEN Never ELSE RestOfHour(clock) + MinutesPerHour * (Soonest(on) - 1)
    BY DEF MinutesUntilOpens
  <1> HIDE DEF on
  <1>4. CASE on = {}
    <2>1. \A j \in 0..(HoursPerWeek - 1) : Ith(clock, j) \notin hours
      <3> TAKE j \in 0..(HoursPerWeek - 1)
      <3>1. CASE j = 0
        BY <3>1
      <3>2. CASE j # 0
        <4>1. j \in 1..(HoursPerWeek - 1)
          BY <3>2, WeekIs
        <4> QED BY <1>1, <1>4, <4>1
      <3> QED BY <3>1, <3>2
    <2>2. \A c \in WeekHours : c \notin hours
      BY <2>1, WeekComes
    <2> QED BY <1>3, <1>4, <2>2
  <1>5. CASE on # {}
    <2>1. PICK n \in on : n = Soonest(on) /\ \A m \in on : n <= m
      BY <1>2, <1>5, SoonestIs
    <2>2. n \in 1..(HoursPerWeek - 1) /\ Ith(clock, n) \in hours
      BY <1>1, <2>1
    <2>3. n \in 1..HoursPerWeek
      BY <2>2, WeekIs
    <2>4. \A j \in 0..(n - 1) : Ith(clock, j) \notin hours
      <3> TAKE j \in 0..(n - 1)
      <3>1. CASE j = 0
        BY <3>1
      <3>2. CASE j # 0
        <4>1. j \in 1..(HoursPerWeek - 1) /\ ~(n <= j)
          BY <2>2, <3>2, WeekIs
        <4> QED BY <1>1, <2>1, <4>1
      <3> QED BY <3>1, <3>2
    <2>5. MinutesUntilOpens(hours, clock) = RestOfHour(clock) + MinutesPerHour * (n - 1)
      BY <1>3, <1>5, <2>1
    <2> QED BY <2>2, <2>3, <2>4, <2>5 DEF TurnsIn
  <1> QED BY <1>4, <1>5

(* A minute on, there is a minute less of it, or it has turned.            *)
LEMMA TurnsOn ==
  ASSUME NEW hours, NEW clock \in Minutes, NEW open \in BOOLEAN, NEW left, TurnsIn(hours, clock, open, left),
         NEW next, next = (clock + 1) % MinutesPerWeek
  PROVE  \/ TurnsIn(hours, next, open, left - 1)
         \/ left - 1 = 0 /\ (~(Ith(next, 0) \in hours <=> open) \/ hours = WeekHours)
  <1>1. PICK n \in 1..HoursPerWeek :
          /\ left = RestOfHour(clock) + MinutesPerHour * (n - 1)
          /\ \A j \in 0..(n - 1) : (Ith(clock, j) \in hours <=> open)
          /\ ~(Ith(clock, n) \in hours <=> open) \/ hours = WeekHours
    BY DEF TurnsIn
  <1>2. n \in Nat /\ n >= 1 /\ n <= HoursPerWeek /\ MinutesPerHour \in Nat \ {0}
    BY WeekIs
  <1>3. RestOfHour(clock) \in 1..MinutesPerHour
    BY ClockIs
  <1>4. CASE RestOfHour(clock) > 1
    <2>1. RestOfHour(next) = RestOfHour(clock) - 1 /\ \A j \in Nat : Ith(next, j) = Ith(clock, j)
      BY <1>4, MinuteOn
    <2>2. PICK x : x = MinutesPerHour * (n - 1) /\ x \in Int
      BY <1>2
    <2>3. left - 1 = RestOfHour(next) + MinutesPerHour * (n - 1)
      BY <1>1, <1>2, <1>3, <2>1, <2>2
    <2>4. \A j \in 0..(n - 1) : (Ith(next, j) \in hours <=> open)
      BY <1>1, <1>2, <2>1
    <2> QED BY <1>1, <1>2, <2>1, <2>3, <2>4 DEF TurnsIn
  <1>5. CASE RestOfHour(clock) = 1
    <2>1. RestOfHour(next) = MinutesPerHour /\ \A j \in Nat : Ith(next, j) = Ith(clock, j + 1)
      BY <1>5, MinuteOn
    <2>2. CASE n = 1
      <3>1. Ith(next, 0) = Ith(clock, 1)
        BY <2>1
      <3>2. left - 1 = 0
        BY <1>1, <1>2, <1>5, <2>2
      <3> QED BY <1>1, <2>2, <3>1, <3>2
    <2>3. CASE n # 1
      <3>1. PICK m \in 1..HoursPerWeek : n = m + 1
        BY <1>2, <2>3, WeekIs
      <3>2. MinutesPerHour * (n - 1) = MinutesPerHour + MinutesPerHour * (m - 1)
        BY <1>2, <3>1
      <3>3. PICK x \in Int : x = MinutesPerHour * (m - 1)
        BY <1>2, <3>1, WeekIs
      <3>4. left - 1 = RestOfHour(next) + MinutesPerHour * (m - 1)
        BY <1>1, <1>2, <1>5, <2>1, <3>2, <3>3
      <3>5. \A j \in 0..(m - 1) : (Ith(next, j) \in hours <=> open)
        <4> TAKE j \in 0..(m - 1)
        <4>1. j \in Nat /\ j + 1 \in 0..(n - 1)
          BY <3>1, WeekIs
        <4> QED BY <1>1, <2>1, <4>1
      <3>6. Ith(next, m) = Ith(clock, n)
        BY <2>1, <3>1, WeekIs
      <3> QED BY <1>1, <3>1, <3>4, <3>5, <3>6 DEF TurnsIn
    <2> QED BY <2>2, <2>3
  <1> QED BY <1>3, <1>4, <1>5, WeekIs

-----------------------------------------------------------------------------
(* The list of the windows.                                                *)

(* A stretch of a day with a certain hour in it is the only one.           *)
LEMMA OneStretch ==
  ASSUME NEW hours \in SUBSET WeekHours, NEW c \in hours
  PROVE  \E w : {v \in DescribeSchedule(hours) : v[1] = c[1] /\ c[2] \in v[2]..(v[3] - 1)} = {w}
  <1>1. PICK d \in Days, h \in HoursOfDay : c = <<d, h>>
    BY DEF WeekHours
  <1>2. h \in Nat /\ h < HoursPerDay /\ HoursPerDay \in Nat
    BY WeekIs DEF HoursOfDay
  <1> DEFINE starts == {s \in 0..h : \A k \in s..h : <<d, k>> \in hours}
             ends == {e \in (h + 1)..HoursPerDay : <<d, e>> \notin hours}
  <1>3. PICK s \in starts : \A t \in starts : s <= t
    <2>1. h \in starts
      <3>1. \A k \in h..h : k = h
        BY <1>2
      <3> QED BY <1>1, <1>2, <3>1
    <2>2. starts \in SUBSET Nat
      BY <1>2
    <2> HIDE DEF starts
    <2> QED BY <2>1, <2>2, LeastIs
  <1>4. PICK e \in ends : \A t \in ends : e <= t
    <2>1. HoursPerDay \in ends
      <3>1. HoursPerDay \notin HoursOfDay
        BY <1>2 DEF HoursOfDay
      <3>2. <<d, HoursPerDay>> \notin WeekHours
        BY <3>1 DEF WeekHours
      <3> QED BY <1>2, <3>2
    <2>2. ends \in SUBSET Nat
      BY <1>2
    <2> HIDE DEF ends
    <2> QED BY <2>1, <2>2, LeastIs
  <1>5. s \in Nat /\ s <= h /\ e \in Nat /\ h < e /\ e <= HoursPerDay
    BY <1>2
  <1>6. <<d, s - 1>> \notin hours
    <2>1. CASE s = 0
      <3>1. s - 1 \notin HoursOfDay
        BY <1>2, <2>1 DEF HoursOfDay
      <3> QED BY <3>1 DEF WeekHours
    <2>2. CASE s # 0
      <3>1. s - 1 \in 0..h /\ ~(s <= s - 1)
        BY <1>5, <2>2, <1>2
      <3>2. s - 1 \notin starts
        BY <1>3, <3>1
      <3>3. PICK k \in (s - 1)..h : <<d, k>> \notin hours
        BY <3>1, <3>2
      <3>4. k \notin s..h
        BY <3>3
      <3>5. k = s - 1
        BY <1>2, <1>5, <3>3, <3>4
      <3> QED BY <3>3, <3>5
    <2> QED BY <2>1, <2>2
  <1>7. \A k \in s..(e - 1) : <<d, k>> \in hours
    <2> TAKE k \in s..(e - 1)
    <2>1. CASE k <= h
      <3>1. k \in s..h
        BY <1>2, <1>5, <2>1
      <3> QED BY <3>1
    <2>2. CASE h < k
      <3>1. k \in (h + 1)..HoursPerDay /\ ~(e <= k)
        BY <1>2, <1>5, <2>2
      <3>2. k \notin ends
        BY <1>4, <3>1
      <3> QED BY <3>1, <3>2
    <2> QED BY <1>2, <1>5, <2>1, <2>2
  <1>8. <<d, e>> \notin hours
    OBVIOUS
  <1> HIDE DEF starts, ends
  <1>9. PICK w : w = <<d, s, e>>
    OBVIOUS
  <1>10. w \in DescribeSchedule(hours) /\ w[1] = c[1] /\ c[2] \in w[2]..(w[3] - 1)
    <2>1. s \in HoursOfDay /\ e \in 1..HoursPerDay /\ s < e /\ h \in s..(e - 1)
      BY <1>2, <1>5 DEF HoursOfDay
    <2> QED BY <1>1, <1>6, <1>7, <1>8, <1>9, <2>1 DEF DescribeSchedule
  <1>11. ASSUME NEW v \in DescribeSchedule(hours), v[1] = c[1], c[2] \in v[2]..(v[3] - 1) PROVE v = w
    <2>1. PICK a \in HoursOfDay, b \in 1..HoursPerDay :
            /\ v = <<d, a, b>> /\ a < b /\ h \in a..(b - 1)
            /\ \A k \in a..(b - 1) : <<d, k>> \in hours
            /\ <<d, a - 1>> \notin hours /\ <<d, b>> \notin hours
      BY <1>1, <1>11 DEF DescribeSchedule
    <2>2. a \in Nat /\ b \in Nat /\ a <= h /\ h < b
      BY <1>2, <2>1 DEF HoursOfDay
    <2>3. ~(a < s)
      <3> SUFFICES ASSUME a < s PROVE FALSE
        OBVIOUS
      <3>1. s - 1 \in a..(b - 1)
        BY <1>5, <2>2
      <3> QED BY <1>6, <2>1, <3>1
    <2>4. ~(s < a)
      <3> SUFFICES ASSUME s < a PROVE FALSE
        OBVIOUS
      <3>1. a - 1 \in s..(e - 1)
        BY <1>5, <2>2
      <3> QED BY <1>7, <2>1, <3>1
    <2>5. ~(b < e)
      <3> SUFFICES ASSUME b < e PROVE FALSE
        OBVIOUS
      <3>1. b \in s..(e - 1)
        BY <1>5, <2>2
      <3> QED BY <1>7, <2>1, <3>1
    <2>6. ~(e < b)
      <3> SUFFICES ASSUME e < b PROVE FALSE
        OBVIOUS
      <3>1. e \in a..(b - 1)
        BY <1>5, <2>2
      <3> QED BY <1>8, <2>1, <3>1
    <2>7. a = s /\ b = e
      BY <1>5, <2>2, <2>3, <2>4, <2>5, <2>6
    <2> QED BY <1>9, <2>1, <2>7
  <1> QED BY <1>10, <1>11

LEMMA WindowsAreListed ==
  ASSUME NEW hours \in SUBSET WeekHours, NEW c \in WeekHours
  PROVE  Cardinality({w \in DescribeSchedule(hours) : w[1] = c[1] /\ c[2] \in w[2]..(w[3] - 1)})
           = IF c \in hours THEN 1 ELSE 0
  <1> DEFINE its == {w \in DescribeSchedule(hours) : w[1] = c[1] /\ c[2] \in w[2]..(w[3] - 1)}
  <1>1. CASE c \in hours
    <2>1. PICK w : its = {w}
      BY <1>1, OneStretch
    <2> QED BY <1>1, <2>1, FS_Singleton
  <1>2. CASE c \notin hours
    <2>1. its = {}
      <3> SUFFICES ASSUME NEW w \in its PROVE FALSE
        OBVIOUS
      <3>1. PICK d \in Days, h \in HoursOfDay : c = <<d, h>>
        BY DEF WeekHours
      <3>2. <<w[1], c[2]>> \in hours
        BY DEF DescribeSchedule
      <3>3. <<w[1], c[2]>> = c
        BY <3>1
      <3> QED BY <1>2, <3>2, <3>3
    <2> QED BY <1>2, <2>1, FS_EmptySet
  <1> QED BY <1>1, <1>2

-----------------------------------------------------------------------------
(* What holds at every step.                                               *)

ScheduleTyped ==
  /\ timetable \in SUBSET WeekHours /\ weekClock \in Minutes
  /\ told \in [open : BOOLEAN, left : Int]

ToldIsTrue ==
  \/ told.left = -1
  \/ told.left = Never /\ timetable = {} /\ told.open = FALSE
  \/ told.left = 0 /\ (~(Ith(weekClock, 0) \in timetable <=> told.open) \/ timetable = WeekHours)
  \/ TurnsIn(timetable, weekClock, told.open, told.left)

ScheduleInv == ScheduleTyped /\ ToldIsTrue

LEMMA UntoldIsTrue == ASSUME told' = Untold PROVE told' \in [open : BOOLEAN, left : Int] /\ ToldIsTrue'
  BY DEF Untold, ToldIsTrue

LEMMA BlocksAre == ASSUME NEW block \in Blocks PROVE block[1] \in SUBSET Days /\ block[2] \in SUBSET HoursOfDay
  BY DEF Blocks

LEMMA TogglesHours == ASSUME timetable \in SUBSET WeekHours, Toggles PROVE timetable' \in SUBSET WeekHours
  <1>1. PICK block \in Blocks :
          timetable' = timetable \cup (block[1] \X block[2]) \/ timetable' = timetable \ (block[1] \X block[2])
    BY DEF Toggles, SetRange
  <1>2. block[1] \X block[2] \subseteq WeekHours
    BY BlocksAre DEF WeekHours
  <1> QED BY <1>1, <1>2

LEMMA OvernightIsHours == Overnight \in SUBSET WeekHours
  BY DEF Overnight

LEMMA ScheduleBegins == InitSchedule => ScheduleInv
  <1> SUFFICES ASSUME InitSchedule PROVE ScheduleInv
    OBVIOUS
  <1>1. weekClock \in Minutes
    BY WeekIs DEF InitSchedule, Minutes
  <1>2. told \in [open : BOOLEAN, left : Int] /\ told.left = -1
    BY DEF InitSchedule, Untold
  <1> QED BY <1>1, <1>2, OvernightIsHours DEF InitSchedule, ScheduleInv, ScheduleTyped, ToldIsTrue

LEMMA ScheduleKept == ASSUME ScheduleInv, [NextSchedule]_scheduleVars PROVE ScheduleInv'
  <1> USE DEF ScheduleInv
  <1>1. CASE Looks
    <2>1. PICK open \in BOOLEAN : open = IsAllowedAt(timetable, weekClock)
      <3>1. IsAllowedAt(timetable, weekClock) \in BOOLEAN
        BY DEF IsAllowedAt, IsHourEnabled
      <3> QED BY <3>1, Zenon
    <2>2. PICK left : left = IF open THEN MinutesUntilCloses(timetable, weekClock) ELSE MinutesUntilOpens(timetable, weekClock)
      OBVIOUS
    <2>3. told' = [open |-> open, left |-> left] /\ UNCHANGED <<timetable, weekClock>>
      BY <1>1, <2>1, <2>2 DEF Looks
    <2>4. told'.open = open /\ told'.left = left
      BY <2>3
    <2>5. open <=> Ith(weekClock, 0) \in timetable
      BY <2>1, AllowedIs DEF ScheduleTyped
    <2>6. \/ left = Never /\ timetable = {} /\ open = FALSE
          \/ TurnsIn(timetable, weekClock, open, left)
      <3>1. CASE open
        <4>1. TurnsIn(timetable, weekClock, TRUE, left)
          BY <2>2, <2>5, <3>1, ClosesIs DEF ScheduleTyped
        <4>2. open = TRUE
          BY <2>1, <3>1
        <4> QED BY <4>1, <4>2
      <3>2. CASE ~open
        <4>1. open = FALSE
          BY <2>1, <3>2
        <4> QED BY <2>2, <2>5, <3>2, <4>1, OpensIs DEF ScheduleTyped
      <3> QED BY <3>1, <3>2
    <2>7. left \in Int
      <3>1. Never \in Int /\ (left \in 1..MinutesPerWeek => left \in Int)
        BY WeekIs DEF Never
      <3> QED BY <2>1, <2>6, <3>1, LeftIs DEF ScheduleTyped
    <2>8. told' \in [open : BOOLEAN, left : Int]
      BY <2>1, <2>3, <2>7
    <2>9. ToldIsTrue'
      <3>1. \/ told'.left = Never /\ timetable' = {} /\ told'.open = FALSE
            \/ TurnsIn(timetable', weekClock', told'.open, told'.left)
        BY <2>3, <2>4, <2>6
      <3> QED BY <3>1 DEF ToldIsTrue, TurnsIn, Ith, Cell, HourOfWeek, RestOfHour, MinuteAt
    <2> QED BY <2>3, <2>8, <2>9 DEF ScheduleTyped
  <1>2. CASE MinutePasses
    <2>1. PICK next : next = (weekClock + 1) % MinutesPerWeek /\ next = weekClock' /\ timetable' = timetable
      BY <1>2 DEF MinutePasses
    <2>2. next \in Minutes
      BY <2>1, MinuteOn DEF ScheduleTyped
    <2>3. CASE told.left > 0
      <3>1. told' = [told EXCEPT !.left = told.left - 1]
        BY <1>2, <2>3 DEF MinutePasses
      <3>2. told' \in [open : BOOLEAN, left : Int] /\ told'.open = told.open /\ told'.left = told.left - 1
        BY <3>1 DEF ScheduleTyped
      <3>3. TurnsIn(timetable, weekClock, told.open, told.left)
        BY <2>3 DEF ToldIsTrue, Never
      <3>4. PICK open, left : open = told.open /\ left = told.left /\ open \in BOOLEAN
        BY DEF ScheduleTyped
      <3>5. \/ TurnsIn(timetable, next, open, left - 1)
            \/ left - 1 = 0 /\ (~(Ith(next, 0) \in timetable <=> open) \/ timetable = WeekHours)
        BY <2>1, <3>3, <3>4, TurnsOn DEF ScheduleTyped
      <3>6. ToldIsTrue'
        BY <2>1, <3>2, <3>4, <3>5 DEF ToldIsTrue, TurnsIn, Ith, Cell, HourOfWeek, RestOfHour, MinuteAt
      <3> QED BY <2>1, <2>2, <3>2, <3>6 DEF ScheduleTyped
    <2>4. CASE ~(told.left > 0) /\ told.left = Never
      <3>1. told' = told
        BY <1>2, <2>4 DEF MinutePasses
      <3>2. timetable = {} /\ told.open = FALSE
        <4>1. TurnsIn(timetable, weekClock, told.open, told.left) => told.left > 0
          BY LeftIs, WeekIs DEF ScheduleTyped
        <4> QED BY <2>4, <4>1 DEF ToldIsTrue, Never
      <3> QED BY <2>1, <2>2, <2>4, <3>1, <3>2 DEF ScheduleTyped, ToldIsTrue
    <2>5. CASE ~(told.left > 0) /\ told.left # Never
      <3>1. told' = Untold
        BY <1>2, <2>5 DEF MinutePasses
      <3> QED BY <2>1, <2>2, <3>1, UntoldIsTrue DEF ScheduleTyped
    <2> QED BY <2>3, <2>4, <2>5
  <1>3. CASE ClockShifts
    <2>1. told' = Untold /\ timetable' = timetable
      BY <1>3 DEF ClockShifts
    <2>2. PICK hours \in Nat : weekClock' = (weekClock + hours * MinutesPerHour) % MinutesPerWeek
      <3>1. {1, HoursPerWeek - 1} \subseteq Nat
        BY WeekIs
      <3> QED BY <1>3, <3>1 DEF ClockShifts
    <2>3. PICK x \in Nat : x = weekClock + hours * MinutesPerHour
      <3>1. hours * MinutesPerHour \in Nat /\ weekClock \in Nat
        BY WeekIs DEF ScheduleTyped, Minutes
      <3> QED BY <3>1
    <2>4. weekClock' \in Minutes
      BY <2>2, <2>3, WeekIs, DividedIs DEF Minutes
    <2> QED BY <2>1, <2>4, UntoldIsTrue DEF ScheduleTyped
  <1>4. CASE Paints
    <2>1. told' = Untold /\ weekClock' = weekClock
      BY <1>4 DEF Paints
    <2>2. timetable' \in SUBSET WeekHours
      <3>1. CASE Toggles
        BY <3>1, TogglesHours DEF ScheduleTyped
      <3>2. CASE Presets
        BY <3>2, OvernightIsHours DEF Presets
      <3> QED BY <1>4, <3>1, <3>2 DEF Paints
    <2> QED BY <2>1, <2>2, UntoldIsTrue DEF ScheduleTyped
  <1>5. CASE UNCHANGED scheduleVars
    BY <1>5 DEF scheduleVars, ScheduleTyped, ToldIsTrue, TurnsIn, Ith, Cell, HourOfWeek, RestOfHour, MinuteAt
  <1> QED BY <1>1, <1>2, <1>3, <1>4, <1>5 DEF NextSchedule

LEMMA WindowFollows == ASSUME ScheduleInv PROVE WindowTurnsWhenTold /\ ScheduleTypeOK
  <1> USE DEF ScheduleInv
  <1>1. IsAllowedAt(timetable, weekClock) <=> Ith(weekClock, 0) \in timetable
    BY AllowedIs DEF ScheduleTyped
  <1>2. TurnsIn(timetable, weekClock, told.open, told.left) =>
          told.left \in 1..MinutesPerWeek /\ (IsAllowedAt(timetable, weekClock) <=> told.open)
    <2> SUFFICES ASSUME TurnsIn(timetable, weekClock, told.open, told.left)
                 PROVE  told.left \in 1..MinutesPerWeek /\ (IsAllowedAt(timetable, weekClock) <=> told.open)
      OBVIOUS
    <2>1. PICK n \in 1..HoursPerWeek : \A j \in 0..(n - 1) : (Ith(weekClock, j) \in timetable <=> told.open)
      BY DEF TurnsIn
    <2>2. 0 \in 0..(n - 1)
      BY WeekIs
    <2>3. Ith(weekClock, 0) \in timetable <=> told.open
      BY <2>1, <2>2
    <2> QED BY <1>1, <2>3, LeftIs DEF ScheduleTyped
  <1>3. \A c \in WeekHours :
          Cardinality({w \in DescribeSchedule(timetable) : w[1] = c[1] /\ c[2] \in w[2]..(w[3] - 1)})
            = IF c \in timetable THEN 1 ELSE 0
    BY WindowsAreListed DEF ScheduleTyped
  <1>4. told.open \in BOOLEAN /\ told.left \in Int /\ MinutesPerWeek \in Nat /\ IsAllowedAt(timetable, weekClock) \in BOOLEAN
    BY WeekIs DEF ScheduleTyped, IsAllowedAt, IsHourEnabled
  <1>5. told.left \in Never..MinutesPerWeek
    BY <1>2, <1>4 DEF ToldIsTrue, Never
  <1>6. told.left > 0 \/ told.left = Never => (IsAllowedAt(timetable, weekClock) <=> told.open)
    BY <1>1, <1>2, <1>4 DEF ToldIsTrue, Never
  <1>7. told.left = 0 /\ timetable # WeekHours => ~(IsAllowedAt(timetable, weekClock) <=> told.open)
    BY <1>1, <1>2, <1>4 DEF ToldIsTrue, Never
  <1>8. WindowTurnsWhenTold
    <2>1. told.left > 0 \/ told.left = Never => IsAllowedAt(timetable, weekClock) = told.open
      BY <1>4, <1>6
    <2>2. told.left = 0 /\ timetable # WeekHours => IsAllowedAt(timetable, weekClock) # told.open
      BY <1>4, <1>7
    <2> QED BY <1>3, <2>1, <2>2 DEF WindowTurnsWhenTold
  <1> QED BY <1>4, <1>5, <1>8 DEF ScheduleTypeOK, ScheduleTyped, Minutes

(* What the dashboard was told of the window and what is painted keep to   *)
(* each other, whatever the length of the week, its days and its hours.    *)
THEOREM ScheduleHolds == ScheduleSpec => []ScheduleInv
  BY ScheduleBegins, ScheduleKept, PTL DEF ScheduleSpec

(* The timetable, the clock and what was told keep their types.            *)
THEOREM ScheduleTypeCorrect == ScheduleSpec => []ScheduleTypeOK
  BY ScheduleHolds, WindowFollows, PTL

(* The minutes that minutesUntilWindowCloses() and minutesUntilWindowOpens() *)
(* give are those after which the window turns, across midnight and the end  *)
(* of the week, and describeSchedule() lists every enabled hour once.        *)
THEOREM WindowAlwaysTurnsWhenTold == ScheduleSpec => []WindowTurnsWhenTold
  BY ScheduleHolds, WindowFollows, PTL
=============================================================================
