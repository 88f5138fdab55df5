---------------------------- MODULE XraySections ----------------------------
(***************************************************************************)
(* The list sections of the Xray core editor (dashboard/src/features/      *)
(* core-editor/components/xray): inbounds, outbounds, balancers and        *)
(* routing rules, each a table with ticks, removal and reordering, and a   *)
(* dialog that adds a row or edits one; and the observation sources, which *)
(* follow the outbounds and the balancers.                                 *)
(*                                                                         *)
(* Only the section on the screen is mounted, so there is one table and    *)
(* one dialog at a time, and dialogs are modal.  A row is its tag and one  *)
(* trait: an outbound that can be observed, a balancer that is leastPing.  *)
(* Commits are also refused for other reasons (required fields, the        *)
(* validation of the whole profile): the user then simply does not commit. *)
(* Rows count from 1 here and from 0 in the code.                          *)
(***************************************************************************)
EXTENDS Integers, SequencesExt

CONSTANTS
    Sections,       \* of "inbounds", "outbounds", "balancers", "routing"
    Tags,
    NoTag,          \* the empty tag
    None,           \* undefined, null
    MaxRows,        \* [Sections -> Nat]: bound on the length of each list
    Profiles,       \* what the server may have
    Picks,          \* bound: the subject selectors the user chooses
    TraitSections   \* bound: where the user changes the trait of a row

Sources == {"observatory", "burstObservatory"}

Row == [tag : Tags \cup {NoTag}, trait : BOOLEAN,
        checked : BOOLEAN]      \* no unchecked tag was written (history)

Profile == [rows : [Sections -> Seq(Row)],
            sources : [Sources -> (SUBSET Tags) \cup {None}]]     \* subjectSelector

\* inbounds and outbounds keep a row (minRowCount), the others may be empty.
MinRowCount(s) == IF s \in {"inbounds", "outbounds"} THEN 1 ELSE 0

RowsOf(p, s) == IF s \in Sections THEN p.rows[s] ELSE << >>

\* Two rows of a profile, wherever they are.
Places(p) == UNION {{s} \X (1..Len(p.rows[s])) : s \in Sections}
At(p, x) == p.rows[x[1]][x[2]]
Collide(p, x, y) == x # y /\ At(p, x).tag = At(p, y).tag /\ At(p, x).tag # NoTag

ASSUME SettingsAssumption ==
    /\ Sections \subseteq {"inbounds", "outbounds", "balancers", "routing"}
    /\ MaxRows \in [Sections -> Nat]
    /\ Picks \subseteq SUBSET Tags
    /\ NoTag \notin Tags
    /\ \A c \in SUBSET Tags : None # c
    /\ \A s \in Sections : \A i \in 1..MaxRows[s] : None # <<s, i>>

ASSUME ProfilesAssumption ==
    \A p \in Profiles :
        /\ p \in Profile
        /\ \A s \in Sections : Len(p.rows[s]) \in MinRowCount(s)..MaxRows[s]
        /\ \A x \in Places(p) : At(p, x).checked
        /\ \A x, y \in Places(p) : ~Collide(p, x, y)

VARIABLES
    profile,        \* xrayProfile of the store
    section,        \* activeSection
    dialog,         \* None, or the dialog that adds or edits a row
    ticks,          \* selectedRows of the table: indices
    obsDraft        \* observationDraft: None, or a selector per source

ui == <<section, dialog, ticks, obsDraft>>
vars == <<profile, ui>>

Dialog == [mode : {"add", "edit"},
           selected : Nat,      \* the row being edited, 0 when adding
           draft : Row \cup {None},     \* the row to add
           initial : Row \cup {None},   \* the row the dialog opened with, if it is kept
           form : Tags \cup {NoTag},    \* the tag field of the form
           asking : BOOLEAN]    \* the question whether to discard is up

TypeOK ==
    /\ profile \in Profile
    /\ \A s \in Sections : Len(profile.rows[s]) <= MaxRows[s]
    /\ section \in Sections
    /\ dialog # None => dialog \in Dialog /\ dialog.selected <= MaxRows[section]
    /\ ticks \subseteq 1..MaxRows[section]
    /\ obsDraft \in [Sources -> (SUBSET Tags) \cup {None}] \cup {None}

-----------------------------------------------------------------------------
(* Profiles *)

rows == profile.rows[section]

WithRows(p, s, list) == [p EXCEPT !.rows[s] = list]

\* A mistake: balancers are forgotten in the check for duplicates.
profileTagHasDuplicateUsage_NoBalancers(p, t, ignore) ==
    t # NoTag /\ \E x \in Places(p) : x # ignore /\ x[1] # "balancers" /\ At(p, x).tag = t

\* profileTagHasDuplicateUsage; ignore is the place being edited, or None.
profileTagHasDuplicateUsage(p, t, ignore) ==
    t # NoTag /\ \E x \in Places(p) : x # ignore /\ At(p, x).tag = t

\* A mistake: the index counts from one, as the validator's paths do.
SetRow_OneBased(list, i, row) ==
    [j \in 1..(IF i >= Len(list) THEN i + 1 ELSE Len(list)) |->
        IF j = i + 1 THEN row ELSE IF j <= Len(list) THEN list[j] ELSE None]

\* list[i] = row, which in JavaScript may leave holes.
SetRow(list, i, row) ==
    [j \in 1..(IF i > Len(list) THEN i ELSE Len(list)) |->
        IF j = i THEN row ELSE IF j <= Len(list) THEN list[j] ELSE None]

\* filter by index: the k-th row left has k - 1 others left before it.
DropRows(list, gone) ==
    LET left == DOMAIN list \ gone
        Kept(k) == CHOOSE i \in left : Cardinality({j \in left : j <= i}) = k
    IN  [k \in 1..Cardinality(left) |-> list[Kept(k)]]

arrayMove(list, from, to) == InsertAt(RemoveAt(list, from), to, list[from])

\* collectOutboundSelectors, uniqueObservableOutboundTags
ObservableTags(p) ==
    {r.tag : r \in {q \in ToSet(RowsOf(p, "outbounds")) : q.trait}} \ {NoTag}

profileHasObservation(p) == \E k \in Sources : p.sources[k] # None

ensureObservationForProfile(p) ==
    IF profileHasObservation(p) THEN p
    ELSE LET leastPing == \E r \in ToSet(RowsOf(p, "balancers")) : r.trait
         IN  [p EXCEPT !.sources[IF leastPing THEN "observatory" ELSE "burstObservatory"] =
                 ObservableTags(p)]

\* A mistake: selectors are compared with the outbounds after the change.
SyncSelectors_After(p, before) ==
    [p EXCEPT !.sources = [k \in Sources |->
        IF p.sources[k] # None /\ p.sources[k] = ObservableTags(p)
        THEN ObservableTags(p) ELSE p.sources[k]]]

\* syncAutoManagedObservationSubjectSelectors: a selector of all observable
\* outbounds stays one.
SyncSelectors(p, before) ==
    [p EXCEPT !.sources = [k \in Sources |->
        IF p.sources[k] # None /\ p.sources[k] = ObservableTags(before)
        THEN ObservableTags(p) ELSE p.sources[k]]]

\* The list of section s replaced, as each section does it.
UpdateRows(p, s, list) ==
    IF s = "outbounds" THEN SyncSelectors(WithRows(p, s, list), p)
    ELSE WithRows(p, s, list)

\* A mistake: the section has no effect of its own.
Rendered_NoEffect(p, s) == p

\* The effect of the balancers section, which runs whenever the profile
\* changes under it and when it appears.
Rendered(p, s) ==
    IF s = "balancers" /\ p.rows[s] # << >> THEN ensureObservationForProfile(p) ELSE p

\* What the store compares to tell whether there are changes.
Same(r, q) == r.tag = q.tag /\ r.trait = q.trait
SameProfile(p, q) ==
    /\ p.sources = q.sources
    /\ \A s \in Sections :
          /\ Len(p.rows[s]) = Len(q.rows[s])
          /\ \A i \in DOMAIN p.rows[s] : Same(p.rows[s][i], q.rows[s][i])

-----------------------------------------------------------------------------
Init ==
    /\ section \in Sections
    /\ \E p \in Profiles : profile = Rendered(p, section)
    /\ dialog = None /\ ticks = {} /\ obsDraft = None

\* Everything a section keeps is gone when another one is shown.
ChangeSection(s) ==
    /\ dialog = None /\ obsDraft = None /\ s # section
    /\ section' = s /\ ticks' = {}
    /\ profile' = Rendered(profile, s)
    /\ UNCHANGED <<dialog, obsDraft>>

\* The page takes over a refetched core while nothing is changed, that is while
\* the draft is as it was loaded or last saved; the section stays mounted, with
\* its dialog.
Refetch ==
    /\ \E q \in Profiles : SameProfile(profile, q)
    /\ \E p \in Profiles : profile' = Rendered(p, section)
    /\ UNCHANGED ui

-----------------------------------------------------------------------------
(* The dialog *)

\* The index outlives the dialog in the code, but whatever opens one sets it.
OpenDialog(mode, i, draft, initial, form) ==
    dialog' = [mode |-> mode, selected |-> i, draft |-> draft, initial |-> initial,
               form |-> form, asking |-> FALSE]

\* editOriginalInbound, editOriginalOutbound; the others keep none.
EditOriginal(row) ==
    IF section \in {"inbounds", "outbounds"} THEN [row EXCEPT !.checked = TRUE] ELSE None

\* onRowClick
RowClick(i) ==
    /\ dialog = None /\ obsDraft = None
    /\ OpenDialog("edit", i, None, EditOriginal(rows[i]), rows[i].tag)
    /\ UNCHANGED <<profile, section, ticks, obsDraft>>

\* beginAddInbound, beginAddOutbound, beginAddBalancer, beginAddRule: inbounds
\* and balancers start with a generated tag, which may be taken.
BeginAdd(t) ==
    /\ dialog = None /\ obsDraft = None
    /\ Len(rows) < MaxRows[section]
    /\ (t = NoTag) = (section \in {"outbounds", "routing"})
    /\ LET row == [tag |-> t, trait |-> section = "outbounds", checked |-> TRUE]
       IN  OpenDialog("add", 0, row, row, t)
    /\ UNCHANGED <<profile, section, ticks, obsDraft>>

\* finalizeDetailClose
finalizeDetailClose == dialog' = None

Adding == dialog # None /\ dialog.mode = "add"
Editing == dialog # None /\ dialog.mode = "edit"
Answering == dialog # None /\ dialog.asking
Edited == IF Editing THEN <<section, dialog.selected>> ELSE None

\* The row the dialog shows: nothing if the list has become shorter.
RowShown == Adding \/ (Editing /\ dialog.selected <= Len(rows))

\* A mistake: an edit is written while the form keeps the tag it showed.
Patch_FormStays(tag, trait, checked, form) ==
    IF Adding
    THEN /\ dialog' = [dialog EXCEPT !.draft.tag = tag, !.draft.trait = trait,
                                     !.form = form]
         /\ UNCHANGED profile
    ELSE /\ UNCHANGED dialog
         /\ profile' = Rendered(UpdateRows(profile, section, SetRow(rows, dialog.selected,
                           [tag |-> tag, trait |-> trait, checked |-> checked])), section)

\* What a change of the dialog's row does: an edit goes straight into the
\* profile.
Patch(tag, trait, checked, form) ==
    IF Adding
    THEN /\ dialog' = [dialog EXCEPT !.draft.tag = tag, !.draft.trait = trait,
                                     !.form = form]
         /\ UNCHANGED profile
    ELSE /\ dialog' = [dialog EXCEPT !.form = form]
         /\ profile' = Rendered(UpdateRows(profile, section, SetRow(rows, dialog.selected,
                           [tag |-> tag, trait |-> trait, checked |-> checked])), section)

Shown == IF Adding THEN dialog.draft ELSE rows[dialog.selected]

\* Typing a tag: inbounds and outbounds refuse one in use, the others write it
\* and show an error.
TypeTag(t) ==
    /\ RowShown /\ ~Answering /\ t # dialog.form
    /\ LET taken == profileTagHasDuplicateUsage(profile, t, Edited)
       IN  IF section \in {"inbounds", "outbounds"} /\ taken
           THEN dialog' = [dialog EXCEPT !.form = t] /\ UNCHANGED profile
           ELSE Patch(t, Shown.trait, Shown.checked /\ ~taken, t)
    /\ UNCHANGED <<section, ticks, obsDraft>>

\* Another protocol for an outbound, another strategy for a balancer.  A form
\* that is reset shows the tag of the row again.
ChangeTrait ==
    /\ RowShown /\ ~Answering
    /\ section \in TraitSections
    /\ Patch(Shown.tag, ~Shown.trait, Shown.checked,
             IF section = "outbounds" \/ Adding THEN Shown.tag ELSE dialog.form)
    /\ UNCHANGED <<section, ticks, obsDraft>>

\* handleUriImport, and leaving the JSON tab of an outbound: the tag is written
\* as it comes.  The form shows it, except that an edit does not refresh the
\* form after the JSON tab.
ImportRow(t, uri) ==
    /\ section = "outbounds" /\ RowShown /\ ~Answering
    /\ t # Shown.tag
    /\ Patch(t, Shown.trait,
             Shown.checked /\ ~profileTagHasDuplicateUsage(profile, t, Edited),
             IF uri \/ Adding THEN t ELSE dialog.form)
    /\ UNCHANGED <<section, ticks, obsDraft>>

\* The row differs from the one the dialog opened with, which an edit of a
\* balancer or a rule does not look at.
RowDiffers ==
    IF Adding THEN ~Same(dialog.draft, dialog.initial)
    ELSE dialog.initial # None /\ (~RowShown \/ ~Same(Shown, dialog.initial))

\* handleDialogOpenChange(false): a question first if the row differs; for an
\* outbound also if a link is typed in or its new JSON is shown.
Cancel ==
    /\ dialog # None /\ ~dialog.asking
    /\ \/ /\ RowDiffers \/ section = "outbounds"
          /\ dialog' = [dialog EXCEPT !.asking = TRUE]
       \/ ~RowDiffers /\ finalizeDetailClose
    /\ UNCHANGED <<profile, section, ticks, obsDraft>>

Discard ==
    /\ Answering /\ finalizeDetailClose
    /\ UNCHANGED <<profile, section, ticks, obsDraft>>

KeepEditing ==
    /\ Answering /\ dialog' = [dialog EXCEPT !.asking = FALSE]
    /\ UNCHANGED <<profile, section, ticks, obsDraft>>

\* The tag a commit checks: rules that of the row, the others the form's.
TagToCheck == IF section = "routing" THEN Shown.tag ELSE dialog.form

CommitAllowed ==
    /\ RowShown /\ ~Answering
    /\ section = "routing" \/ TagToCheck # NoTag
    /\ ~profileTagHasDuplicateUsage(profile, TagToCheck, Edited)

\* commitAddInbound, commitAddOutbound, commitAddBalancer, commitAddRule
CommitAdd ==
    /\ Adding /\ CommitAllowed
    /\ Len(rows) < MaxRows[section]
    /\ LET row == [dialog.draft EXCEPT !.checked = TRUE, !.tag =
                     IF section \in {"outbounds", "balancers"} THEN dialog.form ELSE @]
           p == UpdateRows(profile, section, Append(rows, row))
       IN  profile' = IF section = "balancers" THEN ensureObservationForProfile(p) ELSE p
    /\ finalizeDetailClose
    /\ UNCHANGED <<section, ticks, obsDraft>>

\* commitEditInbound, commitEditOutbound, commitEditBalancer, commitEditRule:
\* only an outbound takes its tag from the form, the rest is written already.
CommitEdit ==
    /\ Editing /\ CommitAllowed
    /\ LET row == [Shown EXCEPT !.checked = TRUE,
                                !.tag = IF section = "outbounds" THEN dialog.form ELSE @]
       IN  profile' = Rendered(UpdateRows(profile, section, SetRow(rows, dialog.selected, row)),
                               section)
    /\ finalizeDetailClose
    /\ UNCHANGED <<section, ticks, obsDraft>>

-----------------------------------------------------------------------------
(* The table *)

TableFree == dialog = None /\ obsDraft = None

\* onRemoveRow: the entry of the menu is disabled at the minimum.
RemoveRow(i) ==
    /\ TableFree /\ Len(rows) > MinRowCount(section)
    /\ profile' = Rendered(UpdateRows(profile, section, DropRows(rows, {i})), section)
    /\ UNCHANGED <<section, dialog, ticks, obsDraft>>

\* handleDragEnd, onReorder: outbounds are moved without looking at selectors.
Reorder(from, to) ==
    /\ TableFree /\ from # to
    /\ profile' = WithRows(profile, section, arrayMove(rows, from, to))
    /\ UNCHANGED <<section, dialog, ticks, obsDraft>>

Tick(i) ==
    /\ TableFree
    /\ ticks' = IF i \in ticks THEN ticks \ {i} ELSE ticks \cup {i}
    /\ UNCHANGED <<profile, section, dialog, obsDraft>>

\* Another search, or the bar's clear button.
ClearTicks ==
    /\ TableFree /\ ticks # {} /\ ticks' = {}
    /\ UNCHANGED <<profile, section, dialog, obsDraft>>

\* A mistake: one row too many may go.
BulkAllowed_OffByOne(n, count, min) == min = 0 \/ n - count >= min - 1

\* bulkRemoveAllowed, and the guard of confirmBulkDelete
BulkAllowed(n, count, min) == min = 0 \/ n - count >= min

\* confirmBulkDelete, onBulkRemove: ticks that no row is left for count too.
BulkRemove ==
    /\ TableFree /\ ticks # {}
    /\ BulkAllowed(Len(rows), Cardinality(ticks), MinRowCount(section))
    /\ profile' = Rendered(UpdateRows(profile, section, DropRows(rows, ticks)), section)
    /\ ticks' = {}
    /\ UNCHANGED <<section, dialog, obsDraft>>

-----------------------------------------------------------------------------
(* The dialog of the observation sources *)

OpenObservationDialog ==
    /\ section = "balancers" /\ TableFree
    /\ obsDraft' = profile.sources
    /\ UNCHANGED <<profile, section, dialog, ticks>>

\* A source cannot be switched off when it is the last one a balancer needs;
\* the observatory cannot be switched on without a leastPing balancer.
ToggleSource(k) ==
    /\ obsDraft # None
    /\ IF obsDraft[k] = None
       THEN k = "observatory" => \E r \in ToSet(rows) : r.trait
       ELSE rows = << >> \/ \E j \in Sources \ {k} : obsDraft[j] # None
    /\ obsDraft' = [obsDraft EXCEPT ![k] = IF @ = None THEN ObservableTags(profile) ELSE None]
    /\ UNCHANGED <<profile, section, dialog, ticks>>

\* The picker of the subject selector.
PickSubjects(k, subjects) ==
    /\ obsDraft # None /\ obsDraft[k] # None
    /\ obsDraft' = [obsDraft EXCEPT ![k] = subjects]
    /\ UNCHANGED <<profile, section, dialog, ticks>>

CloseObservationDialog ==
    /\ obsDraft # None /\ obsDraft' = None
    /\ UNCHANGED <<profile, section, dialog, ticks>>

commitObservationDraft ==
    /\ obsDraft # None /\ obsDraft' = None
    /\ profile' = Rendered([profile EXCEPT !.sources = obsDraft], section)
    /\ UNCHANGED <<section, dialog, ticks>>

-----------------------------------------------------------------------------
Next ==
    \/ \E s \in Sections : ChangeSection(s)
    \/ Refetch
    \/ \E i \in DOMAIN rows : RowClick(i) \/ RemoveRow(i) \/ Tick(i)
    \/ \E i, j \in DOMAIN rows : Reorder(i, j)
    \/ ClearTicks \/ BulkRemove
    \/ \E t \in Tags \cup {NoTag} :
          BeginAdd(t) \/ TypeTag(t) \/ \E uri \in BOOLEAN : ImportRow(t, uri)
    \/ ChangeTrait \/ Cancel \/ Discard \/ KeepEditing \/ CommitAdd \/ CommitEdit
    \/ OpenObservationDialog \/ CloseObservationDialog \/ commitObservationDraft
    \/ \E k \in Sources : ToggleSource(k) \/ \E c \in Picks : PickSubjects(k, c)

Spec == Init /\ [][Next]_vars

-----------------------------------------------------------------------------
(* Properties *)

\* Tags of inbounds, outbounds, balancers and rules do not collide, as
\* profileTagHasDuplicateUsage says Xray expects, unless one of the two was
\* written without the check: typed into the open dialog of a balancer or a
\* rule, or imported into an outbound, and never confirmed.
TagsUnique ==
    \A x, y \in Places(profile) :
        Collide(profile, x, y) => ~(At(profile, x).checked /\ At(profile, y).checked)

\* Removing rows one by one or in bulk, with ticks that have gone stale as
\* well, never takes the last inbound or the last outbound.
LastRowStays == \A s \in Sections : Len(profile.rows[s]) >= MinRowCount(s)

\* While the balancers are on the screen and there is one, a source observes
\* the outbounds, whatever was removed, switched off or refetched before.
ObservationKept ==
    section = "balancers" /\ rows # << >> => profileHasObservation(profile)

ObservesAll(k) == profile.sources[k] # None /\ profile.sources[k] = ObservableTags(profile)

\* A source that observes every outbound goes on doing so when the user adds,
\* renames, imports, removes or moves outbounds, in a dialog or in the table.
SelectorsFollow ==
    [][\A k \in Sources :
          ObservesAll(k) /\ RowsOf(profile, "outbounds") # RowsOf(profile, "outbounds")'
          /\ ~Refetch
          => ObservesAll(k)']_vars

\* What the dialog says of an edit: modifications are lost when it is closed
\* with Discard, so the row is the one the dialog was opened on.
DiscardedEditsAreLost ==
    [][Discard /\ Editing /\ RowShown => Same(rows'[dialog.selected], dialog.initial)]_vars

-----------------------------------------------------------------------------
(* Why *)

\* A dialog that adds has a row to add; one that edits knows which row.
DialogHasRow ==
    /\ Adding => dialog.draft \in Row
    /\ Editing => dialog.selected # 0

\* Only a balancer, a rule or an outbound is written before its tag is
\* checked, and the form of a balancer shows the tag that was written.
UncheckedIsShown ==
    /\ "inbounds" \in Sections =>
          \A i \in DOMAIN profile.rows["inbounds"] : profile.rows["inbounds"][i].checked
    /\ section = "balancers" /\ Editing /\ RowShown /\ ~Shown.checked
          => Shown.tag = dialog.form

\* A new inbound has the tag of its form, unless that tag is refused.
AddedIsForm ==
    section = "inbounds" /\ Adding =>
        \/ dialog.draft.tag = dialog.form
        \/ profileTagHasDuplicateUsage(profile, dialog.form, None)

\* Nobody else changes the inbounds' core while the editor is open: a refetch
\* in the middle of adding an inbound can take the tag that was written last
\* and free the one that the form still shows.
NobodyElse ==
    "inbounds" \in Sections => \A p, q \in Profiles : SameProfile(p, q)

(* The inductive invariant behind TagsUnique, for NobodyElse.                *)
DialogProtocol == DialogHasRow /\ UncheckedIsShown /\ AddedIsForm
=============================================================================
