----------------------------- MODULE CoreEditor -----------------------------
(***************************************************************************)
(* The dashboard's editor of one core's configuration                      *)
(* (dashboard/src/features/core-editor): the store, the JSON pane with its *)
(* two debounced synchronisations, the page that loads, saves and          *)
(* refetches, and the query cache between it and the server.               *)
(*                                                                         *)
(* The five families of kinds keep a draft each in the store.  Every read  *)
(* of a draft selects it by the kind, and every change of the kind writes  *)
(* the draft of the new one, so ed.draft stands for the selected draft.    *)
(* A configuration is a token.  Normal ones are what the editor itself     *)
(* writes; Import is what the adapters make of a configuration.            *)
(***************************************************************************)
CONSTANTS
    Kinds,          \* of "xray", "wg", "ikev2", "openvpn", "pptp": one per family
    Names,          \* names of a core; NoName is the empty one
    NoName,
    TagSets,        \* fallback and excluded inbound tags, which only xray keeps
    NoTags,
    Normal,         \* configurations as a draft is written out
    Fresh,          \* the one a new core starts with
    Foreign,        \* other JSON a server or a person may come up with
    Import,         \* [Normal \cup Foreign -> Normal \cup {NotImported}]
    NotImported,
    Savable,        \* drafts that pass the validation before saving
    Broken,         \* text that is not JSON
    None,           \* null: no data, no request, no snapshot
    Sent,           \* a request that is not answered yet
    OthersCores,    \* cores that are there to begin with, or that others save
    EditsWhileSaving,   \* the user edits while a save is under way
    SwitchesBack,       \* the user returns to the kind last saved
    LeavesJsonEarly     \* the user leaves or saves before typed JSON is merged

Configs == Normal \cup Foreign
Texts == Configs \cup {Broken}

ASSUME ConfigsAssumption ==
    /\ Fresh \in Normal /\ Savable \subseteq Normal
    /\ NotImported \notin Normal /\ Broken \notin Configs /\ None \notin Configs
    /\ Import \in [Configs -> Normal \cup {NotImported}]
    /\ \A n \in Normal : Import[n] = n

ASSUME SettingsAssumption ==
    /\ NoName \in Names /\ NoTags \in TagSets /\ Kinds # {}
    /\ EditsWhileSaving \in BOOLEAN /\ SwitchesBack \in BOOLEAN
    /\ LeavesJsonEarly \in BOOLEAN

\* A core as the API carries it.
Core == [kind : Kinds, name : Names, tags : TagSets, config : Configs]

ASSUME OthersAssumption == OthersCores \subseteq Core

VARIABLES
    server,         \* the core in the database, None before it is created
    page,           \* the route: "closed", "new", "edit"
    failed,         \* isError of the query
    coreData,       \* the query's data
    fetch,          \* None, Sent, or the answer on its way
    save,           \* the save under way: what was sent, and how far it is
    ed,             \* the store
    snapshot,       \* persistedSnapshot
    applyTimer,     \* the debounced merge of typed JSON is pending
    syncTimer,      \* the debounced refresh of the JSON pane is pending
    known           \* the draft the server last had, as this editor knows (history)

netVars == <<server, coreData, fetch, save, failed>>
vars == <<server, page, failed, coreData, fetch, save, ed, snapshot, applyTimer,
          syncTimer, known>>

Store == [hydrated : BOOLEAN, isNew : BOOLEAN, kind : Kinds \cup {"xray"},
          name : Names, tags : TagSets, draft : Normal \cup {None},
          baseline : Normal \cup {None}, monaco : Texts \cup {None},
          monacoDirty : BOOLEAN, section : {"form", "advanced"},
          hydratedJson : Configs \cup {None}]

Snapshot == [kind : Kinds \cup {"xray"}, name : Names, tags : TagSets,
             draft : Normal \cup {None}, monaco : Texts \cup {None},
             section : {"form", "advanced"}, hydratedJson : Configs \cup {None}]

TypeOK ==
    /\ server \in Core \cup {None}
    /\ page \in {"closed", "new", "edit"}
    /\ failed \in BOOLEAN
    /\ coreData \in Core \cup {None}
    /\ fetch \in Core \cup {None, Sent}
    /\ save \in [data : Core, create : BOOLEAN, applied : BOOLEAN] \cup {None}
    /\ ed \in Store
    /\ snapshot \in Snapshot \cup {None}
    /\ applyTimer \in BOOLEAN /\ syncTimer \in BOOLEAN
    /\ known \in Normal \cup {None}

EmptyStore ==
    [hydrated |-> FALSE, isNew |-> FALSE, kind |-> "xray", name |-> NoName,
     tags |-> NoTags, draft |-> None, baseline |-> None, monaco |-> None,
     monacoDirty |-> FALSE, section |-> "form", hydratedJson |-> None]

Init ==
    /\ server \in OthersCores \cup {None}
    /\ page = "closed" /\ failed = FALSE
    /\ coreData = None /\ fetch = None /\ save = None
    /\ ed = EmptyStore /\ snapshot = None
    /\ applyTimer = FALSE /\ syncTimer = FALSE
    /\ known = None

-----------------------------------------------------------------------------
(* The adapters *)

\* What initFromCore can make of a configuration: WireGuard falls back to a
\* new draft, the others keep what they understand.
Loaded(k, c) ==
    IF Import[c] # NotImported THEN {Import[c]} ELSE IF k = "wg" THEN {Fresh} ELSE Normal

\* What applyMonacoJson can make of a text; nothing if it is refused.
Applied(k, t) ==
    IF t = Broken THEN {}
    ELSE IF Import[t] # NotImported THEN {Import[t]}
    ELSE IF k \in {"xray", "wg"} THEN {} ELSE Normal

-----------------------------------------------------------------------------
(* The store *)

captureSnapshot(e) ==
    [kind |-> e.kind, name |-> e.name, tags |-> e.tags, draft |-> e.draft,
     monaco |-> e.monaco, section |-> e.section, hydratedJson |-> e.hydratedJson]

\* A draft that has just been set up: nothing in it is unsaved.
Pristine(e, k, name, tags, d) ==
    [e EXCEPT !.hydrated = TRUE, !.kind = k, !.name = name, !.tags = tags,
              !.draft = d, !.baseline = d, !.monaco = d, !.monacoDirty = FALSE]

initFromCore(core, d, preserveNavigation) ==
    /\ ed' = [Pristine(ed, core.kind, core.name,
                       IF core.kind = "xray" THEN core.tags ELSE NoTags, d)
              EXCEPT !.isNew = FALSE,
                     !.monaco = IF core.kind = "wg" /\ Import[core.config] = NotImported
                                THEN core.config ELSE d,
                     !.section = IF preserveNavigation THEN ed.section ELSE "form",
                     !.hydratedJson = core.config]
    /\ snapshot' = captureSnapshot(ed')
    /\ known' = d

initNew(k, name) ==
    /\ ed' = [Pristine(ed, k, name, NoTags, Fresh)
              EXCEPT !.isNew = TRUE, !.section = "form", !.hydratedJson = None]
    /\ snapshot' = captureSnapshot(ed')
    /\ known' = Fresh

\* The JSON pane is rewritten from the draft.
syncMonacoFromDraft(e) ==
    IF e.draft = None THEN e ELSE [e EXCEPT !.monaco = e.draft, !.monacoDirty = FALSE]

markClean ==
    /\ ed' = syncMonacoFromDraft(
                IF ed.draft = None THEN ed
                ELSE [ed EXCEPT !.baseline = ed.draft, !.monacoDirty = FALSE])
    /\ snapshot' = captureSnapshot(ed')

applyPersistedSnapshot(e, s) ==
    [Pristine(e, s.kind, s.name, IF s.kind \in {"xray", "wg"} THEN s.tags ELSE NoTags, s.draft)
     EXCEPT !.monaco = s.monaco, !.section = s.section, !.hydratedJson = s.hydratedJson]

currentConfig == IF ed.monacoDirty THEN ed.monaco ELSE ed.draft

\* Mutant: JSON that has been typed and not merged is not looked at.
HasActualChanges_DraftOnly ==
    /\ ed.hydrated
    /\ \/ ed.kind # snapshot.kind
       \/ ed.name # snapshot.name
       \/ ed.tags # snapshot.tags
       \/ ed.draft # ed.baseline

HasActualChanges ==
    /\ ed.hydrated
    /\ \/ ed.kind # snapshot.kind
       \/ ed.name # snapshot.name
       \/ ed.tags # snapshot.tags
       \/ currentConfig # ed.baseline

-----------------------------------------------------------------------------
(* The JSON pane and its timers (useCoreDraftMonacoSync) *)

\* The page shows the editor, not the skeleton and not the error.
Visible ==
    \/ page = "new"
    \/ page = "edit" /\ ed.hydrated /\ ~ed.isNew /\ coreData # None /\ ~failed

Mounted == Visible /\ ed.section = "advanced" /\ ed.kind # "openvpn"

\* Valid JSON has been typed and is not in the draft yet.
Unmerged == ed.monacoDirty /\ Applied(ed.kind, ed.monaco) # {}

\* Mutant: only typing starts the merge, not the return to a pane with text.
RearmApply_TypingOnly ==
    applyTimer' = /\ Mounted' /\ ed'.monacoDirty
                  /\ applyTimer \/ ed'.monaco # ed.monaco \/ ~ed.monacoDirty

\* Mounting or typing restarts the merge; leaving the pane, or a pane that is
\* not dirty, cancels it.
RearmApply ==
    applyTimer' = /\ Mounted' /\ ed'.monacoDirty
                  /\ \/ applyTimer \/ ~Mounted
                     \/ ed'.monaco # ed.monaco \/ ~ed.monacoDirty

\* A changed draft schedules a refresh of the pane.  Other changes of the store
\* may do so too, as the draft last seen is forgotten with every mount; the
\* drafts of credential VPNs are not watched.
RearmSync ==
    \/ /\ ~Mounted' \/ ed' = ed \/ ed'.monacoDirty \/ ed'.kind = "pptp"
       /\ syncTimer' = (syncTimer /\ Mounted')
    \/ /\ Mounted' /\ ed' # ed /\ ~ed'.monacoDirty /\ ed'.kind # "pptp"
       /\ syncTimer' \in (IF ed'.draft # ed.draft THEN {TRUE} ELSE {TRUE, syncTimer})

Rearm == RearmApply /\ RearmSync

\* Typing into the pane, or into one of its filtered tabs, whose slice is put
\* back into the whole if it is valid.
TypeJson(t) ==
    /\ Mounted
    /\ save # None => EditsWhileSaving
    /\ ed' = [ed EXCEPT !.monaco = t, !.monacoDirty = TRUE]
    /\ UNCHANGED <<netVars, page, snapshot, known>>
    /\ Rearm

\* Mutant: what the adapters make of the text is taken unseen.
ApplyFires_Unchecked ==
    /\ applyTimer /\ ed.monaco # Broken
    /\ ed' = [ed EXCEPT !.draft = Import[ed.monaco], !.monacoDirty = FALSE]
    /\ UNCHANGED <<netVars, page, snapshot, known>>
    /\ Rearm

\* applyMonacoJson after APPLY_DEBOUNCE_MS: refused text stays as it is.
ApplyFires ==
    /\ applyTimer
    /\ UNCHANGED <<netVars, page, snapshot, known>>
    /\ \/ /\ Applied(ed.kind, ed.monaco) = {}
          /\ applyTimer' = FALSE
          /\ UNCHANGED <<ed, syncTimer>>
       \/ \E d \in Applied(ed.kind, ed.monaco) :
             ed' = [ed EXCEPT !.draft = d, !.monacoDirty = FALSE] /\ Rearm

\* Mutant: the pane is refreshed while the user is typing in it.
SyncFires_Overwrites ==
    /\ syncTimer
    /\ ed' = syncMonacoFromDraft(ed)
    /\ syncTimer' = FALSE
    /\ UNCHANGED <<netVars, page, snapshot, known>>
    /\ RearmApply

SyncFires ==
    /\ syncTimer
    /\ ed' = IF ed.monacoDirty THEN ed ELSE syncMonacoFromDraft(ed)
    /\ syncTimer' = FALSE
    /\ UNCHANGED <<netVars, page, snapshot, known>>
    /\ RearmApply

GoToSection(s) ==
    /\ Visible /\ s # ed.section
    /\ Unmerged => LeavesJsonEarly
    /\ ed' = [ed EXCEPT !.section = s]
    /\ UNCHANGED <<netVars, page, snapshot, known>>
    /\ Rearm

-----------------------------------------------------------------------------
(* Editing *)

\* Every form and dialog ends in one of the set and update functions.
EditDraft(d) ==
    /\ Visible
    /\ ed.section = "form" \/ ed.kind = "openvpn"
    /\ save # None => EditsWhileSaving
    /\ Unmerged => LeavesJsonEarly
    /\ ed' = syncMonacoFromDraft([ed EXCEPT !.draft = d])
    /\ UNCHANGED <<netVars, page, snapshot, known>>
    /\ Rearm

setCoreName(n) ==
    /\ Visible
    /\ save # None => EditsWhileSaving
    /\ ed' = [ed EXCEPT !.name = n]
    /\ UNCHANGED <<netVars, page, snapshot, known>>
    /\ Rearm

setInboundTags(g) ==
    /\ Visible /\ ed.kind = "xray" /\ ed.section = "form"
    /\ save # None => EditsWhileSaving
    /\ ed' = [ed EXCEPT !.tags = g]
    /\ UNCHANGED <<netVars, page, snapshot, known>>
    /\ Rearm

\* The kind picker: a new core starts over, an existing one gets a new draft
\* that counts as its own baseline.
ChooseKind(k) ==
    /\ Visible /\ k # ed.kind
    /\ save # None => EditsWhileSaving
    /\ IF page = "new"
       THEN initNew(k, ed.name)
       ELSE /\ k = snapshot.kind => SwitchesBack
            /\ ed' = [Pristine(ed, k, ed.name, NoTags, Fresh) EXCEPT !.section = "form"]
            /\ UNCHANGED <<snapshot, known>>
    /\ UNCHANGED <<netVars, page>>
    /\ Rearm

\* Discard, in the save bar and in the command menu.
discardDraft ==
    /\ Visible /\ HasActualChanges
    /\ save # None => EditsWhileSaving
    /\ ed' = applyPersistedSnapshot(ed, snapshot)
    /\ UNCHANGED <<netVars, page, snapshot, known>>
    /\ Rearm

\* "Refresh JSON preview from draft" of the command menu.
RefreshPreview ==
    /\ Visible
    /\ save # None => EditsWhileSaving
    /\ Unmerged => LeavesJsonEarly
    /\ ed' = syncMonacoFromDraft(ed)
    /\ UNCHANGED <<netVars, page, snapshot, known>>
    /\ Rearm

-----------------------------------------------------------------------------
(* Loading and refetching *)

\* Mounting starts from the cached data, if any, and fetches if it is stale.
OpenExisting ==
    /\ page = "closed" /\ server # None
    /\ save # None => EditsWhileSaving
    /\ page' = "edit" /\ failed' = FALSE
    /\ IF coreData = None
       THEN fetch' = Sent /\ UNCHANGED <<ed, snapshot, known>>
       ELSE /\ fetch' \in {fetch, Sent}
            /\ \E d \in Loaded(coreData.kind, coreData.config) : initFromCore(coreData, d, FALSE)
    /\ UNCHANGED <<server, coreData, save>>
    /\ Rearm

OpenNew(k) ==
    /\ page = "closed" /\ server = None /\ save = None
    /\ page' = "new"
    /\ initNew(k, ed.name)
    /\ UNCHANGED netVars
    /\ Rearm

\* Leaving unmounts the page, which resets the store.
Leave ==
    /\ page # "closed"
    /\ page' = "closed"
    /\ ed' = EmptyStore /\ snapshot' = None /\ known' = None
    /\ UNCHANGED netVars
    /\ Rearm

\* A refetch that nobody in the editor asked for (a reconnect).
Refetch ==
    /\ page = "edit" /\ fetch = None /\ server # None
    /\ fetch' = Sent
    /\ UNCHANGED <<server, page, failed, coreData, save, ed, snapshot, applyTimer, syncTimer, known>>

FetchAnswered ==
    /\ fetch = Sent /\ server # None
    /\ fetch' = server
    /\ UNCHANGED <<server, page, failed, coreData, save, ed, snapshot, applyTimer, syncTimer, known>>

\* Mutant: the data replaces the draft whether or not it was edited.
FollowServer_Always(core) ==
    IF ~ed.hydrated \/ ed.isNew
    THEN \E d \in Loaded(core.kind, core.config) : initFromCore(core, d, FALSE)
    ELSE IF ed.hydratedJson # core.config
    THEN \E d \in Loaded(core.kind, core.config) : initFromCore(core, d, TRUE)
    ELSE UNCHANGED <<ed, snapshot, known>>

\* The page's effect on new data: another core is loaded, a clean draft
\* follows the server, an edited one is left alone.
FollowServer(core) ==
    IF ~ed.hydrated \/ ed.isNew
    THEN \E d \in Loaded(core.kind, core.config) : initFromCore(core, d, FALSE)
    ELSE IF ~HasActualChanges /\ ed.hydratedJson # core.config
    THEN \E d \in Loaded(core.kind, core.config) : initFromCore(core, d, TRUE)
    ELSE UNCHANGED <<ed, snapshot, known>>

\* Data equal to the cached one is no change, and runs no effect.
FetchArrives ==
    /\ fetch \notin {None, Sent}
    /\ coreData' = fetch /\ fetch' = None /\ failed' = FALSE
    /\ IF page = "edit" /\ coreData # fetch
       THEN FollowServer(fetch)
       ELSE UNCHANGED <<ed, snapshot, known>>
    /\ UNCHANGED <<server, page, save>>
    /\ Rearm

\* The page shows its error message instead of the editor.
FetchFails ==
    /\ fetch = Sent
    /\ fetch' = None /\ failed' = TRUE
    /\ UNCHANGED <<server, page, coreData, save, ed, snapshot, known>>
    /\ Rearm

\* Another administrator saves the core.
OthersSave(core) ==
    /\ server # None /\ core # server
    /\ server' = core
    /\ UNCHANGED <<page, failed, coreData, fetch, save, ed, snapshot, applyTimer, syncTimer, known>>

-----------------------------------------------------------------------------
(* Saving *)

handleSave ==
    /\ Visible /\ save = None
    /\ page = "new" \/ HasActualChanges
    /\ ed.name # NoName /\ ed.draft \in Savable
    /\ Unmerged => LeavesJsonEarly
    /\ save' = [data |-> [kind |-> ed.kind, name |-> ed.name, config |-> ed.draft,
                          tags |-> IF ed.kind = "xray" THEN ed.tags ELSE NoTags],
                create |-> page = "new", applied |-> FALSE]
    /\ UNCHANGED <<server, page, failed, coreData, fetch, ed, snapshot, applyTimer, syncTimer, known>>

SaveApplied ==
    /\ save # None /\ ~save.applied
    /\ server' = save.data
    /\ save' = [save EXCEPT !.applied = TRUE]
    /\ UNCHANGED <<page, failed, coreData, fetch, ed, snapshot, applyTimer, syncTimer, known>>

\* The answer: the store is marked clean, whatever it holds by now, and the
\* core is fetched again; after a create the page moves to the new core.
SaveAnswered ==
    /\ save # None /\ save.applied
    /\ save' = None
    /\ markClean
    /\ known' = IF ed.hydrated THEN save.data.config ELSE known
    /\ IF save.create
       THEN page' = "edit" /\ failed' = FALSE /\ fetch' = Sent
       ELSE /\ fetch' = IF page = "edit" THEN Sent ELSE fetch
            /\ UNCHANGED <<page, failed>>
    /\ UNCHANGED <<server, coreData>>
    /\ Rearm

\* Refused, or the answer is lost.
SaveFails ==
    /\ save # None
    /\ save' = None
    /\ UNCHANGED <<server, page, failed, coreData, fetch, ed, snapshot, applyTimer, syncTimer, known>>

-----------------------------------------------------------------------------
User ==
    \/ OpenExisting \/ Leave \/ discardDraft \/ RefreshPreview \/ handleSave
    \/ \E k \in Kinds : OpenNew(k) \/ ChooseKind(k)
    \/ \E t \in Texts : TypeJson(t)
    \/ \E d \in Normal : EditDraft(d)
    \/ \E n \in Names : setCoreName(n)
    \/ \E g \in TagSets : setInboundTags(g)
    \/ \E s \in {"form", "advanced"} : GoToSection(s)

\* What happens in the editor without its user.
Background ==
    \/ ApplyFires \/ SyncFires
    \/ FetchAnswered \/ FetchArrives \/ FetchFails \/ Refetch
    \/ SaveApplied \/ SaveAnswered \/ SaveFails

Others == \E core \in OthersCores : OthersSave(core)

Next == User \/ Background \/ Others

Spec == Init /\ [][Next]_vars

\* A timer that is not restarted fires.
FairSpec == Spec /\ WF_vars(ApplyFires)

-----------------------------------------------------------------------------
(* Properties *)

(* The save bar says "All changes saved" exactly when selectCoreEditorHas-   *)
(* ActualChanges finds none.  What is shown is then what the server is known *)
(* to have, whatever was loaded, typed, saved, refused or discarded.         *)
CleanMeansSaved == ed.hydrated /\ ~HasActualChanges => currentConfig = known

(* No timer, refetch or late answer replaces a draft that has edits the      *)
(* server does not have, except by the text its user typed.                  *)
EditsSurvive ==
    [][Background /\ currentConfig # known =>
          \/ ed'.draft = ed.draft
          \/ Unmerged /\ ed'.draft \in Applied(ed.kind, ed.monaco)]_vars

(* No timer, refetch or late answer replaces text typed into the JSON pane   *)
(* that is not merged into the draft yet.                                    *)
TypedTextSurvives ==
    [][Background /\ Unmerged /\ ed.monaco # ed.baseline =>
          \/ ed'.monaco = ed.monaco /\ ed'.monacoDirty
          \/ ed'.draft \in Applied(ed.kind, ed.monaco)]_vars

(* "Valid JSON is merged into the draft automatically after you stop typing" *)
(* (the hint under the pane): then the pane does not stay ahead of the draft *)
(* while it is shown, also after an error page has come and gone.            *)
TypedIsMerged ==
    <>[][\A t \in Texts : ~TypeJson(t)]_vars
        => (Unmerged /\ Mounted) ~> (~Unmerged \/ ~Mounted)

-----------------------------------------------------------------------------
(* Why *)

\* A store that holds a core holds a draft of it and what it was saved as.
Filled ==
    /\ ed.hydrated => /\ ed.kind \in Kinds /\ ed.draft \in Normal
                      /\ snapshot \in Snapshot
                      /\ snapshot.kind \in Kinds /\ snapshot.draft \in Normal
    /\ ~ed.hydrated => ed.draft = None /\ known = None
    /\ ed.monacoDirty => ed.hydrated /\ ed.monaco \in Texts
    /\ page = "new" => ed.hydrated
    /\ page = "closed" => ~ed.hydrated
    /\ save # None => save.data.config \in Normal

\* The merge is pending only while the pane is shown with typed text.
TimerHasText == applyTimer => Mounted /\ ed.monacoDirty

\* What a discard brings back, and what a draft of the saved kind is compared
\* with, is what the server is known to have.
BaselineKnown ==
    ed.hydrated => /\ snapshot.draft = known
                   /\ ed.kind = snapshot.kind => ed.baseline = known

\* A save sends the draft, which stays as it is until the answer.
SaveIsDraft ==
    save # None =>
        /\ ed.hydrated => ed.draft = save.data.config /\ ~Unmerged
        /\ page = "edit" => ~ed.isNew /\ HasActualChanges

\* A core that was just created has no edits until it is loaded.
CreatedIsClean ==
    page = "edit" /\ ed.hydrated /\ ed.isNew => ~ed.monacoDirty /\ ed.draft = known

(* The inductive invariant behind CleanMeansSaved, EditsSurvive and          *)
(* TypedTextSurvives, for a user who keeps to the three restrictions.        *)
EditorProtocol == Filled /\ TimerHasText /\ BaselineKnown /\ SaveIsDraft /\ CreatedIsClean
=============================================================================
