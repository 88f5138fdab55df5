-------------------------- MODULE CoreEditorProofs --------------------------
(***************************************************************************)
(* Proofs about the core editor, for any kinds, configurations and         *)
(* adapters.                                                               *)
(***************************************************************************)
EXTENDS CoreEditor, TLAPS

-----------------------------------------------------------------------------
(* The adapters and the store's functions *)

\* The adapters make drafts.
LEMMA AdaptersGiveDrafts ==
    /\ \A k, c : c \in Configs => Loaded(k, c) \subseteq Normal
    /\ \A k, t : t \in Texts => Applied(k, t) \subseteq Normal
BY ConfigsAssumption DEF Loaded, Applied, Configs, Texts

\* A draft is text that the JSON pane can show.
LEMMA DraftsAreTexts == Normal \subseteq Configs /\ Normal \subseteq Texts
BY DEF Configs, Texts

\* What a new draft leaves in the store.
LEMMA PristineStore ==
    ASSUME NEW e \in Store, NEW k \in Kinds \cup {"xray"}, NEW name \in Names,
           NEW tags \in TagSets, NEW d \in Normal
    PROVE  /\ Pristine(e, k, name, tags, d) \in Store
           /\ Pristine(e, k, name, tags, d).hydrated
           /\ Pristine(e, k, name, tags, d).isNew = e.isNew
           /\ Pristine(e, k, name, tags, d).kind = k
           /\ Pristine(e, k, name, tags, d).draft = d
           /\ Pristine(e, k, name, tags, d).baseline = d
           /\ ~Pristine(e, k, name, tags, d).monacoDirty
           /\ Pristine(e, k, name, tags, d).section = e.section
BY DraftsAreTexts DEF Pristine, Store

\* A snapshot repeats the store.
LEMMA SnapshotOfStore ==
    ASSUME NEW e \in Store
    PROVE  /\ captureSnapshot(e) \in Snapshot
           /\ captureSnapshot(e).kind = e.kind
           /\ captureSnapshot(e).draft = e.draft
           /\ captureSnapshot(e).name = e.name
           /\ captureSnapshot(e).tags = e.tags
BY DEF captureSnapshot, Store, Snapshot

\* Refreshing the pane touches nothing but its text.
LEMMA SyncedStore ==
    ASSUME NEW e \in Store
    PROVE  LET f == syncMonacoFromDraft(e)
           IN  /\ f \in Store
               /\ f.hydrated = e.hydrated /\ f.isNew = e.isNew /\ f.kind = e.kind
               /\ f.name = e.name /\ f.tags = e.tags
               /\ f.draft = e.draft /\ f.baseline = e.baseline /\ f.section = e.section
               /\ e.draft # None => ~f.monacoDirty
               /\ e.draft = None => f = e
<1>1. CASE e.draft = None
  BY <1>1 DEF syncMonacoFromDraft
<1>2. CASE e.draft # None
  <2>1. e.draft \in Texts
    BY <1>2, DraftsAreTexts DEF Store
  <2>2. syncMonacoFromDraft(e) = [e EXCEPT !.monaco = e.draft, !.monacoDirty = FALSE]
    BY <1>2 DEF syncMonacoFromDraft
  <2> QED BY <1>2, <2>1, <2>2 DEF Store
<1> QED BY <1>1, <1>2

\* The store before anything is loaded.
LEMMA EmptyIsStore ==
    /\ EmptyStore \in Store
    /\ ~EmptyStore.hydrated /\ EmptyStore.draft = None /\ ~EmptyStore.monacoDirty
BY SettingsAssumption DEF EmptyStore, Store

\* What loading a core leaves.
LEMMA LoadedStore ==
    ASSUME ed \in Store, NEW core \in Core, NEW d \in Normal, NEW nav \in BOOLEAN,
           initFromCore(core, d, nav)
    PROVE  /\ ed' \in Store /\ snapshot' \in Snapshot /\ known' = d
           /\ ed'.hydrated /\ ~ed'.isNew /\ ~ed'.monacoDirty
           /\ ed'.kind = core.kind /\ ed'.draft = d /\ ed'.baseline = d
           /\ snapshot'.kind = core.kind /\ snapshot'.draft = d
<1> DEFINE tags == IF core.kind = "xray" THEN core.tags ELSE NoTags
           text == IF core.kind = "wg" /\ Import[core.config] = NotImported
                   THEN core.config ELSE d
           place == IF nav THEN ed.section ELSE "form"
           e == Pristine(ed, core.kind, core.name, tags, d)
<1>1. /\ core.kind \in Kinds /\ core.name \in Names /\ core.config \in Configs
      /\ tags \in TagSets
  BY SettingsAssumption DEF Core
<1>2. text \in Texts /\ place \in {"form", "advanced"}
  BY <1>1, DraftsAreTexts DEF Texts, Store
<1>3. /\ ed' = [e EXCEPT !.isNew = FALSE, !.monaco = text, !.section = place,
                         !.hydratedJson = core.config]
      /\ snapshot' = captureSnapshot(ed') /\ known' = d
  BY DEF initFromCore
<1>4. /\ e \in Store /\ e.hydrated /\ ~e.monacoDirty
      /\ e.kind = core.kind /\ e.draft = d /\ e.baseline = d
  BY <1>1, PristineStore
<1> HIDE DEF tags, text, place, e
<1>5. /\ ed' \in Store /\ ed'.hydrated /\ ~ed'.isNew /\ ~ed'.monacoDirty
      /\ ed'.kind = core.kind /\ ed'.draft = d /\ ed'.baseline = d
  BY <1>1, <1>2, <1>3, <1>4 DEF Store
<1> QED BY <1>3, <1>5, SnapshotOfStore

\* What starting a new core leaves.
LEMMA NewStore ==
    ASSUME ed \in Store, NEW k \in Kinds, NEW name \in Names, initNew(k, name)
    PROVE  /\ ed' \in Store /\ snapshot' \in Snapshot /\ known' = Fresh
           /\ ed'.hydrated /\ ed'.isNew /\ ~ed'.monacoDirty
           /\ ed'.kind = k /\ ed'.draft = Fresh /\ ed'.baseline = Fresh
           /\ snapshot'.kind = k /\ snapshot'.draft = Fresh
<1> DEFINE e == Pristine(ed, k, name, NoTags, Fresh)
<1>1. /\ ed' = [e EXCEPT !.isNew = TRUE, !.section = "form", !.hydratedJson = None]
      /\ snapshot' = captureSnapshot(ed') /\ known' = Fresh
  BY DEF initNew
<1>2. /\ e \in Store /\ e.hydrated /\ ~e.monacoDirty
      /\ e.kind = k /\ e.draft = Fresh /\ e.baseline = Fresh
  BY SettingsAssumption, ConfigsAssumption, PristineStore
<1> HIDE DEF e
<1>3. /\ ed' \in Store /\ ed'.hydrated /\ ed'.isNew /\ ~ed'.monacoDirty
      /\ ed'.kind = k /\ ed'.draft = Fresh /\ ed'.baseline = Fresh
  BY <1>1, <1>2 DEF Store
<1> QED BY <1>1, <1>3, SnapshotOfStore

\* What a discard brings back.
LEMMA DiscardedStore ==
    ASSUME NEW e \in Store, NEW s \in Snapshot, s.draft \in Normal
    PROVE  LET f == applyPersistedSnapshot(e, s)
           IN  /\ f \in Store /\ f.hydrated /\ f.isNew = e.isNew /\ ~f.monacoDirty
               /\ f.kind = s.kind /\ f.draft = s.draft /\ f.baseline = s.draft
<1> DEFINE tags == IF s.kind \in {"xray", "wg"} THEN s.tags ELSE NoTags
           g == Pristine(e, s.kind, s.name, tags, s.draft)
<1>1. applyPersistedSnapshot(e, s) =
        [g EXCEPT !.monaco = s.monaco, !.section = s.section, !.hydratedJson = s.hydratedJson]
  BY DEF applyPersistedSnapshot
<1>2. /\ s.kind \in Kinds \cup {"xray"} /\ s.name \in Names /\ tags \in TagSets
      /\ s.monaco \in Texts \cup {None} /\ s.section \in {"form", "advanced"}
      /\ s.hydratedJson \in Configs \cup {None}
  BY SettingsAssumption DEF Snapshot
<1>3. /\ g \in Store /\ g.hydrated /\ g.isNew = e.isNew /\ ~g.monacoDirty
      /\ g.kind = s.kind /\ g.draft = s.draft /\ g.baseline = s.draft
  BY <1>2, PristineStore
<1> HIDE DEF tags, g
<1> QED BY <1>1, <1>2, <1>3, ZenonT(40) DEF Store

\* What the answer to a save leaves.
LEMMA CleanStore ==
    ASSUME ed \in Store, markClean
    PROVE  /\ ed' \in Store /\ snapshot' \in Snapshot
           /\ ed'.hydrated = ed.hydrated /\ ed'.isNew = ed.isNew /\ ed'.kind = ed.kind
           /\ ed'.draft = ed.draft /\ snapshot'.kind = ed.kind /\ snapshot'.draft = ed.draft
           /\ ed.draft # None => ~ed'.monacoDirty /\ ed'.baseline = ed.draft
           /\ ed.draft = None => ed' = ed
<1> DEFINE e == IF ed.draft = None THEN ed
                ELSE [ed EXCEPT !.baseline = ed.draft, !.monacoDirty = FALSE]
<1>1. ed' = syncMonacoFromDraft(e) /\ snapshot' = captureSnapshot(ed')
  BY DEF markClean
<1>2. /\ e \in Store /\ e.hydrated = ed.hydrated /\ e.isNew = ed.isNew /\ e.kind = ed.kind
      /\ e.draft = ed.draft
      /\ ed.draft # None => e.baseline = ed.draft
      /\ ed.draft = None => e = ed
  BY DEF Store
<1> HIDE DEF e
<1> QED BY <1>1, <1>2, SyncedStore, SnapshotOfStore

\* A merge that is pending has text, and timers are on or off.
LEMMA RearmTimers ==
    ASSUME TypeOK
    PROVE  /\ RearmApply => applyTimer' \in BOOLEAN /\ TimerHasText'
           /\ RearmSync => syncTimer' \in BOOLEAN
<1>1. RearmApply => applyTimer' \in BOOLEAN /\ TimerHasText'
  BY DEF RearmApply, TimerHasText
<1>2. RearmSync => syncTimer' \in BOOLEAN
  BY DEF RearmSync, TypeOK
<1> QED BY <1>1, <1>2

-----------------------------------------------------------------------------
(* Types *)

\* The part of the protocol that needs no restriction of the user.
Typed == TypeOK /\ Filled /\ TimerHasText

\* The state of the store, apart from the timers, after a step that leaves the
\* network alone.
LEMMA LocalStep ==
    ASSUME Typed, UNCHANGED <<netVars, page>>, ed' \in Store,
           snapshot' = snapshot, known' = known,
           ed'.hydrated = ed.hydrated, ed'.kind = ed.kind,
           ed.hydrated => ed'.draft \in Normal, ~ed.hydrated => ed'.draft = None,
           ed'.monacoDirty => ed.hydrated /\ ed'.monaco \in Texts,
           applyTimer' \in BOOLEAN, syncTimer' \in BOOLEAN, TimerHasText'
    PROVE  Typed'
BY DEF Typed, TypeOK, Filled, netVars

\* The same for a step that sets up another draft.
LEMMA FreshStep ==
    ASSUME Typed, page' = page, page # "closed", ed' \in Store, ed'.hydrated, ~ed'.monacoDirty,
           UNCHANGED netVars,
           ed'.kind \in Kinds, ed'.draft \in Normal,
           snapshot' \in Snapshot, snapshot'.kind \in Kinds, snapshot'.draft \in Normal,
           known' \in Normal \cup {None},
           applyTimer' \in BOOLEAN, syncTimer' \in BOOLEAN, TimerHasText'
    PROVE  Typed'
BY DEF Typed, TypeOK, Filled, netVars

\* The editor is only shown with a draft, off the closed page.
LEMMA VisibleHasDraft ==
    ASSUME Typed, Visible
    PROVE  ed.hydrated /\ page # "closed" /\ ed.kind \in Kinds /\ ed.draft \in Normal
           /\ ed.draft # None
BY ConfigsAssumption DEF Typed, Filled, Visible, Configs

\* Every step keeps the types, whatever the user does while a save is under way.
LEMMA TypedStep ==
    ASSUME Typed, [Next]_vars
    PROVE  Typed'
<1> USE DEF Typed
<1>R. Rearm => applyTimer' \in BOOLEAN /\ syncTimer' \in BOOLEAN /\ TimerHasText'
  BY RearmTimers DEF Rearm
<1>D. ed \in Store
  BY DEF TypeOK
<1>1. ASSUME OpenExisting PROVE Typed'
  <2>1. CASE coreData = None
    BY <1>1, <1>R, <2>1 DEF OpenExisting, TypeOK, Filled
  <2>2. CASE coreData # None
    <3>1. PICK d \in Loaded(coreData.kind, coreData.config) : initFromCore(coreData, d, FALSE)
      BY <1>1, <2>2 DEF OpenExisting
    <3>2. coreData \in Core /\ coreData.config \in Configs /\ coreData.kind \in Kinds
      BY <2>2 DEF TypeOK, Core
    <3>3. d \in Normal
      BY <3>1, <3>2, AdaptersGiveDrafts
    <3> QED BY <1>1, <1>R, <1>D, <3>1, <3>2, <3>3, <2>2, LoadedStore DEF OpenExisting, TypeOK, Filled
  <2> QED BY <2>1, <2>2
<1>2. ASSUME NEW k \in Kinds, OpenNew(k) PROVE Typed'
  <2>1. ed.name \in Names /\ Fresh \in Normal
    BY <1>D, ConfigsAssumption DEF Store
  <2> QED BY <1>2, <1>R, <1>D, <2>1, NewStore DEF OpenNew, TypeOK, Filled, netVars
<1>3. ASSUME Leave PROVE Typed'
  BY <1>3, <1>R, EmptyIsStore DEF Leave, TypeOK, Filled, netVars
<1>4. ASSUME discardDraft PROVE Typed'
  <2>1. ed.hydrated /\ page # "closed"
    BY <1>4, VisibleHasDraft DEF discardDraft
  <2>2. snapshot \in Snapshot /\ snapshot.kind \in Kinds /\ snapshot.draft \in Normal
    BY <2>1 DEF Filled
  <2>3. LET f == applyPersistedSnapshot(ed, snapshot)
        IN  f \in Store /\ f.hydrated /\ ~f.monacoDirty
            /\ f.kind = snapshot.kind /\ f.draft = snapshot.draft
    BY <1>D, <2>2, DiscardedStore
  <2>4. known \in Normal \cup {None}
    BY DEF TypeOK
  <2> QED BY <1>4, <1>R, <2>1, <2>2, <2>3, <2>4, FreshStep DEF discardDraft
<1>5. ASSUME RefreshPreview PROVE Typed'
  <2>1. ed' = syncMonacoFromDraft(ed) /\ ed.hydrated /\ ed.draft # None /\ ed.draft \in Normal
    BY <1>5, VisibleHasDraft DEF RefreshPreview
  <2> QED BY <1>5, <1>R, <1>D, <2>1, SyncedStore, LocalStep DEF RefreshPreview
<1>6. ASSUME handleSave PROVE Typed'
  <2>1. ed.kind \in Kinds /\ ed.draft \in Normal /\ ed.name \in Names /\ ed.tags \in TagSets
    BY <1>6, <1>D, VisibleHasDraft DEF handleSave, Store
  <2>2. save'.data \in Core /\ save' \in [data : Core, create : BOOLEAN, applied : BOOLEAN]
        /\ save'.data.config \in Normal
    BY <1>6, <2>1, DraftsAreTexts, SettingsAssumption DEF handleSave, Core
  <2> QED BY <1>6, <2>2 DEF handleSave, TypeOK, Filled, TimerHasText, Mounted, Visible
<1>7. ASSUME NEW k \in Kinds, ChooseKind(k) PROVE Typed'
  <2>1. ed.name \in Names /\ Fresh \in Normal /\ ed.hydrated /\ page # "closed" /\ NoTags \in TagSets
    BY <1>7, <1>D, ConfigsAssumption, SettingsAssumption, VisibleHasDraft DEF Store, ChooseKind
  <2>2. CASE page = "new"
    BY <1>7, <1>R, <1>D, <2>1, <2>2, NewStore, FreshStep DEF ChooseKind
  <2>3. CASE page # "new"
    <3> DEFINE e == Pristine(ed, k, ed.name, NoTags, Fresh)
    <3>1. ed' = [e EXCEPT !.section = "form"] /\ UNCHANGED <<snapshot, known>>
      BY <1>7, <2>3 DEF ChooseKind
    <3>2. e \in Store /\ e.hydrated /\ ~e.monacoDirty /\ e.kind = k /\ e.draft = Fresh
      BY <1>D, <2>1, PristineStore
    <3> HIDE DEF e
    <3>3. ed' \in Store /\ ed'.hydrated /\ ~ed'.monacoDirty /\ ed'.kind = k /\ ed'.draft = Fresh
      BY <3>1, <3>2 DEF Store
    <3>4. /\ snapshot' \in Snapshot /\ snapshot'.kind \in Kinds /\ snapshot'.draft \in Normal
          /\ known' \in Normal \cup {None}
      BY <2>1, <3>1 DEF Filled, TypeOK
    <3> QED BY <1>7, <1>R, <2>1, <3>3, <3>4, FreshStep DEF ChooseKind
  <2> QED BY <2>2, <2>3
<1>8. ASSUME NEW t \in Texts, TypeJson(t) PROVE Typed'
  <2>1. ed.hydrated /\ ed.draft \in Normal
    BY <1>8, VisibleHasDraft DEF TypeJson, Mounted
  <2>2. ed' \in Store /\ ed'.hydrated = ed.hydrated /\ ed'.kind = ed.kind /\ ed'.draft = ed.draft
        /\ ed'.monaco = t
    BY <1>8, <1>D DEF TypeJson, Store
  <2> QED BY <1>8, <1>R, <2>1, <2>2, LocalStep DEF TypeJson
<1>9. ASSUME NEW d \in Normal, EditDraft(d) PROVE Typed'
  <2>1. ed.hydrated /\ d # None
    BY <1>9, VisibleHasDraft, ConfigsAssumption DEF EditDraft, Configs
  <2> DEFINE e == [ed EXCEPT !.draft = d]
  <2>2. e \in Store /\ e.hydrated = ed.hydrated /\ e.kind = ed.kind /\ e.draft = d
    BY <1>D DEF Store
  <2>3. ed' = syncMonacoFromDraft(e)
    BY <1>9 DEF EditDraft
  <2> HIDE DEF e
  <2> QED BY <1>9, <1>R, <2>1, <2>2, <2>3, SyncedStore, LocalStep DEF EditDraft
<1>10. ASSUME NEW n \in Names, setCoreName(n) PROVE Typed'
  <2>1. ed' \in Store /\ ed'.hydrated = ed.hydrated /\ ed'.kind = ed.kind /\ ed'.draft = ed.draft
        /\ ed'.monaco = ed.monaco /\ ed'.monacoDirty = ed.monacoDirty
    BY <1>10, <1>D DEF setCoreName, Store
  <2> QED BY <1>10, <1>R, <2>1, LocalStep DEF setCoreName, Filled
<1>11. ASSUME NEW g \in TagSets, setInboundTags(g) PROVE Typed'
  <2>1. ed' \in Store /\ ed'.hydrated = ed.hydrated /\ ed'.kind = ed.kind /\ ed'.draft = ed.draft
        /\ ed'.monaco = ed.monaco /\ ed'.monacoDirty = ed.monacoDirty
    BY <1>11, <1>D DEF setInboundTags, Store
  <2> QED BY <1>11, <1>R, <2>1, LocalStep DEF setInboundTags, Filled
<1>12. ASSUME NEW p \in {"form", "advanced"}, GoToSection(p) PROVE Typed'
  <2>1. ed' \in Store /\ ed'.hydrated = ed.hydrated /\ ed'.kind = ed.kind /\ ed'.draft = ed.draft
        /\ ed'.monaco = ed.monaco /\ ed'.monacoDirty = ed.monacoDirty
    BY <1>12, <1>D DEF GoToSection, Store
  <2> QED BY <1>12, <1>R, <2>1, LocalStep DEF GoToSection, Filled
<1>13. ASSUME ApplyFires PROVE Typed'
  <2>1. CASE Applied(ed.kind, ed.monaco) = {} /\ applyTimer' = FALSE /\ UNCHANGED <<ed, syncTimer>>
    BY <1>13, <2>1, ZenonT(40) DEF ApplyFires, TypeOK, Filled, TimerHasText, netVars
  <2>2. ASSUME NEW d \in Applied(ed.kind, ed.monaco),
               ed' = [ed EXCEPT !.draft = d, !.monacoDirty = FALSE], Rearm
        PROVE  Typed'
    <3>1. ed.hydrated /\ ed.monaco \in Texts
      BY <1>13 DEF ApplyFires, TimerHasText, Filled
    <3>2. d \in Normal
      BY <3>1, AdaptersGiveDrafts
    <3>3. ed' \in Store /\ ed'.hydrated = ed.hydrated /\ ed'.kind = ed.kind /\ ed'.draft = d
          /\ ~ed'.monacoDirty
      BY <1>D, <2>2, <3>2 DEF Store
    <3> QED BY <1>13, <1>R, <2>2, <3>1, <3>2, <3>3, LocalStep DEF ApplyFires
  <2> QED BY <1>13, <2>1, <2>2 DEF ApplyFires
<1>14. ASSUME SyncFires PROVE Typed'
  <2>1. /\ ed' \in Store /\ ed'.hydrated = ed.hydrated /\ ed'.kind = ed.kind
        /\ ed'.draft = ed.draft
        /\ ed'.monacoDirty => ed' = ed
    BY <1>14, <1>D, SyncedStore DEF SyncFires
  <2>2. applyTimer' \in BOOLEAN /\ TimerHasText' /\ syncTimer' \in BOOLEAN
    BY <1>14, RearmTimers DEF SyncFires
  <2> QED BY <1>14, <2>1, <2>2, LocalStep DEF SyncFires, Filled
<1>15. ASSUME FetchAnswered PROVE Typed'
  BY <1>15 DEF FetchAnswered, TypeOK, Filled, TimerHasText, Mounted, Visible
<1>16. ASSUME FetchArrives PROVE Typed'
  <2>0. fetch \in Core
    BY <1>16 DEF FetchArrives, TypeOK
  <2>1. ASSUME UNCHANGED <<ed, snapshot, known>> PROVE Typed'
    BY <1>16, <1>R, <2>0, <2>1 DEF FetchArrives, TypeOK, Filled
  <2>2. ASSUME page = "edit", NEW nav \in BOOLEAN,
               NEW d \in Loaded(fetch.kind, fetch.config), initFromCore(fetch, d, nav)
        PROVE  Typed'
    <3>1. fetch.config \in Configs /\ fetch.kind \in Kinds
      BY <2>0 DEF Core
    <3>2. d \in Normal
      BY <2>2, <3>1, AdaptersGiveDrafts
    <3> QED BY <1>16, <1>R, <1>D, <2>0, <2>2, <3>1, <3>2, LoadedStore, ZenonT(40) DEF FetchArrives, TypeOK, Filled
  <2> QED BY <1>16, <2>1, <2>2 DEF FetchArrives, FollowServer
<1>17. ASSUME FetchFails PROVE Typed'
  BY <1>17, <1>R DEF FetchFails, TypeOK, Filled
<1>18. ASSUME Refetch PROVE Typed'
  BY <1>18 DEF Refetch, TypeOK, Filled, TimerHasText, Mounted, Visible
<1>19. ASSUME SaveApplied PROVE Typed'
  <2>1. /\ save \in [data : Core, create : BOOLEAN, applied : BOOLEAN]
        /\ save' \in [data : Core, create : BOOLEAN, applied : BOOLEAN]
        /\ save'.data = save.data /\ save.data \in Core
    BY <1>19 DEF SaveApplied, TypeOK
  <2> QED BY <1>19, <2>1 DEF SaveApplied, TypeOK, Filled, TimerHasText, Mounted, Visible
<1>20. ASSUME SaveAnswered PROVE Typed'
  <2>1. /\ ed' \in Store /\ snapshot' \in Snapshot
        /\ ed'.hydrated = ed.hydrated /\ ed'.kind = ed.kind
        /\ ed'.draft = ed.draft /\ snapshot'.kind = ed.kind /\ snapshot'.draft = ed.draft
        /\ ed.draft # None => ~ed'.monacoDirty
        /\ ed.draft = None => ed' = ed
    BY <1>20, <1>D, CleanStore DEF SaveAnswered
  <2>2. known' \in Normal \cup {None} /\ (~ed.hydrated => known' = known)
    BY <1>20 DEF SaveAnswered, Filled, TypeOK
  <2> QED BY <1>20, <1>R, <2>1, <2>2 DEF SaveAnswered, TypeOK, Filled
<1>21. ASSUME SaveFails PROVE Typed'
  BY <1>21 DEF SaveFails, TypeOK, Filled, TimerHasText, Mounted, Visible
<1>22. ASSUME NEW core \in OthersCores, OthersSave(core) PROVE Typed'
  BY <1>22, OthersAssumption DEF OthersSave, TypeOK, Filled, TimerHasText, Mounted, Visible
<1>23. ASSUME UNCHANGED vars PROVE Typed'
  BY <1>23 DEF vars, TypeOK, Filled, TimerHasText, Mounted, Visible
<1> QED
  BY <1>1, <1>2, <1>3, <1>4, <1>5, <1>6, <1>7, <1>8, <1>9, <1>10, <1>11, <1>12, <1>13, <1>14,
     <1>15, <1>16, <1>17, <1>18, <1>19, <1>20, <1>21, <1>22, <1>23 DEF Next, User, Background, Others

LEMMA TypedInit == Init => Typed
BY EmptyIsStore, OthersAssumption DEF Init, Typed, TypeOK, Filled, TimerHasText

LEMMA TypedInvariant == Spec => []Typed
BY TypedInit, TypedStep, PTL DEF Spec

\* The editor's state has its types in every behaviour, also when the user
\* edits during a save, leaves typed JSON unmerged or returns to a kind.
THEOREM TypeCorrect == Spec => []TypeOK
<1>1. Typed => TypeOK
  BY DEF Typed
<1> QED BY <1>1, TypedInvariant, PTL

-----------------------------------------------------------------------------
(* What the save bar says *)

\* A user who waits for a save, does not return to the kind last saved, and
\* lets typed JSON be merged before leaving it.
Careful == ~EditsWhileSaving /\ ~SwitchesBack /\ ~LeavesJsonEarly

\* The part of the protocol that such a user keeps.
Settled == BaselineKnown /\ SaveIsDraft /\ CreatedIsClean

\* No difference from what was saved means that the server has what is shown.
LEMMA CleanIsSaved ==
    ASSUME BaselineKnown
    PROVE  CleanMeansSaved
BY DEF BaselineKnown, CleanMeansSaved, HasActualChanges

\* A step outside a save that leaves the snapshot alone and keeps the draft's
\* origin.
LEMMA EditKeepsBaseline ==
    ASSUME Typed, Settled, Visible, save = None, UNCHANGED <<save, page, snapshot, known>>,
           ed'.hydrated, ed'.isNew = ed.isNew,
           \/ ed'.kind = ed.kind /\ ed'.baseline = ed.baseline
           \/ ed'.kind # snapshot.kind
           \/ ed'.baseline = known
    PROVE  Settled'
<1>1. ed.hydrated
  BY VisibleHasDraft
<1>2. ~(page = "edit" /\ ed.isNew)
  BY DEF Visible
<1> QED BY <1>1, <1>2 DEF Settled, BaselineKnown, SaveIsDraft, CreatedIsClean

\* A step that changes neither draft nor baseline, nor text that was typed.
LEMMA SameDraftStep ==
    ASSUME Typed, Settled, UNCHANGED <<save, page, snapshot, known>>,
           ed'.hydrated = ed.hydrated, ed'.isNew = ed.isNew, ed'.kind = ed.kind,
           ed'.name = ed.name, ed'.tags = ed.tags, ed'.draft = ed.draft,
           ed'.baseline = ed.baseline, ed'.monacoDirty = ed.monacoDirty,
           ed.monacoDirty => ed'.monaco = ed.monaco
    PROVE  Settled'
<1>1. Unmerged' = Unmerged /\ currentConfig' = currentConfig
  BY DEF Unmerged, currentConfig
<1>2. HasActualChanges' = HasActualChanges
  BY <1>1 DEF HasActualChanges
<1> QED BY <1>1, <1>2 DEF Settled, BaselineKnown, SaveIsDraft, CreatedIsClean

\* A step that sets up a draft the server is known to have, outside a save.
LEMMA LoadStep ==
    ASSUME save' = None, ed'.draft = known', ed'.baseline = known',
           snapshot'.draft = known', ~ed'.monacoDirty
    PROVE  Settled'
BY DEF Settled, BaselineKnown, SaveIsDraft, CreatedIsClean

\* Every step of a careful user, of the timers and of the network keeps the
\* protocol.
LEMMA SettledStep ==
    ASSUME Careful, Typed, Settled, [Next]_vars
    PROVE  Settled'
<1>D. ed \in Store
  BY DEF Typed, TypeOK
<1>F. Filled /\ TimerHasText
  BY DEF Typed
<1>1. ASSUME OpenExisting PROVE Settled'
  <2>1. save = None /\ save' = None
    BY <1>1 DEF OpenExisting, Careful
  <2>2. CASE coreData = None
    <3>1. ~ed.hydrated /\ UNCHANGED ed
      BY <1>1, <1>F, <2>2 DEF OpenExisting, Filled
    <3> QED BY <2>1, <3>1 DEF Settled, BaselineKnown, SaveIsDraft, CreatedIsClean
  <2>3. CASE coreData # None
    <3>1. PICK d \in Loaded(coreData.kind, coreData.config) : initFromCore(coreData, d, FALSE)
      BY <1>1, <2>3 DEF OpenExisting
    <3>2. coreData \in Core /\ coreData.config \in Configs
      BY <2>3 DEF Typed, TypeOK, Core
    <3>3. d \in Normal
      BY <3>1, <3>2, AdaptersGiveDrafts
    <3>4. /\ ed'.draft = d /\ ed'.baseline = d /\ ~ed'.monacoDirty
          /\ snapshot'.draft = d /\ known' = d
      BY <1>D, <3>1, <3>2, <3>3, LoadedStore
    <3> QED BY <2>1, <3>4, LoadStep
  <2> QED BY <2>2, <2>3
<1>2. ASSUME NEW k \in Kinds, OpenNew(k) PROVE Settled'
  <2>1. ed.name \in Names
    BY <1>D DEF Store
  <2> QED BY <1>2, <1>D, <2>1, NewStore, LoadStep DEF OpenNew, netVars
<1>3. ASSUME Leave PROVE Settled'
  BY <1>3, EmptyIsStore DEF Leave, Settled, BaselineKnown, SaveIsDraft, CreatedIsClean
<1>4. ASSUME discardDraft PROVE Settled'
  <2>1. ed.hydrated /\ save = None
    BY <1>4, VisibleHasDraft DEF discardDraft, Careful
  <2>2. snapshot \in Snapshot /\ snapshot.draft \in Normal /\ snapshot.draft = known
    BY <1>F, <2>1 DEF Filled, Settled, BaselineKnown
  <2> QED BY <1>4, <1>D, <2>1, <2>2, DiscardedStore, LoadStep DEF discardDraft, netVars
<1>5. ASSUME RefreshPreview PROVE Settled'
  <2>1. ed' = syncMonacoFromDraft(ed) /\ ed.hydrated /\ save = None
    BY <1>5, VisibleHasDraft DEF RefreshPreview, Careful
  <2> QED BY <1>5, <1>D, <2>1, SyncedStore, EditKeepsBaseline DEF RefreshPreview, netVars
<1>6. ASSUME handleSave PROVE Settled'
  <2>1. save'.data.config = ed.draft /\ ~Unmerged /\ (page = "edit" => ~ed.isNew /\ HasActualChanges)
    BY <1>6 DEF handleSave, Careful, Visible
  <2>2. UNCHANGED <<ed, page, snapshot, known>>
    BY <1>6 DEF handleSave
  <2>3. Unmerged' = Unmerged /\ HasActualChanges' = HasActualChanges
    BY <2>2 DEF Unmerged, HasActualChanges, currentConfig
  <2> QED BY <2>1, <2>2, <2>3 DEF Settled, BaselineKnown, SaveIsDraft, CreatedIsClean
<1>7. ASSUME NEW k \in Kinds, ChooseKind(k) PROVE Settled'
  <2>1. save = None /\ save' = None /\ ed.name \in Names /\ Fresh \in Normal /\ NoTags \in TagSets
    BY <1>7, <1>D, ConfigsAssumption, SettingsAssumption DEF ChooseKind, Careful, Store, netVars
  <2>2. CASE page = "new"
    BY <1>7, <1>D, <2>1, <2>2, NewStore, LoadStep DEF ChooseKind
  <2>3. CASE page # "new"
    <3> DEFINE e == Pristine(ed, k, ed.name, NoTags, Fresh)
    <3>1. ed' = [e EXCEPT !.section = "form"] /\ UNCHANGED <<snapshot, known>> /\ k # snapshot.kind
      BY <1>7, <2>3 DEF ChooseKind, Careful
    <3>2. e \in Store /\ e.hydrated /\ e.isNew = ed.isNew /\ e.kind = k
      BY <1>D, <2>1, PristineStore
    <3> HIDE DEF e
    <3>3. ed'.hydrated /\ ed'.isNew = ed.isNew /\ ed'.kind # snapshot.kind
      BY <3>1, <3>2 DEF Store
    <3> QED BY <1>7, <2>1, <3>1, <3>3, EditKeepsBaseline DEF ChooseKind
  <2> QED BY <2>2, <2>3
<1>8. ASSUME NEW t \in Texts, TypeJson(t) PROVE Settled'
  <2>1. Visible /\ ed.hydrated /\ save = None
    BY <1>8, VisibleHasDraft DEF TypeJson, Mounted, Careful
  <2>2. ed'.hydrated = ed.hydrated /\ ed'.kind = ed.kind /\ ed'.baseline = ed.baseline
        /\ ed'.isNew = ed.isNew
    BY <1>8, <1>D DEF TypeJson, Store
  <2> QED BY <1>8, <2>1, <2>2, EditKeepsBaseline DEF TypeJson, netVars
<1>9. ASSUME NEW d \in Normal, EditDraft(d) PROVE Settled'
  <2>1. Visible /\ ed.hydrated /\ save = None
    BY <1>9, VisibleHasDraft DEF EditDraft, Careful
  <2> DEFINE e == [ed EXCEPT !.draft = d]
  <2>2. /\ e \in Store /\ e.hydrated = ed.hydrated /\ e.kind = ed.kind /\ e.baseline = ed.baseline
        /\ e.isNew = ed.isNew
    BY <1>D DEF Store
  <2>3. ed' = syncMonacoFromDraft(e)
    BY <1>9 DEF EditDraft
  <2> HIDE DEF e
  <2> QED BY <1>9, <2>1, <2>2, <2>3, SyncedStore, EditKeepsBaseline DEF EditDraft, netVars
<1>10. ASSUME NEW n \in Names, setCoreName(n) PROVE Settled'
  <2>1. Visible /\ ed.hydrated /\ save = None
    BY <1>10, VisibleHasDraft DEF setCoreName, Careful
  <2>2. /\ ed'.hydrated = ed.hydrated /\ ed'.kind = ed.kind /\ ed'.baseline = ed.baseline
        /\ ed'.isNew = ed.isNew
    BY <1>10, <1>D DEF setCoreName, Store
  <2> QED BY <1>10, <2>1, <2>2, EditKeepsBaseline DEF setCoreName, netVars
<1>11. ASSUME NEW g \in TagSets, setInboundTags(g) PROVE Settled'
  <2>1. Visible /\ ed.hydrated /\ save = None
    BY <1>11, VisibleHasDraft DEF setInboundTags, Careful
  <2>2. /\ ed'.hydrated = ed.hydrated /\ ed'.kind = ed.kind /\ ed'.baseline = ed.baseline
        /\ ed'.isNew = ed.isNew
    BY <1>11, <1>D DEF setInboundTags, Store
  <2> QED BY <1>11, <2>1, <2>2, EditKeepsBaseline DEF setInboundTags, netVars
<1>12. ASSUME NEW p \in {"form", "advanced"}, GoToSection(p) PROVE Settled'
  <2>1. /\ ed'.hydrated = ed.hydrated /\ ed'.isNew = ed.isNew /\ ed'.kind = ed.kind
        /\ ed'.name = ed.name /\ ed'.tags = ed.tags /\ ed'.draft = ed.draft
        /\ ed'.baseline = ed.baseline /\ ed'.monacoDirty = ed.monacoDirty
        /\ ed'.monaco = ed.monaco
    BY <1>12, <1>D DEF GoToSection, Store
  <2> QED BY <1>12, <2>1, SameDraftStep DEF GoToSection, netVars
<1>13. ASSUME ApplyFires PROVE Settled'
  <2>0. Visible /\ ed.hydrated /\ ed.monacoDirty
    BY <1>13, <1>F, VisibleHasDraft DEF ApplyFires, TimerHasText, Mounted
  <2>1. CASE UNCHANGED ed
    BY <1>13, <2>1, SameDraftStep DEF ApplyFires, netVars
  <2>2. ASSUME NEW d \in Applied(ed.kind, ed.monaco),
               ed' = [ed EXCEPT !.draft = d, !.monacoDirty = FALSE]
        PROVE  Settled'
    <3>1. save = None
      BY <2>0, <2>2 DEF Settled, SaveIsDraft, Unmerged
    <3>2. /\ ed'.hydrated = ed.hydrated /\ ed'.kind = ed.kind /\ ed'.baseline = ed.baseline
          /\ ed'.isNew = ed.isNew
      BY <1>D, <2>2 DEF Store
    <3> QED BY <1>13, <2>0, <3>1, <3>2, EditKeepsBaseline DEF ApplyFires, netVars
  <2> QED BY <1>13, <2>1, <2>2 DEF ApplyFires
<1>14. ASSUME SyncFires PROVE Settled'
  <2>1. CASE ed.monacoDirty
    BY <1>14, <2>1, SameDraftStep DEF SyncFires, netVars
  <2>2. CASE ~ed.monacoDirty
    <3>1. ~ed'.monacoDirty
      BY <1>14, <1>D, <2>2, SyncedStore DEF SyncFires
    <3>2. ed'.monacoDirty = ed.monacoDirty
      BY <1>14, <1>D, <2>2 DEF SyncFires, syncMonacoFromDraft, Store
    <3>3. /\ ed'.hydrated = ed.hydrated /\ ed'.isNew = ed.isNew /\ ed'.kind = ed.kind
          /\ ed'.name = ed.name /\ ed'.tags = ed.tags /\ ed'.draft = ed.draft
          /\ ed'.baseline = ed.baseline
      BY <1>14, <1>D, <2>2, SyncedStore DEF SyncFires
    <3> QED BY <1>14, <2>2, <3>2, <3>3, SameDraftStep DEF SyncFires, netVars
  <2> QED BY <2>1, <2>2
<1>15. ASSUME FetchAnswered PROVE Settled'
  BY <1>15, SameDraftStep DEF FetchAnswered
<1>16. ASSUME FetchArrives PROVE Settled'
  <2>1. ASSUME UNCHANGED <<ed, snapshot, known>> PROVE Settled'
    BY <1>16, <2>1, SameDraftStep DEF FetchArrives
  <2>2. ASSUME page = "edit", ~ed.hydrated \/ ed.isNew \/ ~HasActualChanges,
               NEW nav \in BOOLEAN,
               NEW d \in Loaded(fetch.kind, fetch.config), initFromCore(fetch, d, nav)
        PROVE  Settled'
    <3>1. save = None
      BY <2>2 DEF Settled, SaveIsDraft, HasActualChanges
    <3>2. fetch \in Core /\ fetch.config \in Configs
      BY <1>16 DEF FetchArrives, Typed, TypeOK, Core
    <3>3. d \in Normal
      BY <2>2, <3>2, AdaptersGiveDrafts
    <3> QED BY <1>16, <1>D, <2>2, <3>1, <3>2, <3>3, LoadedStore, LoadStep DEF FetchArrives
  <2> QED BY <1>16, <2>1, <2>2 DEF FetchArrives, FollowServer
<1>17. ASSUME FetchFails PROVE Settled'
  BY <1>17, SameDraftStep DEF FetchFails
<1>18. ASSUME Refetch PROVE Settled'
  BY <1>18, SameDraftStep DEF Refetch
<1>19. ASSUME SaveApplied PROVE Settled'
  <2>1. save'.data = save.data /\ save # None
    BY <1>19 DEF SaveApplied, Typed, TypeOK
  <2>2. UNCHANGED <<ed, page, snapshot, known>>
    BY <1>19 DEF SaveApplied
  <2>3. Unmerged' = Unmerged /\ HasActualChanges' = HasActualChanges
    BY <2>2 DEF Unmerged, HasActualChanges, currentConfig
  <2> QED BY <2>1, <2>2, <2>3 DEF Settled, BaselineKnown, SaveIsDraft, CreatedIsClean
<1>20. ASSUME SaveAnswered PROVE Settled'
  <2>1. save' = None /\ markClean
    BY <1>20 DEF SaveAnswered
  <2>2. CASE ed.hydrated
    <3>1. ed.draft # None /\ known' = ed.draft
      BY <1>20, <1>F, <2>2, ConfigsAssumption
      DEF SaveAnswered, Settled, SaveIsDraft, Filled, Configs
    <3> QED BY <1>D, <2>1, <2>2, <3>1, CleanStore, LoadStep
  <2>3. CASE ~ed.hydrated
    BY <1>D, <1>F, <2>1, <2>3, CleanStore DEF Filled, Settled, BaselineKnown, SaveIsDraft, CreatedIsClean
  <2> QED BY <2>2, <2>3
<1>21. ASSUME SaveFails PROVE Settled'
  BY <1>21 DEF SaveFails, Settled, BaselineKnown, SaveIsDraft, CreatedIsClean
<1>22. ASSUME NEW core \in OthersCores, OthersSave(core) PROVE Settled'
  BY <1>22, SameDraftStep DEF OthersSave
<1>23. ASSUME UNCHANGED vars PROVE Settled'
  BY <1>23, SameDraftStep DEF vars
<1> QED
  BY <1>1, <1>2, <1>3, <1>4, <1>5, <1>6, <1>7, <1>8, <1>9, <1>10, <1>11, <1>12, <1>13, <1>14,
     <1>15, <1>16, <1>17, <1>18, <1>19, <1>20, <1>21, <1>22, <1>23 DEF Next, User, Background, Others

LEMMA SettledInit == Init => Settled
BY EmptyIsStore DEF Init, Settled, BaselineKnown, SaveIsDraft, CreatedIsClean

\* The protocol of store, save and timers holds in every state that a careful
\* user can bring the editor to, whatever others save and whatever fails.
THEOREM ProtocolHolds ==
    ASSUME Careful
    PROVE  Spec => []EditorProtocol
<1>1. Init => Typed /\ Settled
  BY TypedInit, SettledInit
<1>2. Typed /\ Settled /\ [Next]_vars => (Typed /\ Settled)'
  BY TypedStep, SettledStep
<1>3. Typed /\ Settled => EditorProtocol
  BY DEF Typed, Settled, EditorProtocol
<1> QED BY <1>1, <1>2, <1>3, PTL DEF Spec

\* "All changes saved" in the save bar is true: what is shown is then what the
\* server is known to have.
THEOREM SaveBarIsRight ==
    ASSUME Careful
    PROVE  Spec => []CleanMeansSaved
<1>1. EditorProtocol => CleanMeansSaved
  BY CleanIsSaved DEF EditorProtocol
<1> QED BY <1>1, ProtocolHolds, PTL

-----------------------------------------------------------------------------
(* What timers and answers leave alone *)

\* Data that arrives replaces nothing but a draft the server has.
LEMMA ArrivalsSpareEdits ==
    ASSUME Typed, Settled, FetchArrives
    PROVE  UNCHANGED ed \/ (currentConfig = known /\ (ed.monacoDirty => ed.monaco = ed.baseline))
<1>1. CASE UNCHANGED ed
  BY <1>1
<1>2. CASE page = "edit" /\ ~ed.hydrated
  BY <1>2 DEF Typed, Filled, currentConfig
<1>3. CASE page = "edit" /\ ed.hydrated /\ ed.isNew
  BY <1>3 DEF Settled, CreatedIsClean, currentConfig
<1>4. CASE ed.hydrated /\ ~HasActualChanges
  <2>1. currentConfig = known
    BY <1>4, CleanIsSaved DEF Settled, CleanMeansSaved
  <2>2. ed.monacoDirty => ed.monaco = ed.baseline
    BY <1>4 DEF HasActualChanges, currentConfig
  <2> QED BY <2>1, <2>2
<1> QED BY <1>1, <1>2, <1>3, <1>4 DEF FetchArrives, FollowServer

\* A step that is not the user's keeps the draft, or is the merge of typed
\* text, or replaces a draft the server has.
LEMMA BackgroundStep ==
    ASSUME Typed, Settled, Background
    PROVE  \/ /\ ed'.draft = ed.draft
              /\ Unmerged => ed'.monaco = ed.monaco /\ ed'.monacoDirty
           \/ Unmerged /\ ed'.draft \in Applied(ed.kind, ed.monaco)
           \/ currentConfig = known /\ (ed.monacoDirty => ed.monaco = ed.baseline)
<1>D. ed \in Store
  BY DEF Typed, TypeOK
<1>1. CASE UNCHANGED ed
  BY <1>1 DEF Unmerged
<1>2. ASSUME ApplyFires, NEW d \in Applied(ed.kind, ed.monaco),
             ed' = [ed EXCEPT !.draft = d, !.monacoDirty = FALSE]
      PROVE  Unmerged /\ ed'.draft \in Applied(ed.kind, ed.monaco)
  <2>1. ed.monacoDirty
    BY <1>2 DEF ApplyFires, Typed, TimerHasText
  <2>2. ed'.draft = d
    BY <1>D, <1>2 DEF Store
  <2> QED BY <1>2, <2>1, <2>2 DEF Unmerged
<1>3. CASE SyncFires
  <2>1. CASE ed.monacoDirty
    BY <1>1, <1>3, <2>1 DEF SyncFires
  <2>2. CASE ~ed.monacoDirty
    BY <1>D, <1>3, <2>2, SyncedStore DEF SyncFires, Unmerged
  <2> QED BY <2>1, <2>2
<1>4. CASE FetchArrives
  BY <1>1, <1>4, ArrivalsSpareEdits
<1>5. CASE SaveAnswered
  <2>1. ed'.draft = ed.draft
    BY <1>D, <1>5, CleanStore DEF SaveAnswered
  <2>2. ~Unmerged
    BY <1>5 DEF SaveAnswered, Settled, SaveIsDraft, Unmerged, Typed, Filled
  <2> QED BY <2>1, <2>2
<1>6. CASE FetchAnswered \/ FetchFails \/ Refetch \/ SaveApplied \/ SaveFails
  BY <1>1, <1>6 DEF FetchAnswered, FetchFails, Refetch, SaveApplied, SaveFails
<1> QED BY <1>1, <1>2, <1>3, <1>4, <1>5, <1>6 DEF Background, ApplyFires

\* No timer, refetch or late answer replaces a draft with edits the server does
\* not have, except by the text its user typed.
THEOREM EditsAreKept ==
    ASSUME Careful
    PROVE  Spec => EditsSurvive
<1> DEFINE A == Background /\ currentConfig # known =>
                   \/ ed'.draft = ed.draft
                   \/ Unmerged /\ ed'.draft \in Applied(ed.kind, ed.monaco)
<1>1. Typed /\ Settled /\ [Next]_vars => [A]_vars
  BY BackgroundStep
<1>2. Init => Typed /\ Settled
  BY TypedInit, SettledInit
<1>3. Typed /\ Settled /\ [Next]_vars => (Typed /\ Settled)'
  BY TypedStep, SettledStep
<1> QED BY <1>1, <1>2, <1>3, PTL DEF Spec, EditsSurvive

\* No timer, refetch or late answer replaces typed JSON that is not merged yet.
THEOREM TypedTextIsKept ==
    ASSUME Careful
    PROVE  Spec => TypedTextSurvives
<1> DEFINE A == Background /\ Unmerged /\ ed.monaco # ed.baseline =>
                   \/ ed'.monaco = ed.monaco /\ ed'.monacoDirty
                   \/ ed'.draft \in Applied(ed.kind, ed.monaco)
<1>0. Unmerged => ed.monacoDirty
  BY DEF Unmerged
<1>1. Typed /\ Settled /\ [Next]_vars => [A]_vars
  BY <1>0, BackgroundStep
<1>2. Init => Typed /\ Settled
  BY TypedInit, SettledInit
<1>3. Typed /\ Settled /\ [Next]_vars => (Typed /\ Settled)'
  BY TypedStep, SettledStep
<1> QED BY <1>1, <1>2, <1>3, PTL DEF Spec, TypedTextSurvives
=============================================================================
