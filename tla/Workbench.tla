------------------------------ MODULE Workbench ------------------------------
(***************************************************************************)
(* The workbench of the desktop application: open editors, the project     *)
(* they are seen for, back and forward, and what survives a restart.       *)
(*                                                                         *)
(* An editor shows a resource: a destination of the activity bar, which    *)
(* belongs to no project, or an artifact of one project, which need not be *)
(* a project of the workspace: runs carry any project id, or none, and are *)
(* listed for all projects.  Switching the project leaves all editors      *)
(* open, hides the tabs of the other projects, and chooses the active      *)
(* editor again.  Several resources share a screen: after an action the    *)
(* handler tells the screen what to show (sync), or relies on the screen   *)
(* that caused the action to show it already.  Most handlers end by        *)
(* writing the whole state to disk; back, forward and reopening live only  *)
(* as long as the session.                                                 *)
(*                                                                         *)
(* The other filters of a scope, panes, focus and appearance follow the    *)
(* same paths and are left out.                                            *)
(***************************************************************************)
EXTENDS Integers, Sequences, FiniteSets, SequencesExt

CONSTANTS
  Owners,        \* ids that a project can have
  Unassigned,    \* UNASSIGNED_PROJECT_ID, reserved for runs without one
  AllProjects,   \* the scope of no single project
  Destinations,  \* resources without a project
  Artifacts,     \* resources of a project
  Traces,        \* those that are full traces
  Owner,         \* the project id of an artifact
  Activity,      \* the activity of a resource
  Screens,       \* screens with several resources or one
  Screen,        \* the screen of a resource
  Opening,       \* what a screen shows before it is told anything
  FailureInbox, Welcome, Runs,  \* destinations
  Unsaved,       \* destinations that are opened without saving
  Nobody,        \* no editor, no context, no file
  MaxClosed,     \* MAX_CLOSED_EDITORS
  MaxActions     \* bound on what the user does

Resources == Destinations \cup Artifacts
Activities == {Activity[r] : r \in Resources}

Tabs == [resource : Resources, pinned : BOOLEAN]
Contexts == [active : Resources \cup {Nobody}, activity : Activities]
States == [scope : Owners \cup {AllProjects}, editors : Seq(Tabs),
           active : Resources \cup {Nobody}, activity : Activities,
           contexts : [Owners -> {Nobody} \cup Contexts]]

ASSUME WorkbenchAssumption ==
  /\ IsFiniteSet(Owners) /\ {AllProjects, Unassigned} \cap Owners = {}
  /\ Nobody \notin Resources \cup Contexts \cup States
  /\ Destinations \cap Artifacts = {}
  /\ {FailureInbox, Welcome, Runs} \cup Unsaved \subseteq Destinations
  /\ Owner \in [Artifacts -> Owners \cup {Unassigned}] /\ Traces \subseteq Artifacts
  /\ Screen \in [Resources -> Screens] /\ Opening \in [Screens -> Destinations]
  /\ DOMAIN Activity = Resources
  /\ MaxClosed \in Nat \ {0} /\ MaxActions \in Nat

VARIABLES
  projects,  \* the projects of the workspace
  state,     \* WorkbenchStateV1: scope, editors, active, activity, contexts
  saved,     \* the state on disk
  entries, cursor,  \* EditorNavigation: history
  closed,    \* EditorNavigation: closed tabs, the latest last
  display,   \* what each screen shows
  unsynced,  \* the active editor changed and nobody told its screen (observation)
  unsaved,   \* the state changed and was not written (observation)
  actions    \* what the user has done (bound)

navigation == <<entries, cursor, closed>>
workbenchVars == <<projects, state, saved, navigation, display, unsynced, unsaved, actions>>

-----------------------------------------------------------------------------
(* WorkbenchModel: what the actions make of a state.                       *)

Open(w) == {w.editors[i].resource : i \in DOMAIN w.editors}
Tab(r, pin) == [resource |-> r, pinned |-> pin]

(* The tabs of s that are in S, in their order (retain).                   *)
Retained(s, S) ==
  LET places == {i \in DOMAIN s : s[i] \in S}
  IN  [n \in 1..Cardinality(places) |->
         s[CHOOSE i \in places : Cardinality({j \in places : j <= i}) = n]]
Others(s, r) == {t \in ToSet(s) : t.resource # r}
Position(w, Test(_)) == SelectInSeq(w.editors, Test)

VisibleIn(s, r) == r \in Destinations \/ s = AllProjects \/ Owner[r] = s
Available(w) == {r \in Open(w) : VisibleIn(w.scope, r)}

Activated(w, r) ==
  IF r \in Open(w) THEN [w EXCEPT !.active = r, !.activity = Activity[r]] ELSE w

(* A preview takes the place of the first preview there is.                *)
Opened(w, r, pin) ==
  LET Is(t) == t.resource = r
      Preview(t) == ~t.pinned
      tabs == IF r \in Open(w)
              THEN [w.editors EXCEPT ![Position(w, Is)].pinned = @ \/ pin]
              ELSE IF ~pin /\ Position(w, Preview) # 0
              THEN [w.editors EXCEPT ![Position(w, Preview)] = Tab(r, FALSE)]
              ELSE Append(w.editors, Tab(r, pin))
  IN  Activated([w EXCEPT !.editors = tabs], r)

Pinned(w, r) ==
  [w EXCEPT !.editors =
     [i \in DOMAIN @ |-> IF @[i].resource = r THEN Tab(r, TRUE) ELSE @[i]]]

(* Every other preview is closed.                                          *)
Unpinned(w, r) ==
  LET tabs == Retained(w.editors, {t \in ToSet(w.editors) : t.resource = r \/ t.pinned})
  IN  Activated([w EXCEPT !.editors =
        [i \in DOMAIN tabs |-> IF tabs[i].resource = r THEN Tab(r, FALSE) ELSE tabs[i]]], r)

(* Closing the active editor activates the last one, whatever its project. *)
LastOf(tabs) == IF tabs = <<>> THEN Nobody ELSE Last(tabs).resource
Without(w, r) ==
  LET tabs == Retained(w.editors, Others(w.editors, r))
  IN  [w EXCEPT !.editors = tabs, !.active = IF @ = r THEN LastOf(tabs) ELSE @]

WithInbox(w) ==
  Activated(IF FailureInbox \in Open(w) THEN w
            ELSE [w EXCEPT !.editors = Append(@, Tab(FailureInbox, FALSE))], FailureInbox)

(* switch_scope: the editor that was active when the project was left, one *)
(* of the activity that was, the active one if it belongs to no project,   *)
(* or the inbox.                                                           *)
Left(w) ==
  IF w.scope = AllProjects THEN w
  ELSE [w EXCEPT !.contexts[w.scope] = [active |-> w.active, activity |-> w.activity]]

KeptOrInbox(w) == IF w.active \in Open(w) \cap Destinations THEN w ELSE WithInbox(w)

SwitchedToOpen(w, s) ==
  IF s = w.scope THEN w
  ELSE LET there == [Left(w) EXCEPT !.scope = s]
       IN  IF s = AllProjects \/ w.contexts[s] = Nobody THEN KeptOrInbox(there)
           ELSE LET context == w.contexts[s]
                    again == [there EXCEPT !.activity = context.activity]
                    Similar(t) == Activity[t.resource] = context.activity
                                  /\ VisibleIn(s, t.resource)
                    i == Position(again, Similar)
                IN  IF context.active \in Open(again)
                    THEN [again EXCEPT !.active = context.active]
                    ELSE IF i # 0 THEN Activated(again, again.editors[i].resource)
                    ELSE WithInbox(again)
Switched(w, s) ==
  IF s = w.scope THEN w
  ELSE LET there == [Left(w) EXCEPT !.scope = s]
       IN  IF s = AllProjects \/ w.contexts[s] = Nobody THEN KeptOrInbox(there)
           ELSE LET context == w.contexts[s]
                    again == [there EXCEPT !.activity = context.activity]
                    Similar(t) == Activity[t.resource] = context.activity
                                  /\ VisibleIn(s, t.resource)
                    i == Position(again, Similar)
                IN  IF context.active \in Available(again)
                    THEN [again EXCEPT !.active = context.active]
                    ELSE IF i # 0 THEN Activated(again, again.editors[i].resource)
                    ELSE WithInbox(again)

-----------------------------------------------------------------------------
(* Start of the application.                                               *)

WithInitialEditor(first) ==
  [scope |-> AllProjects, editors |-> <<Tab(first, FALSE)>>, active |-> first,
   activity |-> Activity[first], contexts |-> [p \in Owners |-> Nobody]]

(* WorkbenchModel::restore: destinations do not come back, except the one  *)
(* that was active, nor artifacts of an id that is no project.             *)
Lasts(w, r) == IF r \in Artifacts THEN Owner[r] \in projects ELSE r = w.active
Lasting(w) == Retained(w.editors, {t \in ToSet(w.editors) : Lasts(w, t.resource)})

Restored(w, first) ==
  LET stay == Lasting(w)
      tabs == [i \in DOMAIN stay |->
                 IF stay[i].resource \in Destinations THEN Tab(stay[i].resource, FALSE) ELSE stay[i]]
      open == {tabs[i].resource : i \in DOMAIN tabs}
      context(c) == IF c = Nobody \/ c.active \in open THEN c ELSE [c EXCEPT !.active = Nobody]
      scope == IF w.scope \in projects THEN w.scope ELSE AllProjects
      active == IF w.active \in open THEN w.active ELSE LastOf(tabs)
  IN  IF tabs = <<>> THEN WithInitialEditor(first)
      ELSE [scope |-> scope, editors |-> tabs, active |-> active,
            activity |-> Activity[active],
            contexts |-> [p \in Owners |->
              IF p \in projects THEN context(w.contexts[p]) ELSE Nobody]]

(* A workspace without a project starts anew; its only project is chosen.  *)
Loaded(first) ==
  IF projects = {} \/ saved = Nobody THEN WithInitialEditor(first) ELSE Restored(saved, first)
Started(first) ==
  IF Cardinality(projects) = 1 /\ Loaded(first).scope = AllProjects
  THEN Switched(Loaded(first), CHOOSE p \in projects : TRUE)
  ELSE Loaded(first)

Displaying(shows, r) == IF r = Nobody THEN shows ELSE [shows EXCEPT ![Screen[r]] = r]

-----------------------------------------------------------------------------
(* What the handlers do besides.                                           *)

Act == actions < MaxActions /\ actions' = actions + 1

(* EditorNavigation::record, of the editor that is active now.             *)
Record ==
  IF state'.active = Nobody \/ (cursor # 0 /\ entries[cursor] = state'.active)
  THEN UNCHANGED <<entries, cursor>>
  ELSE /\ entries' = Append(SubSeq(entries, 1, cursor), state'.active)
       /\ cursor' = cursor + 1

Sync ==
  /\ display' = Displaying(display, state'.active)
  /\ unsynced' = FALSE

(* The screen is not told: it still shows what it showed.                  *)
NoSync ==
  /\ display' = display
  /\ unsynced' = (unsynced \/ state'.active # state.active)

Persist == saved' = state' /\ unsaved' = FALSE

NoPersist == UNCHANGED saved /\ unsaved' = TRUE

-----------------------------------------------------------------------------
WorkbenchInit ==
  /\ projects \in SUBSET Owners
  /\ saved = Nobody
  /\ \E first \in {Welcome, FailureInbox} : state = Started(first)
  /\ entries = <<state.active>> /\ cursor = 1 /\ closed = <<>>
  /\ display = Displaying(Opening, state.active)
  /\ unsynced = FALSE /\ unsaved = TRUE /\ actions = 0

(* open_activity.                                                          *)
OpenActivity(d) ==
  /\ Act
  /\ state' = Opened(state, d, FALSE)
  /\ Record /\ Sync /\ Persist
  /\ UNCHANGED <<projects, closed>>

(* The pages of the evaluation screen.                                     *)
OpenUnsaved(d) ==
  /\ Act
  /\ state' = Opened(state, d, FALSE)
  /\ Record /\ Sync /\ NoPersist
  /\ UNCHANGED <<projects, closed>>

(* A group, a trace, a candidate or a comparison is opened, by a click in  *)
(* its screen or because a comparison is ready.  The list may be that of   *)
(* all projects, or still that of another one, and so may the comparison.  *)
OpenArtifact(r) ==
  /\ Act
  /\ state' = Opened(state, r, FALSE)
  /\ Record /\ Sync /\ Persist
  /\ UNCHANGED <<projects, closed>>

(* Back from the full trace that is on display to the runs, or to the      *)
(* investigation it was opened from.                                       *)
ReturnFromFullTrace(r) ==
  /\ state.active # Nobody
  /\ LET trace == display[Screen[state.active]]
     IN  trace \in Traces /\ (r = Runs \/ (r \in Artifacts \ Traces /\ Owner[r] = Owner[trace]))
  /\ Act
  /\ state' = Opened(state, r, TRUE)
  /\ Record /\ Sync /\ Persist
  /\ UNCHANGED <<projects, closed>>

ActivateEditor(r) ==
  /\ Act
  /\ state' = Activated(state, r)
  /\ Record /\ Sync /\ Persist
  /\ UNCHANGED <<projects, closed>>

PinEditor(r) ==
  /\ Act
  /\ state' = Pinned(state, r)
  /\ NoSync /\ Persist
  /\ UNCHANGED <<projects, navigation>>

UnpinEditor(r) ==
  /\ Act
  /\ state' = Unpinned(state, r)
  /\ NoSync /\ Persist
  /\ UNCHANGED <<projects, navigation>>

CloseEditorQuietly(r) ==
  /\ Act
  /\ state' = Without(state, r)
  /\ LET tab == state.editors[CHOOSE i \in DOMAIN state.editors : state.editors[i].resource = r]
         all == Append(Retained(closed, Others(closed, r)), tab)
     IN  closed' = IF Len(all) > MaxClosed THEN Tail(all) ELSE all
  /\ Record /\ Persist
  /\ UNCHANGED <<projects, display, unsynced>>
CloseEditor(r) ==
  /\ Act
  /\ state' = Without(state, r)
  /\ LET tab == state.editors[CHOOSE i \in DOMAIN state.editors : state.editors[i].resource = r]
         all == Append(Retained(closed, Others(closed, r)), tab)
     IN  closed' = IF Len(all) > MaxClosed THEN Tail(all) ELSE all
  /\ Record /\ Sync /\ Persist
  /\ UNCHANGED projects

ReopenClosedEditor ==
  /\ closed # <<>>
  /\ Act
  /\ state' = Opened(state, Last(closed).resource, Last(closed).pinned)
  /\ closed' = Front(closed)
  /\ Record /\ Sync /\ Persist
  /\ UNCHANGED projects

(* The next editor of the history that is open and visible.                *)
Reached(places) == {i \in places \cap DOMAIN entries : entries[i] \in Available(state)}
Before(i) == Reached(1..(i - 1))
After(i) == Reached((i + 1)..Len(entries))

Navigate(places, place) ==
  /\ places # {}
  /\ Act
  /\ cursor' = place
  /\ state' = Activated(state, entries[cursor'])
  /\ Sync /\ Persist
  /\ UNCHANGED <<projects, entries, closed>>
NavigateBack == Navigate(Before(cursor), Max(Before(cursor)))
NavigateForward == Navigate(After(cursor), Min(After(cursor)))

(* set_project_scope.                                                      *)
SetProjectScope(s) ==
  /\ s # state.scope
  /\ Act
  /\ state' = Switched(state, s)
  /\ Sync /\ Persist
  /\ UNCHANGED <<projects, navigation>>

(* The answer to the creation of a project switches to it; by then the     *)
(* user may be anywhere.                                                   *)
ProjectCreated(p) ==
  /\ p \notin projects
  /\ Act
  /\ projects' = projects \cup {p}
  /\ state' = Switched(state, p)
  /\ NoSync /\ Persist
  /\ UNCHANGED navigation

(* The application ends, or crashes, and is started again.                 *)
RestartWorkbench ==
  /\ Act
  /\ \E first \in {Welcome, FailureInbox} : state' = Started(first)
  /\ entries' = <<state'.active>> /\ cursor' = 1 /\ closed' = <<>>
  /\ display' = Displaying(Opening, state'.active)
  /\ unsynced' = FALSE /\ unsaved' = (state' # saved)
  /\ UNCHANGED <<projects, saved>>

WorkbenchNext ==
  \/ \E d \in Destinations : OpenActivity(d)
  \/ \E d \in Unsaved : OpenUnsaved(d)
  \/ \E r \in Artifacts : OpenArtifact(r)
  \/ \E r \in Resources : ReturnFromFullTrace(r)
  \/ \E r \in Available(state) :
       \/ ActivateEditor(r) \/ CloseEditor(r)
       \/ Tab(r, FALSE) \in ToSet(state.editors) /\ PinEditor(r)
       \/ Tab(r, TRUE) \in ToSet(state.editors) /\ UnpinEditor(r)
  \/ ReopenClosedEditor \/ NavigateBack \/ NavigateForward
  \/ \E s \in projects \cup {AllProjects} : SetProjectScope(s)
  \/ \E p \in Owners : ProjectCreated(p)
  \/ RestartWorkbench

WorkbenchSpec == WorkbenchInit /\ [][WorkbenchNext]_workbenchVars

-----------------------------------------------------------------------------
(* Properties.                                                             *)

WorkbenchTypeOK ==
  /\ projects \subseteq Owners
  /\ state.scope \in projects \cup {AllProjects}
  /\ state \in States /\ saved \in States \cup {Nobody}
  /\ entries \in Seq(Resources) /\ cursor \in 0..Len(entries)
  /\ closed \in Seq(Tabs)
  /\ display \in [Screens -> Resources]

(* One tab for each resource; the active editor is one of them, and there  *)
(* is one unless all are closed.                                           *)
TabsAreOne ==
  /\ Cardinality(Open(state)) = Len(state.editors)
  /\ state.active \in Open(state) \/ (state.active = Nobody /\ state.editors = <<>>)
  /\ Cardinality({closed[i].resource : i \in DOMAIN closed}) = Len(closed)
  /\ Len(closed) <= MaxClosed

(* Going back and then forward, or the other way round, ends where it      *)
(* began, however many editors in between are closed or hidden.            *)
HistoryIsReversible ==
  cursor # 0 /\ entries[cursor] \in Available(state) =>
    /\ Before(cursor) # {} => Min(After(Max(Before(cursor)))) = cursor
    /\ After(cursor) # {} => Max(Before(Min(After(cursor)))) = cursor

(* The screen of the active editor shows its resource, unless the editor   *)
(* became active in a way that does not tell the screen.                   *)
ScreenShowsActive ==
  state.active # Nobody => display[Screen[state.active]] = state.active \/ unsynced

WorkbenchIsSound ==
  WorkbenchTypeOK /\ TabsAreOne /\ HistoryIsReversible /\ ScreenShowsActive

(* A change of the project never leaves an editor of another project       *)
(* active.  One becomes active only when the active editor is closed, a    *)
(* closed one is opened again, an artifact of the other project is opened  *)
(* late, or a restart goes back to where one was.                          *)
Stray == state.active # Nobody /\ ~VisibleIn(state.scope, state.active)

ProjectsStayApart ==
  [][/\ state'.scope # state.scope => state'.active # Nobody /\ ~Stray'
     /\ ~Stray /\ Stray' =>
          \/ \E r \in Open(state) : CloseEditor(r)
          \/ ReopenClosedEditor \/ RestartWorkbench
          \/ \E r \in Artifacts : OpenArtifact(r) \/ ReturnFromFullTrace(r)]_workbenchVars

(* A restart brings back every open artifact of a project of the workspace *)
(* with its pin, in order, and no other, unless the last change was one    *)
(* that is not saved; and the project and the active editor, if any tab    *)
(* and that editor come back.  (A workspace without a project starts anew, *)
(* and the only project of one is chosen when none was, which may change   *)
(* the active editor.)                                                     *)
ArtifactTabs(s) == Retained(s, {t \in ToSet(s) : t.resource \in Artifacts})
LastingArtifacts(w) ==
  Retained(w.editors,
           {t \in ToSet(w.editors) : t.resource \in Artifacts /\ Lasts(w, t.resource)})
RestartKeepsWork ==
  [][RestartWorkbench /\ ~unsaved =>
       /\ ArtifactTabs(state'.editors) = LastingArtifacts(state)
       /\ projects # {} /\ Lasting(state) # <<>> =>
            /\ state.scope # AllProjects => state'.scope = state.scope
            /\ state'.scope = state.scope /\ Lasts(state, state.active) =>
                 state'.active = state.active]_workbenchVars

(* What is open survives the changes of the project and the restarts.      *)
EditorsStay == ProjectsStayApart /\ RestartKeepsWork

=============================================================================
