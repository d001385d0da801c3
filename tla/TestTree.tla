------------------------------- MODULE TestTree -------------------------------
(***************************************************************************)
(* The tree of the unit tests (RootTestSuite and below): a suite for the   *)
(* launch.json of each folder of the workspace, in it one for each         *)
(* configuration with unit tests, in it the tests that its list file       *)
(* names.  Watchers of the files tell of changes some time after them; a   *)
(* suite of a configuration waits until its list file is quiet.            *)
(***************************************************************************)
EXTENDS Naturals, FiniteSets, Sequences, SequencesExt

CONSTANTS Folders,      \* the folders a workspace may have
          Names,        \* the names of configurations
          Listings,     \* what a list file may contain: sets of labels, each a sequence of names
          MaxFileEdits  \* bound: changes of files and of the workspace

Nothing == [kind |-> "none", says |-> {}]     \* there is no such file
Bad     == [kind |-> "bad", says |-> {}]      \* the file cannot be parsed
File(s) == [kind |-> "file", says |-> s]

VARIABLES
  launch,      \* the launch.json of each folder: none, bad or the names it has
  listing,     \* the list file of each configuration: none or its labels
  open,        \* the folders of the workspace
  watchers,    \* the watchers of launch.json: folder, disposed, fileExists, wsSuite
  launches,    \* the suites of launch.json: folder, the configurations that are their children
  items,       \* the items of the test controller: the launch suite that is shown, 0 if none
  wsTsMap,     \* the launch suite of each folder, 0 if none
  wsFwMap,     \* the watcher of each folder, 0 if none
  configs,     \* all suites of configurations, each with the launch suite's reading that made it
  tests,       \* the tests in each of them
  timers,      \* those that wait until their list file is quiet
  untold,      \* the watchers and configurations that are to be told of a change
  reads, edits

files == <<launch, listing>>
tree  == <<launches, items, configs, tests, timers, reads>>
vars  == <<files, open, watchers, wsTsMap, wsFwMap, tree, untold, edits>>

ListFiles == Folders \X Names
Exists(f) == launch[f] # Nothing

Init ==
  /\ launch \in [Folders -> {Nothing, File(Names)}]
  /\ listing = [c \in ListFiles |-> Nothing]
  /\ open = {} /\ watchers = <<>> /\ launches = <<>>
  /\ items = [f \in Folders |-> 0]
  /\ wsTsMap = [f \in Folders |-> 0] /\ wsFwMap = [f \in Folders |-> 0]
  /\ configs = {} /\ tests = <<>> /\ timers = {} /\ untold = {} /\ reads = 0 /\ edits = 0

\* the suites of the configurations of a launch.json that can be read
NewConfigs(f) == {[folder |-> f, name |-> n, read |-> reads + 1] : n \in launch[f].says}

\* A suite is made; the watcher of its list file calls at once if the file is there.
AddConfigs(new) ==
  /\ configs' = configs \cup new
  /\ tests' = [c \in configs \cup new |-> IF c \in new THEN {} ELSE tests[c]]
  /\ timers' = timers \cup {c \in new : listing[<<c.folder, c.name>>] # Nothing}
  /\ reads' = reads + 1

\* mutant: the children of the last reading stay
fileChangedKeeping(ls, l) ==
  LET f == ls[l].folder
  IN IF launch[f] \in {Nothing, Bad}
     THEN launches' = ls /\ UNCHANGED <<items, configs, tests, timers, reads>>
     ELSE /\ launches' = [ls EXCEPT ![l].children = @ \cup NewConfigs(f)]
          /\ items' = [items EXCEPT ![f] = IF NewConfigs(f) = {} THEN 0 ELSE l]
          /\ AddConfigs(NewConfigs(f))

\* UnitTestSuiteLaunchJson.fileChanged: the item is shown if it has children; if the file
\* cannot be read it stays as it is, without children.
fileChanged(ls, l) ==
  LET f == ls[l].folder
  IN IF launch[f] \in {Nothing, Bad}
     THEN /\ launches' = [ls EXCEPT ![l].children = {}]
          /\ UNCHANGED <<items, configs, tests, timers, reads>>
     ELSE /\ launches' = [ls EXCEPT ![l].children = NewConfigs(f)]
          /\ items' = [items EXCEPT ![f] = IF NewConfigs(f) = {} THEN 0 ELSE l]
          /\ AddConfigs(NewConfigs(f))

\* fileWatcher.onDidCreate: a new suite for the folder
Created(f) ==
  /\ fileChanged(Append(launches, [folder |-> f, children |-> {}]), Len(launches) + 1)
  /\ wsTsMap' = [wsTsMap EXCEPT ![f] = Len(launches) + 1]

\* addWorkspaces
addWorkspaces(f) ==
  /\ f \notin open /\ edits < MaxFileEdits
  /\ open' = open \cup {f} /\ edits' = edits + 1
  /\ watchers' = Append(watchers, [folder |-> f, disposed |-> FALSE, fileExists |-> Exists(f),
                                   wsSuite |-> IF Exists(f) THEN Len(launches) + 1 ELSE 0])
  /\ wsFwMap' = [wsFwMap EXCEPT ![f] = Len(watchers) + 1]
  /\ IF Exists(f) THEN Created(f) ELSE UNCHANGED <<wsTsMap, tree>>
  /\ UNCHANGED <<files, untold>>

\* A folder is removed.  If it has no suite the handler throws before it disposes the watcher;
\* the item of its suite stays, without children.
RemoveWorkspace(f) ==
  /\ f \in open /\ edits < MaxFileEdits
  /\ open' = open \ {f} /\ edits' = edits + 1
  /\ IF wsTsMap[f] = 0
     THEN UNCHANGED <<watchers, launches, wsTsMap, wsFwMap, untold>>
     ELSE /\ launches' = [launches EXCEPT ![wsTsMap[f]].children = {}]
          /\ watchers' = [watchers EXCEPT ![wsFwMap[f]].disposed = TRUE]
          /\ wsTsMap' = [wsTsMap EXCEPT ![f] = 0] /\ wsFwMap' = [wsFwMap EXCEPT ![f] = 0]
          /\ untold' = untold \ {<<"launch", wsFwMap[f]>>}
  /\ UNCHANGED <<files, items, configs, tests, timers, reads>>

------------------------------------------------------------------------------
(* Changes of the files, and what the watchers make of them                 *)

EditLaunch(f, content) ==
  /\ edits < MaxFileEdits /\ content # launch[f]
  /\ edits' = edits + 1
  /\ launch' = [launch EXCEPT ![f] = content]
  /\ untold' = untold \cup {<<"launch", w>> : w \in {v \in DOMAIN watchers : watchers[v].folder = f
                                                                            /\ ~watchers[v].disposed}}
  /\ UNCHANGED <<listing, open, watchers, wsTsMap, wsFwMap, tree>>

\* The suites of configurations that have been replaced are never disposed and are told, too.
EditListing(f, n, content) ==
  /\ edits < MaxFileEdits /\ content # listing[<<f, n>>]
  /\ edits' = edits + 1
  /\ listing' = [listing EXCEPT ![<<f, n>>] = content]
  /\ untold' = untold \cup {<<"listing", c>> : c \in {d \in configs : d.folder = f /\ d.name = n}}
  /\ UNCHANGED <<launch, open, watchers, wsTsMap, wsFwMap, tree>>

\* The watcher of a launch.json: a change of a file that was not there counts as its creation.
LaunchTold(w) ==
  LET f == watchers[w].folder
      was == watchers[w].fileExists
  IN /\ <<"launch", w>> \in untold
     /\ untold' = untold \ {<<"launch", w>>}
     /\ watchers' = [watchers EXCEPT ![w].fileExists = Exists(f),
                                     ![w].wsSuite = IF ~was /\ Exists(f) THEN Len(launches) + 1 ELSE @]
     /\ \/ was /\ Exists(f) /\ fileChanged(launches, watchers[w].wsSuite) /\ UNCHANGED wsTsMap
        \/ ~was /\ Exists(f) /\ Created(f)
        \/ was /\ ~Exists(f) /\ items' = [items EXCEPT ![f] = 0] /\ wsTsMap' = [wsTsMap EXCEPT ![f] = 0]
                             /\ UNCHANGED <<launches, configs, tests, timers, reads>>
        \/ ~was /\ ~Exists(f) /\ UNCHANGED <<wsTsMap, tree>>
     /\ UNCHANGED <<files, open, wsFwMap, edits>>

\* UnitTestSuiteConfig.fileChanged: the timer starts again
ListingTold(c) ==
  /\ <<"listing", c>> \in untold
  /\ untold' = untold \ {<<"listing", c>>}
  /\ timers' = timers \cup {c}
  /\ UNCHANGED <<files, open, watchers, wsTsMap, wsFwMap, launches, items, configs, tests, reads, edits>>

\* convertLabelsToMap, createTestSuite: a label below which there are others is a suite
TestsOf(labels) == {l \in labels : \A k \in labels : ~IsStrictPrefix(l, k)}

\* delayedFileChanged: if the list file cannot be read the suite stays empty
delayedFileChanged(c) ==
  LET content == listing[<<c.folder, c.name>>]
  IN /\ c \in timers
     /\ timers' = timers \ {c}
     /\ tests' = [tests EXCEPT ![c] = TestsOf(content.says)]
     /\ UNCHANGED <<files, open, watchers, wsTsMap, wsFwMap, launches, items, configs, untold, reads, edits>>

Next ==
  \/ \E f \in Folders : addWorkspaces(f) \/ RemoveWorkspace(f)
  \/ \E f \in Folders, content \in {Nothing, Bad} \cup {File(s) : s \in SUBSET Names} : EditLaunch(f, content)
  \/ \E f \in Folders, n \in Names, content \in {Nothing} \cup {File(s) : s \in Listings} : EditListing(f, n, content)
  \/ \E w \in DOMAIN watchers : LaunchTold(w)
  \/ \E c \in configs : ListingTold(c) \/ delayedFileChanged(c)

Spec == Init /\ [][Next]_vars

------------------------------------------------------------------------------
\* "If there are changes to the test cases it will be handled by the file watchers": when nobody is
\* to be told and no timer runs, the tree shows what the files say.  For each open folder it has the
\* configurations of its launch.json, and for each of them every label of its list file, as a test
\* or as a suite of tests.
ChangesAreHandled ==
  untold = {} /\ timers = {} =>
    \A f \in open :
      LET shown == IF items[f] = 0 THEN {} ELSE launches[items[f]].children
      IN /\ {c.name : c \in shown} = launch[f].says
         /\ \A c, d \in shown : c.name = d.name => c = d
         /\ \A c \in shown :
              LET labels == listing[<<f, c.name>>].says
              IN /\ tests[c] \subseteq labels
                 /\ \A l \in labels : \E t \in tests[c] : IsPrefix(l, t)

\* Each open folder has one watcher, and no other folder has one: none without a suite was removed.
NoneLeftBehind ==
  \A w \in DOMAIN watchers :
    ~watchers[w].disposed => watchers[w].folder \in open /\ wsFwMap[watchers[w].folder] = w

\* Changes are handled as long as no watcher is left behind: two watchers of one launch.json make
\* two suites of it, and the one that is shown is not the one that is known.
TreeIsCurrent == NoneLeftBehind => ChangesAreHandled

\* "When not needed anymore you need to call 'dispose()'": who is told of changes is in the tree.
\* The suites of configurations are replaced without it.
WatchersAreInTheTree ==
  \A c \in configs : \E f \in Folders : items[f] # 0 /\ c \in launches[items[f]].children

\* A folder that is not open has no suite in the tree.  It keeps an empty one.
ClosedIsGone == \A f \in Folders \ open : items[f] = 0
==============================================================================
