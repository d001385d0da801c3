------------------------------ MODULE MemoryView ------------------------------
(***************************************************************************)
(* A memory view (MemoryDumpView) or a diff view (MemoryDiffView): the     *)
(* extension reads the blocks of the view one after the other from the     *)
(* remote, compares them with what it had, and posts what has changed to   *)
(* the page, where the user edits cells, searches, filters and stores.     *)
(* Updates are started by every stop and every edit, and are not kept      *)
(* apart.  What runs between two awaits is one step; requests are answered *)
(* in order, and so are messages delivered.                                *)
(***************************************************************************)
EXTENDS MemoryDump
CONSTANTS Ranges,      \* the sequence of the blocks of the view, each a set of addresses
          Texts,       \* what is searched for
          Options,     \* "plain", "zero", "delta"
          Criteria,    \* the criteria of the diff view
          MaxStops, MaxInputs   \* bounds: stops of the program, inputs of the user

VARIABLES
  diffView,    \* whether the view is a diff view
  memory,      \* the memory of the machine
  requests,    \* the awaits of the extension, in the order of the remote's answers
  html,        \* whether the page exists
  ranges, gen, \* memDump: its blocks, and which object it is
  data, prev,  \* the data and prevData of the blocks, by address
  base,        \* baseMemDump, by address
  baseGen,     \* which memDump's blocks baseMemDump shares (0: none)
  diff,        \* diffMemDump: its blocks, its values and which memDump it is (0: none)
  criterion,   \* previousDiffCriteria
  input, option, foundAddresses,   \* the search: as the extension keeps it
  page,        \* the page: its cells, the combo box, the cell being edited, what is marked as found
  toPage,      \* messages that are posted to the page
  asked,       \* history: what the user has typed to search for
  stored,      \* history: what the page showed when the user pressed Store
  raced,       \* history: two updates, or an update and an input, have met
  stops, inputs

extension == <<html, ranges, gen, data, prev, base, baseGen, diff, criterion, input, foundAddresses>>
user == <<option, asked, stored, stops, inputs>>
vars == <<diffView, memory, requests, extension, page, toPage, user, raced>>

All == UNION {Ranges[i] : i \in DOMAIN Ranges}
Nobody == <<>>
Over(f, g) == [a \in DOMAIN f \cup DOMAIN g |-> IF a \in DOMAIN f THEN f[a] ELSE g[a]]
On(f, S) == [a \in S |-> f[a]]
Cover(rs) == UNION {rs[i] : i \in DOMAIN rs}

\* update: the first block is read
update(rs, g) == [op |-> "read", ranges |-> rs, gen |-> g, i |-> 1]
writeMemory(a, v) == [op |-> "write", address |-> a, value |-> v]

Init ==
  /\ diffView \in BOOLEAN
  /\ memory \in [All -> 0..ByteMax]
  /\ html = FALSE /\ ranges = Ranges /\ gen = 1 /\ data = <<>> /\ prev = <<>>
  /\ base = <<>> /\ baseGen = 0 /\ diff = [ranges |-> <<>>, values |-> <<>>, gen |-> 0] /\ criterion = NoCheck
  /\ requests = <<update(Ranges, 1)>>
  /\ input = <<>> /\ option = "plain" /\ foundAddresses = {}
  /\ page = [cells |-> <<>>, combo |-> NoCheck, edit |-> Nobody, found |-> {}]
  /\ toPage = <<>> /\ asked = <<>> /\ stored = <<>> /\ raced = FALSE /\ stops = 0 /\ inputs = 0

getChangedValues(d, p) == {a \in DOMAIN d : d[a] # p[a]}

\* The search is done again when a value has changed, with the input of the last search.
updateSearchResults(d) ==
  LET current == searchData(ranges, d, input, option)
  IN /\ input' = searchInput(input, option)
     /\ foundAddresses' = current
     /\ toPage' = toPage \o <<[msg |-> "memoryChanged", cells |-> On(d, getChangedValues(d, prev'))]>>
                         \o (IF current # foundAddresses THEN <<[msg |-> "foundAddresses", found |-> current]>> ELSE <<>>)

\* MemoryDumpView.updateWithoutRemote, after data' and prev' are there
showDump(d) ==
  /\ html' = TRUE
  /\ IF ~html
     THEN page' = [page EXCEPT !.cells = d] /\ UNCHANGED <<toPage, input, foundAddresses>>
     ELSE /\ UNCHANGED page
          /\ IF getChangedValues(d, prev') # {} THEN updateSearchResults(d)
             ELSE /\ toPage' = Append(toPage, [msg |-> "memoryChanged", cells |-> <<>>])
                  /\ UNCHANGED <<input, foundAddresses>>
  /\ UNCHANGED <<diff, base>>

\* mutant: the diff is not taken again when the memory has changed
showDiffStale(d, b) ==
  /\ html' = TRUE
  /\ base' = (IF b = <<>> THEN d ELSE b)
  /\ IF ~html
     THEN page' = [page EXCEPT !.cells = d] /\ diff' = [ranges |-> ranges, values |-> d, gen |-> gen] /\ UNCHANGED toPage
     ELSE LET rs == getDiffMemDump(ranges, On(data, DOMAIN d), base', criterion)
          IN /\ diff' = [ranges |-> rs, values |-> On(d, Cover(rs)), gen |-> 0]
             /\ toPage' = Append(toPage, [msg |-> "setAllTables", cells |-> diff'.values])
             /\ UNCHANGED page
  /\ UNCHANGED <<input, foundAddresses>>

\* MemoryDiffView.updateWithoutRemote, with the values of memDump and of its base
showDiff(d, b) ==
  /\ html' = TRUE
  /\ base' = (IF b = <<>> THEN d ELSE b)
  /\ IF ~html
     THEN page' = [page EXCEPT !.cells = d] /\ diff' = [ranges |-> ranges, values |-> d, gen |-> gen] /\ UNCHANGED toPage
     ELSE LET rs == getDiffMemDump(ranges, d, base', criterion)
          IN /\ diff' = [ranges |-> rs, values |-> On(d, Cover(rs)), gen |-> 0]
             /\ toPage' = Append(toPage, [msg |-> "setAllTables", cells |-> diff'.values])
             /\ UNCHANGED page
  /\ UNCHANGED <<input, foundAddresses>>

updateWithoutRemote(d, b) == IF diffView THEN showDiff(d, b) ELSE showDump(d)

\* mutant: the data is replaced first
storeBlockLate(block) ==
  /\ data' = Over(On(memory, block), data)
  /\ prev' = Over(On(data', block), prev)

\* the data of a block arrives: what was there becomes prevData
storeBlock(block) ==
  /\ prev' = Over(On(Over(data, memory), block), prev)
  /\ data' = Over(On(memory, block), data)

\* An answer of the remote to update: data goes to the blocks of the memDump that the loop began with.
DataArrives ==
  /\ requests # <<>> /\ Head(requests).op = "read"
  /\ LET r == Head(requests)
         mine == r.gen = gen
         block == r.ranges[r.i]
         last == r.i = Len(r.ranges)
     IN /\ IF mine THEN storeBlock(block) ELSE UNCHANGED <<data, prev>>
        /\ raced' = (raced \/ (mine /\ ~diffView /\ \E k \in 2..Len(requests) :
                                 requests[k].op = "read" /\ requests[k].i > r.i))
        /\ requests' = Tail(requests) \o (IF last THEN <<>> ELSE <<[r EXCEPT !.i = @ + 1]>>)
        /\ LET b == IF baseGen = r.gen THEN Over(On(memory, block), base) ELSE base
           IN IF last THEN updateWithoutRemote(data', b)
              ELSE base' = b /\ UNCHANGED <<html, diff, page, toPage, input, foundAddresses>>
  /\ UNCHANGED <<diffView, memory, ranges, gen, baseGen, criterion, user>>

\* An update of a view without blocks shows at once.
startUpdate(rs) ==
  IF ranges = <<>> THEN requests' = rs /\ updateWithoutRemote(data, base)
  ELSE requests' = Append(rs, update(ranges, gen)) /\ UNCHANGED <<html, diff, base, page, toPage, input, foundAddresses>>

\* changeMemory, after the write: every view is updated
Written ==
  /\ requests # <<>> /\ Head(requests).op = "write"
  /\ memory' = [memory EXCEPT ![Head(requests).address] = Head(requests).value]
  /\ startUpdate(Tail(requests))
  /\ UNCHANGED <<diffView, ranges, gen, data, prev, baseGen, criterion, user, raced>>

\* the program has run and changed a cell, or none; its stop updates the views
Stop(m) ==
  /\ stops < MaxStops /\ stops' = stops + 1
  /\ \A q \in DOMAIN requests : requests[q].op = "read"
  /\ memory' = m
  /\ startUpdate(requests)
  /\ UNCHANGED <<diffView, ranges, gen, data, prev, baseGen, criterion, option, asked, stored, inputs, raced>>

------------------------------------------------------------------------------
(* The page                                                                 *)

Input == html /\ inputs < MaxInputs /\ inputs' = inputs + 1

\* a message is delivered to the page
Delivered ==
  /\ toPage # <<>> /\ toPage' = Tail(toPage)
  /\ LET m == Head(toPage)
     IN page' = CASE m.msg = "memoryChanged"  -> [page EXCEPT !.cells = Over(m.cells, @)]
                  [] m.msg = "foundAddresses" -> [page EXCEPT !.found = m.found]
                  [] m.msg = "setAllTables"   -> [page EXCEPT !.cells = m.cells, !.edit = Nobody]
  /\ UNCHANGED <<diffView, memory, requests, extension, user, raced>>

makeEditable(a) ==
  /\ Input /\ page.edit = Nobody /\ a \in DOMAIN page.cells
  /\ page' = [page EXCEPT !.edit = <<a, page.cells[a]>>]
  /\ UNCHANGED <<diffView, memory, requests, extension, toPage, option, asked, stored, stops, raced>>

\* the text the cell had is shown again, also when another has arrived meanwhile
focusLost ==
  /\ page.edit # Nobody
  /\ page' = [page EXCEPT !.cells[page.edit[1]] = page.edit[2], !.edit = Nobody]
  /\ raced' = (raced \/ page.cells[page.edit[1]] # page.edit[2])

Escape == focusLost /\ UNCHANGED <<diffView, memory, requests, extension, toPage, user>>

\* the new value goes to the extension, which writes it to the memory
Enter(v) ==
  /\ focusLost
  /\ requests' = Append(requests, writeMemory(page.edit[1], v))
  /\ UNCHANGED <<diffView, memory, extension, toPage, user>>

\* searchChanged: a new text and options
Search(text, o) ==
  /\ Input /\ ~diffView
  /\ asked' = text /\ option' = o
  /\ input' = searchInput(text, o)
  /\ foundAddresses' = searchData(ranges, data, text, o)
  /\ toPage' = Append(toPage, [msg |-> "foundAddresses", found |-> foundAddresses'])
  /\ UNCHANGED <<diffView, memory, requests, html, ranges, gen, data, prev, base, baseGen, diff, criterion,
                 page, stored, stops, raced>>

diffCriteriaChanged(c) ==
  /\ Input /\ diffView /\ c # page.combo
  /\ criterion' = c
  /\ LET rs == getDiffMemDump(ranges, data, base, c)
     IN diff' = [ranges |-> rs, values |-> On(data, Cover(rs)), gen |-> 0]
  /\ toPage' = Append(toPage, [msg |-> "setAllTables", cells |-> diff'.values])
  /\ page' = [page EXCEPT !.combo = c]
  /\ UNCHANGED <<diffView, memory, requests, html, ranges, gen, data, prev, base, baseGen, input, foundAddresses,
                 option, asked, stored, stops, raced>>

\* mutant: the new memDump is the old one
storeDiffShared ==
  /\ Input /\ diffView
  /\ base' = diff.values /\ baseGen' = gen + 1
  /\ ranges' = diff.ranges /\ data' = diff.values /\ prev' = diff.values /\ gen' = gen + 1
  /\ page' = [page EXCEPT !.combo = NoCheck] /\ stored' = page.cells
  /\ raced' = (raced \/ requests # <<>> \/ toPage # <<>>)
  /\ UNCHANGED <<diffView, memory, requests, html, diff, criterion, input, foundAddresses, toPage, option, asked, stops>>

\* storeDiff: what is shown is the base of the next comparisons.  The combo box is set back, the criterion is not.
storeDiff ==
  /\ Input /\ diffView
  /\ base' = diff.values /\ baseGen' = diff.gen
  /\ ranges' = diff.ranges /\ data' = diff.values /\ prev' = diff.values /\ gen' = gen + 1
  /\ page' = [page EXCEPT !.combo = NoCheck] /\ stored' = page.cells
  /\ raced' = (raced \/ requests # <<>> \/ toPage # <<>>)
  /\ UNCHANGED <<diffView, memory, requests, html, diff, criterion, input, foundAddresses, toPage, option, asked, stops>>

Next ==
  \/ DataArrives \/ Written \/ Delivered \/ Escape \/ storeDiff
  \/ \E a \in All, v \in 0..ByteMax : Stop([memory EXCEPT ![a] = v])
  \/ \E a \in All : makeEditable(a)
  \/ \E v \in 0..ByteMax : Enter(v)
  \/ \E t \in Texts, o \in Options : Search(t, o)
  \/ \E c \in Criteria : diffCriteriaChanged(c)

Spec == Init /\ [][Next]_vars

------------------------------------------------------------------------------
Quiet == html /\ requests = <<>> /\ toPage = <<>> /\ page.edit = Nobody

\* "The real value (from the remote) is sent to the webview": when nothing is under way the cells
\* show the memory.
ShownIsRead == Quiet /\ ~diffView => page.cells = memory

\* The same, as long as an update has met no other update and no edit of a cell that it changes.
ShownUnlessRaced == raced \/ ShownIsRead

\* The marked addresses are those at which the searched text, or its differences, are shown.
FoundAddresses(text, cells) ==
  searchData(ranges, cells, text, IF option = "delta" THEN "delta" ELSE "plain")
FoundIsShown ==
  Quiet /\ ~raced /\ option # "zero" => page.found = FoundAddresses(asked, page.cells)

\* When nothing is under way the cells show the memory and exactly what was searched is marked.
MemoryIsShown == ShownUnlessRaced /\ FoundIsShown

\* "there should be a 0 after the searched string": also after an update.
FoundIsTerminated ==
  Quiet /\ ~raced /\ asked # <<>> /\ option = "zero" => page.found = FoundAddresses(Append(asked, 0), page.cells)

\* The diff view lists the cells of the last stored result that differ from it as the criterion
\* says, with their present values (right after Store the stored ones).
DiffIsExact ==
  Quiet /\ diffView /\ ~raced =>
    LET since == IF gen = 1 THEN base ELSE stored
    IN \/ page.cells = On(memory, Kept(On(memory, DOMAIN since), since, criterion))
       \/ page.cells = stored

\* "No check. Shows the current values.": the criterion is the one the combo box shows.
ComboIsApplied == diffView => criterion = page.combo
==============================================================================
