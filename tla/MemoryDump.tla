------------------------------ MODULE MemoryDump ------------------------------
(***************************************************************************)
(* What the memory views are built from: the blocks of memory that the     *)
(* user asks for, widened to whole lines and merged, the comparison of two *)
(* dumps and the search.  Values of cells are functions from addresses.    *)
(***************************************************************************)
EXTENDS Integers, Sequences, FiniteSets, SequencesExt, FiniteSetsExt
CONSTANTS Boundary,   \* MEM_DUMP_BOUNDARY: the cells of a line
          Top,        \* 0xFFFF: the highest address
          ByteMax     \* 255

Cells(address, size) == address..(address + size - 1)

\* a block that is shown and the ranges in it that were asked for
MetaBlock(address, size, memBlocks) == [address |-> address, size |-> size, memBlocks |-> memBlocks]
isInRange(mb, address) == \E r \in mb.memBlocks : address \in Cells(r[1], r[2])

getBoundary(value) == IF value < 0 THEN 0 ELSE value - (value % Boundary)

\* a line more before and behind
addBlockSmall(start, size) ==
  LET bound == getBoundary(start - Boundary)
      end   == getBoundary(start + size - 1) + 2 * Boundary
  IN MetaBlock(bound, end - bound, {<<start, size>>})

\* what would not fit is cut at the end
addBlockLarge(start, size) ==
  LET bound == getBoundary(start)
      whole == getBoundary(start + size - 1) + Boundary - bound + 1
      cut   == (Top \div Boundary) * Boundary
  IN IF whole > Top THEN MetaBlock(bound, cut, {<<start, bound + cut - start>>})
     ELSE MetaBlock(bound, whole, {<<start, size>>})

addBlock(blocks, start, size) ==
  Append(blocks, IF size <= Top - 2 * (2 * Boundary - 1) THEN addBlockSmall(start, size) ELSE addBlockLarge(start, size))

addBlockWithoutBoundary(blocks, start, size) ==
  LET n == IF size > Top + 1 THEN Top + 1 ELSE size
  IN Append(blocks, MetaBlock(start, n, {<<start, n>>}))

\* mutant: the end of the merged block is the end of its second part
JoinedToLast(cur, next) ==
  MetaBlock(cur.address, next.address + next.size - cur.address, cur.memBlocks \cup next.memBlocks)

\* two blocks as one
Joined(cur, next) ==
  LET ends == {cur.address + cur.size, next.address + next.size}
  IN MetaBlock(cur.address, Max(ends) - cur.address, cur.memBlocks \cup next.memBlocks)

\* from the highest down: a block and the next are one if at most a line is between them
mergeBlocks(blocks) ==
  FoldRight(LAMBDA cur, done :
      IF done # <<>> /\ Head(done).address <= cur.address + cur.size + 1 + Boundary
      THEN <<Joined(cur, Head(done))>> \o Tail(done) ELSE <<cur>> \o done,
    SortSeq(blocks, LAMBDA a, b : a.address < b.address), <<>>)

------------------------------------------------------------------------------
(* Comparison with a base and search                                        *)

\* a criterion is the set of the differences that are kept
Deltas   == (-ByteMax)..ByteMax
NoCheck  == Deltas
NotEqual == Deltas \ {0}
Kept(values, base, diff) == {a \in DOMAIN values : values[a] - base[a] \in diff}

\* the runs of neighbours in a set of addresses
Runs(addresses) ==
  LET starts == SetToSortSeq({a \in addresses : a - 1 \notin addresses}, <)
      Run(a) == {b \in addresses : b >= a /\ a..b \subseteq addresses}
  IN [i \in DOMAIN starts |-> Run(starts[i])]

\* the ranges of a dump, each a set of neighbours, and what of them is kept
getDiffMemDump(ranges, values, base, diff) ==
  IF diff = NoCheck THEN ranges ELSE Runs(Kept(values, base, diff))

\* where a text occurs in the values
Occurs(text, values) ==
  {a \in DOMAIN values : \A i \in DOMAIN text : a + i - 1 \in DOMAIN values /\ values[a + i - 1] = text[i]}

\* where its differences occur
OccursDiff(text, values) ==
  LET Delta(x, y) == (y - x) % (ByteMax + 1)
  IN {a \in DOMAIN values : \A i \in 1..(Len(text) - 1) :
        /\ a + i \in DOMAIN values
        /\ Delta(values[a + i - 1], values[a + i]) = Delta(text[i], text[i + 1])}

\* the input of a search is extended when it shall be zero terminated: by every search again
searchInput(input, option) == IF input # <<>> /\ option = "zero" THEN Append(input, 0) ELSE input

\* in the ranges one by one; nothing is found by an input without a difference
searchData(ranges, values, input, option) ==
  LET Part(r)  == [a \in r \cap DOMAIN values |-> values[a]]
      text     == searchInput(input, option)
      In(part) == IF option = "delta" THEN OccursDiff(input, part) ELSE Occurs(text, part)
  IN IF input = <<>> \/ (option = "delta" /\ Len(input) < 2) THEN {}
     ELSE UNION {In(Part(ranges[i])) : i \in DOMAIN ranges}

------------------------------------------------------------------------------
\* no block lies within another
NoneWithin(blocks) ==
  \A i, j \in DOMAIN blocks :
    blocks[i].address <= blocks[j].address => blocks[i].address + blocks[i].size <= blocks[j].address + blocks[j].size

\* "Merges the address ranges if they are near to each other.": the blocks of a view are in order and apart.
BlocksAreApart(merged) ==
  \A i, j \in DOMAIN merged : i < j => merged[i].address + merged[i].size < merged[j].address

\* The blocks show every cell that was asked for, marked as such, and mark no other.
BlocksShowAll(asked, merged) ==
  /\ \A r \in asked : \E i \in DOMAIN merged :
        \A a \in Cells(r[1], r[2]) : a \in Cells(merged[i].address, merged[i].size) /\ isInRange(merged[i], a)
  /\ \A i \in DOMAIN merged : \A a \in Cells(merged[i].address, merged[i].size) :
        isInRange(merged[i], a) => \E r \in asked : a \in Cells(r[1], r[2])
==============================================================================
