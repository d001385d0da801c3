----------------------------- MODULE MCMemoryView -----------------------------
(* A memory view of two blocks and a diff view, with cells of one bit or two. *)
EXTENDS MemoryView
MCRanges == <<{0, 1}, {3}>>
MCTexts == {<<1>>, <<1, 0>>}
MCCriteria == {NoCheck, NotEqual, {1}, {0}}
==============================================================================
