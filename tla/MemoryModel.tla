----------------------------- MODULE MemoryModel -----------------------------
(***************************************************************************)
(* How a memory model is made of its configuration (slots, each with a     *)
(* range of addresses and the banks that can be paged in there), and what  *)
(* it tells: long addresses, bank names, and the way back from a printed   *)
(* address.  Addresses are counted in units of 1 kB.                       *)
(***************************************************************************)
EXTENDS Integers, Sequences, FiniteSets, SequencesExt

CONSTANT Top      \* the last address (0xFFFF)

Addresses == 0..Top
NoBank    == -1

\* A configured bank: a number or a range of numbers, a short name (<<>> is undefined; a name
\* may contain the index), and whether it is ROM.
Bank(first, last, short, rom) == [first |-> first, last |-> last, short |-> short, rom |-> rom]
Slot(start, end, banks) == [start |-> start, end |-> end, banks |-> banks, initial |-> NoBank]

createBankShortName(short, index) ==
  IF "index" \in Range(short) THEN [i \in DOMAIN short |-> IF short[i] = "index" THEN ToString(index) ELSE short[i]]
  ELSE short

Empty == [ok |-> TRUE, expected |-> 0, slotRanges |-> <<>>, initialSlots |-> <<>>,
          association |-> [a \in Addresses |-> 0],
          banks |-> <<>>, names |-> <<>>]      \* bank number -> bank, short name -> bank number

Put(f, k, v) == [x \in DOMAIN f \cup {k} |-> IF x = k THEN v ELSE f[x]]
GreaterOf(a, b) == IF a > b THEN a ELSE b

\* mutant: the type of a bank is that of the slot that names it last
setBankInfoLast(m, index, size, type, short) ==
  LET info == [size |-> size, type |-> type, short |-> short]
  IN IF short # <<>> /\ short \in DOMAIN m.names /\ m.names[short] # index
     THEN [m EXCEPT !.ok = FALSE]
     ELSE [m EXCEPT !.banks = Put(m.banks, index, info), !.names = Put(m.names, short, index)]

\* A bank may be configured in several slots: the greater size counts, the first type and
\* the first name.
setBankInfo(m, index, size, type, short) ==
  LET prev == m.banks[index]
      info == IF index \in DOMAIN m.banks
              THEN [prev EXCEPT !.size  = GreaterOf(@, size),
                                !.short = IF @ = <<>> THEN short ELSE @]
              ELSE [size |-> size, type |-> type, short |-> short]
  IN IF info.short # <<>> /\ info.short \in DOMAIN m.names /\ m.names[info.short] # index
     THEN [m EXCEPT !.ok = FALSE]
     ELSE [m EXCEPT !.banks = Put(m.banks, index, info), !.names = Put(m.names, short, index)]

createBankOrBanks(m, bank, size) ==
  IF bank.first > bank.last \/ bank.first < 0 THEN [m EXCEPT !.ok = FALSE]
  ELSE FoldLeft(LAMBDA acc, i : IF acc.ok
                                THEN setBankInfo(acc, i, size, IF bank.rom THEN "ROM" ELSE "RAM",
                                                 createBankShortName(bank.short, i))
                                ELSE acc,
                m, [i \in 1..(bank.last - bank.first + 1) |-> bank.first + i - 1])

BanksOf(slot) == UNION {slot.banks[i].first..slot.banks[i].last : i \in DOMAIN slot.banks}

\* a range of addresses gets the next slot
addRange(m, start, end, banks, initial) ==
  [m EXCEPT !.association  = [a \in Addresses |-> IF a \in start..end THEN Len(m.slotRanges) + 1 ELSE @[a]],
            !.slotRanges   = Append(@, [start |-> start, end |-> end, banks |-> banks]),
            !.initialSlots = Append(@, initial),
            !.expected     = end + 1]

\* one configured slot, after a slot for the gap before it
addSlot(m, slot) ==
  LET gap     == IF slot.start > m.expected THEN addRange(m, m.expected, slot.start - 1, {}, NoBank) ELSE m
      made    == FoldLeft(LAMBDA acc, b : IF acc.ok THEN createBankOrBanks(acc, b, slot.end + 1 - slot.start)
                                          ELSE acc, gap, slot.banks)
      initial == IF slot.initial = NoBank THEN slot.banks[1].first ELSE slot.initial
  IN IF \/ ~m.ok
        \/ slot.start < m.expected
        \/ slot.end < slot.start
        \/ slot.banks = <<>>
        \/ ~made.ok
        \/ initial \notin BanksOf(slot)
     THEN [m EXCEPT !.ok = FALSE]
     ELSE addRange(made, slot.start, slot.end, BanksOf(slot), initial)

\* the range behind the last slot
addRest(m) == IF m.ok /\ m.expected <= Top THEN addRange(m, m.expected, Top, {}, NoBank) ELSE m

\* banks without a short name are named after their number, with underscores if need be
nameBanks(m) ==
  FoldLeft(LAMBDA acc, i :
             IF acc.banks[i].short # <<>> THEN acc
             ELSE LET Name[n \in Nat] == LET name == <<ToString(i)>> \o [k \in 1..n |-> "_"]
                                         IN IF name \in DOMAIN acc.names THEN Name[n + 1] ELSE name
                  IN [acc EXCEPT !.banks[i].short = Name[0], !.names = Put(acc.names, Name[0], i)],
           m, SetToSortSeq(DOMAIN m.banks, <))

\* slots without a bank get banks of their own
createUnusedBanks(m) ==
  FoldLeft(LAMBDA acc, i :
             IF acc.initialSlots[i] # NoBank THEN acc
             ELSE LET n == 1 + CHOOSE k \in DOMAIN acc.banks \cup {-1} : \A j \in DOMAIN acc.banks : j <= k
                      r == acc.slotRanges[i]
                  IN [acc EXCEPT !.slotRanges[i].banks = {n},
                                 !.initialSlots[i] = n,
                                 !.banks = Put(acc.banks, n, [size |-> r.end + 1 - r.start,
                                                              type |-> "UNUSED", short |-> <<>>])],
           m, [i \in DOMAIN m.slotRanges |-> i])

Model(cfg) ==
  LET m == addRest(FoldLeft(addSlot, Empty, cfg))
  IN IF m.ok THEN createUnusedBanks(nameBanks(m)) ELSE m

------------------------------------------------------------------------------
(* Long addresses: the bank that is paged in above the address              *)

createLongAddress(m, a, slots) == a + (slots[m.association[a]] + 1) * (Top + 1)
BankOfLong(long) == (long \div (Top + 1)) - 1
Addr64k(long)    == long % (Top + 1)

getBanksFor(m, a) == m.slotRanges[m.association[a]].banks

\* only where there is a choice a bank is printed
getBankShortNameForAddress(m, long) ==
  IF BankOfLong(long) < 0 \/ Cardinality(getBanksFor(m, Addr64k(long))) = 1
  THEN <<>> ELSE m.banks[BankOfLong(long)].short

\* mutant: the bank of an address without a bank is the one that was paged in first
parseBankInitial(m, a, short) ==
  IF short # <<>> THEN IF short \in DOMAIN m.names THEN m.names[short] ELSE NoBank
  ELSE m.initialSlots[1]

\* NoBank: an error
parseBank(m, a, short) ==
  LET banks == getBanksFor(m, a)
  IN IF short # <<>>
     THEN IF short \in DOMAIN m.names /\ m.names[short] \in banks THEN m.names[short] ELSE NoBank
     ELSE IF Cardinality(banks) = 1 THEN CHOOSE b \in banks : TRUE ELSE NoBank

parseAddress(m, a, short) == a + (parseBank(m, a, short) + 1) * (Top + 1)

getTopOfRam(m) ==
  LET ram == {i \in DOMAIN m.slotRanges : m.banks[m.initialSlots[i]].type = "RAM"}
  IN IF ram = {} THEN Top + 1
     ELSE m.slotRanges[CHOOSE i \in ram : \A j \in ram : j <= i].end + 1

------------------------------------------------------------------------------
(* The predefined models                                                    *)

Rom         == Bank(0, 0, <<>>, TRUE)
Fixed(n)    == Bank(n, n, <<>>, FALSE)
One(s, e, bank) == Slot(s, e, <<bank>>)
Mirrored(rest)  == <<One(0, 7, Rom), One(8, 15, Fixed(0))>> \o rest
HighRom         == <<One(32, 39, Fixed(0)), One(40, 47, Fixed(0))>>

MemoryModelZX81_1k  == Mirrored(<<One(16, 16, Fixed(1))>> \o HighRom \o <<One(48, 48, Fixed(1))>>)
MemoryModelZX81_2k  == Mirrored(<<One(16, 17, Fixed(1))>> \o HighRom \o <<One(48, 49, Fixed(1))>>)
MemoryModelZX81_16k == Mirrored(<<One(16, 31, Fixed(1))>> \o HighRom \o <<One(48, 63, Fixed(1))>>)
MemoryModelZX81_32k == Mirrored(<<One(16, 31, Fixed(1)), One(32, 47, Fixed(2)), One(48, 63, Fixed(1))>>)
MemoryModelZX81_48k == Mirrored(<<One(16, 63, Fixed(1))>>)
MemoryModelZX81_56k == <<One(0, 7, Rom), One(8, 63, Fixed(1))>>
MemoryModelAllRam   == <<One(0, 63, Fixed(0))>>
Predefined == {MemoryModelZX81_1k, MemoryModelZX81_2k, MemoryModelZX81_16k, MemoryModelZX81_32k,
               MemoryModelZX81_48k, MemoryModelZX81_56k, MemoryModelAllRam}

------------------------------------------------------------------------------
(* What is promised                                                         *)

\* A configuration that names the same bank twice names it the same.
NamesAgree(cfg) ==
  \A i, j \in DOMAIN cfg : \A x \in Range(cfg[i].banks), y \in Range(cfg[j].banks) :
    (x.first..x.last) \cap (y.first..y.last) # {} => x.short = y.short

\* The slots tile the memory, each holds one of its banks, and a printed address is read back as itself.
PrintsAndParses(m) ==
  m.ok => /\ \A i \in DOMAIN m.slotRanges :
               LET r == m.slotRanges[i]
               IN /\ \A a \in Addresses : m.association[a] = i <=> a \in r.start..r.end
                  /\ m.initialSlots[i] \in r.banks
                  /\ r.banks \subseteq DOMAIN m.banks
          /\ \A a \in Addresses : m.association[a] \in DOMAIN m.slotRanges
          /\ \A a \in Addresses : \A b \in getBanksFor(m, a) :
               LET slots == [m.initialSlots EXCEPT ![m.association[a]] = b]
                   long  == createLongAddress(m, a, slots)
               IN parseAddress(m, a, getBankShortNameForAddress(m, long)) = long
==============================================================================
