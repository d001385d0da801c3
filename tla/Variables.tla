------------------------------ MODULE Variables ------------------------------
(***************************************************************************)
(* What the VARIABLES and WATCH panes show of the memory: structs and      *)
(* arrays of them, divided by their labels, dumps, single values and the   *)
(* system variables; and the bytes that are written when one is changed.   *)
(***************************************************************************)
EXTENDS Integers, Sequences, FiniteSets, SequencesExt, FiniteSetsExt

------------------------------------------------------------------------------
(* Numbers and bytes                                                        *)

\* JavaScript rounds to zero, and its bits are shifted by the count modulo 32
Trunc(a, b) == IF a >= 0 THEN a \div b ELSE -((-a) \div b)
ShiftedBytes(count) == 2 ^ ((8 * count) % 32)

\* index counts from 0
getUintFromMemory(memory, index, count, littleEndian) ==
  LET bytes == SubSeq(memory, index + 1, index + count)
  IN FoldLeft(LAMBDA acc, byte : 256 * acc + byte, 0, IF littleEndian THEN Reverse(bytes) ELSE bytes)

\* mutant: the value is not made positive, and so rounded up
setUintSigned(value, count, littleEndian) ==
  LET Rest[i \in 0..count] == IF i = 0 THEN value ELSE Trunc(Rest[i - 1], 256)
      low == [i \in 1..count |-> Rest[i - 1] % 256]
  IN IF littleEndian THEN low ELSE Reverse(low)

\* the bytes of a value: the lowest is taken off, and what is left is divided
setUintToMemory(value, count, littleEndian) ==
  LET positive == IF value < 0 THEN value + ShiftedBytes(count) ELSE value
      Rest[i \in 0..count] == IF i = 0 THEN positive ELSE Trunc(Rest[i - 1], 256)
      low == [i \in 1..count |-> Rest[i - 1] % 256]
  IN IF littleEndian THEN low ELSE Reverse(low)

------------------------------------------------------------------------------
(* Structs.  labels: the paths of the labels of a struct in the order in    *)
(* which they were found, each with its offset.                             *)

getSubLabels(labels, path) ==
  SelectSeq(labels, LAMBDA l : Len(l[1]) = Len(path) + 1 /\ IsPrefix(path, l[1]))

\* SubStructVar.createPropArray: each label until the next one, the last until the end; of labels
\* with the same offset the last is shown.  A label below which there are others is divided in turn.
createPropArray(labels, relIndex, elemSize, struct) ==
  LET Rows[path \in {struct} \cup {l[1] : l \in Range(labels)}, size \in 0..elemSize] ==
        LET props   == getSubLabels(labels, path)
            starts  == {p[2] : p \in Range(props)}
            offsets == SetToSortSeq(starts, <) \o <<Min(starts) + size>>
            At(o)   == SelectLastInSeq(props, LAMBDA p : p[2] = o)
        IN UNION {LET prop == props[At(offsets[i])][1]
                      len  == offsets[i + 1] - offsets[i]
                  IN IF getSubLabels(labels, prop) # <<>> THEN Rows[prop, len]
                     ELSE {[path |-> prop, index |-> relIndex, at |-> relIndex + offsets[i], size |-> len]}
                  : i \in 1..(Len(offsets) - 1)}
  IN Rows[struct, elemSize]

\* StructVar.createPropArray: an array has a row for each of its elements
StructRows(labels, count, elemSize, struct) ==
  UNION {createPropArray(labels, i * elemSize, elemSize, struct) : i \in 0..(IF count <= 1 THEN 0 ELSE count - 1)}

\* A dump: its address, how far the memory of the struct around it begins before it (inStruct: the
\* memory is the struct's), and the size and order of its elements.
Dump(addr, inStruct, memOffset, elemSize, littleEndian) ==
  [addr |-> addr, inStruct |-> inStruct, memOffset |-> memOffset, elemSize |-> elemSize, littleEndian |-> littleEndian]

\* MemDumpVar.getContent, for the elements that vscode asks for: in a struct the place of the
\* first counts twice in the address that is told.
DumpContent(dump, memory, structMemory, start, count) ==
  LET addr   == dump.addr + start * dump.elemSize
      offset == dump.memOffset + IF dump.inStruct THEN start * dump.elemSize ELSE 0
      read   == IF dump.inStruct THEN structMemory ELSE SubSeq(memory, addr + 1, addr + count * dump.elemSize)
  IN [i \in 1..count |->
        [name  |-> start + i - 1,
         told  |-> addr + offset + (i - 1) * dump.elemSize,
         value |-> getUintFromMemory(read, offset + (i - 1) * dump.elemSize, dump.elemSize, dump.littleEndian)]]

\* MemDumpVar.setValue: the low byte first, whatever the order; above four bytes there is nothing
DumpAddress(dump, name) == dump.addr + dump.memOffset + name * dump.elemSize
DumpBytes(dump, value) ==
  LET Rest[i \in 0..dump.elemSize] == IF i = 0 THEN value ELSE Rest[i - 1] \div 256
  IN [i \in 1..dump.elemSize |-> IF i <= 4 THEN Rest[i - 1] % 256 ELSE 0]

Written(memory, addr, bytes) ==
  [i \in DOMAIN memory |-> IF i - addr \in DOMAIN bytes THEN bytes[i - addr] ELSE memory[i]]

\* SystemVariablesVar: names, addresses and sizes
SystemVariables == <<
  <<"ERR_NR", \h4000, 1>>, <<"FLAGS", \h4001, 1>>, <<"ERR_SP", \h4002, 2>>, <<"RAMTOP", \h4004, 2>>,
  <<"MODE", \h4006, 1>>, <<"PPC", \h4007, 2>>, <<"VERSN", \h4009, 1>>, <<"E_PPC", \h400A, 2>>,
  <<"D_FILE", \h400C, 2>>, <<"DF_CC", \h400E, 2>>, <<"VARS", \h4010, 2>>, <<"DEST", \h4012, 2>>,
  <<"E_LINE", \h4014, 2>>, <<"CH_ADD", \h4016, 2>>, <<"X_PTR", \h4018, 2>>, <<"STKBOT", \h401A, 2>>,
  <<"STKEND", \h401C, 2>>, <<"BERG", \h401E, 1>>, <<"MEM", \h401F, 2>>, <<"SPARE1", \h4021, 1>>,
  <<"DF_SZ", \h4022, 1>>, <<"S_TOP", \h4023, 2>>, <<"LAST_K", \h4025, 2>>, <<"DB_ST", \h4027, 1>>,
  <<"MARGIN", \h4028, 1>>, <<"NXTLIN", \h4029, 2>>, <<"OLDPPC", \h402B, 2>>, <<"FLAGX", \h402D, 1>>,
  <<"STRLEN", \h402E, 2>>, <<"T_ADDR", \h4030, 2>>, <<"SEED", \h4032, 2>>, <<"FRAMES", \h4034, 2>>,
  <<"COORD_X", \h4036, 1>>, <<"COORD_Y", \h4037, 1>>, <<"PR_CC", \h4038, 1>>, <<"S_POSN_C", \h4039, 1>>,
  <<"S_POSN_L", \h403A, 1>>, <<"CDFLAG", \h403B, 1>>, <<"PRBUF", \h403C, \h21>>, <<"MEMBOT", \h405D, \h1E>>,
  <<"SPARE2", \h407B, 2>> >>

\* what is read of the memory for them
SystemMemory == \h4000..(\h4000 + \h7D - 1)

------------------------------------------------------------------------------
(* What is promised                                                         *)

\* The rows of a struct show each of its bytes once, behind the label it lies at.
RowsTile(labels, count, elemSize, struct) ==
  LET rows == StructRows(labels, count, elemSize, struct)
  IN /\ \A b \in 0..(count * elemSize - 1) :
          Cardinality({r \in rows : b \in r.at..(r.at + r.size - 1)}) = 1
     /\ \A r \in rows : /\ <<r.path, r.at - r.index>> \in Range(labels)
                        /\ r.at + r.size <= count * elemSize

\* A row of a dump tells the address it shows, and setting it changes what is shown there.
DumpTells(dump, memory, structMemory, start, count) ==
  LET rows == DumpContent(dump, memory, structMemory, start, count)
  IN \A i \in 1..count :
       /\ rows[i].told = DumpAddress(dump, rows[i].name)
       /\ rows[i].value = getUintFromMemory(memory, rows[i].told, dump.elemSize, dump.littleEndian)

DumpSets(dump, memory, start, value) ==
  LET addr  == DumpAddress(dump, start)
      after == Written(memory, addr, DumpBytes(dump, value))
  IN /\ getUintFromMemory(after, addr, dump.elemSize, dump.littleEndian) = value % (256 ^ dump.elemSize)
     /\ \A i \in DOMAIN memory : after[i] # memory[i] => i - 1 \in addr..(addr + dump.elemSize - 1)

\* A value that is written is read again, modulo its size.
WrittenIsRead(value, count, littleEndian) ==
  getUintFromMemory(setUintToMemory(value, count, littleEndian), 0, count, littleEndian) = value % (256 ^ count)

\* the same where numbers do not reach: the bytes of -1 and of small numbers
SameBytes(value, count, littleEndian) ==
  LET bytes == setUintToMemory(value, count, littleEndian)
  IN \A i \in 1..count :
       bytes[i] = IF value = -1 THEN 255 ELSE IF i = (IF littleEndian THEN 1 ELSE count) THEN value ELSE 0

\* No two system variables overlap, and none lies outside of what is read.
SystemVariablesAreApart ==
  \A i, j \in DOMAIN SystemVariables :
    LET Bytes(k) == SystemVariables[k][2]..(SystemVariables[k][2] + SystemVariables[k][3] - 1)
    IN Bytes(i) \subseteq SystemMemory /\ (i # j => Bytes(i) \cap Bytes(j) = {})
==============================================================================
