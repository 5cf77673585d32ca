------------------------------ MODULE ArrayLayout ------------------------------
(***************************************************************************)
(* ArrayLayout of mem_db: rows of equal size on a shared memory segment, a *)
(* stack of free slots and a bit map of the slots in use.  A row is added  *)
(* at the slot on top of the stack, and found, updated or deleted by       *)
(* comparing some of its columns.  One process calls it.                   *)
(*                                                                         *)
(* Memory is a row of cells, one for a column, zero when the segment is    *)
(* created.  Row s begins at cell s * Columns, column j of it is at        *)
(* Loc(j): the columns have one width.                                     *)
(***************************************************************************)
EXTENDS Naturals, Sequences, FiniteSets

CONSTANTS
    MAX_OBJ_NUM,          \* slots, and bits of a word of the bit map
    MAX_BIT,              \* the last bit number that is looked at, plus one
    Columns,              \* columns of a row
    Vals,                 \* values of a column, 0 among them
    Values,               \* values an update is given, of any number of cells
    MaxUpdates            \* bound: updates in a behaviour

ASSUME SizesAssumption ==
    /\ MAX_OBJ_NUM \in Nat \ {0}
    /\ MAX_BIT \in Nat /\ MAX_BIT >= MAX_OBJ_NUM
    /\ Columns \in Nat \ {0}
    /\ MaxUpdates \in Nat
ASSUME ValsAssumption == 0 \in Vals /\ Values \subseteq Seq(Vals)

VARIABLES
    pstack,               \* the free slots: the first capacity entries
    capacity,
    bits,                 \* BitMap::bits, the set of its one bits
    mem,                  \* m_vpData
    up,                   \* the process has not been ended by an assertion
    shiftWraps,           \* what 1 << n does beyond the width of the word
    last,                 \* the last operation and its result
    rows,                 \* history: the rows added, in order
    updates               \* history: updates that found a row

layout == <<pstack, capacity, bits>>
vars == <<layout, mem, up, shiftWraps, last, rows, updates>>

Slots == 0..(MAX_OBJ_NUM - 1)
Cells == 0..(MAX_BIT * Columns - 1)
Row == [1..Columns -> Vals]
Loc(column) == column - 1

(* A Comparable: columns of the layout and the values asked for. *)
Comparables ==
    UNION {{c \in [1..n -> (1..Columns) \X Vals] :
              \A i, j \in 1..n : i # j => c[i][1] # c[j][1]} :
           n \in 1..(IF Columns > 2 THEN 2 ELSE Columns)}

Nothing == [op |-> "none", comp |-> <<>>, found |-> <<>>]

Init ==
    /\ pstack = [i \in Slots |-> i]
    /\ capacity = MAX_OBJ_NUM
    /\ bits = {}
    /\ mem = [a \in Cells |-> 0]
    /\ up = TRUE
    /\ shiftWraps \in BOOLEAN
    /\ last = Nothing
    /\ rows = <<>>
    /\ updates = 0

------------------------------------------------------------------------------
(* BitMap.  Bit numbers begin at 1.  A shift by the width of the word or   *)
(* more is undefined: it wraps around or leaves nothing.                   *)

Shift(n) ==
    IF n < MAX_OBJ_NUM THEN {n}
    ELSE IF shiftWraps THEN {n % MAX_OBJ_NUM} ELSE {}

is_on(bitNum) == Shift(bitNum - 1) \cap bits # {}

------------------------------------------------------------------------------
(* addEntry: the assertion of bit_on ends the process for bit 0, and for   *)
(* the INV_LOCATION of an empty stack.                                     *)

Place(slot, row) ==
    [a \in Cells |->
       IF a \in (slot * Columns)..(slot * Columns + Columns - 1)
         THEN row[a - slot * Columns + 1] ELSE mem[a]]

addEntry_Overlaps(row) ==
    /\ up
    /\ capacity > 0
    /\ pstack[capacity - 1] # 0
    /\ LET slot == pstack[capacity - 1] IN
         /\ capacity' = capacity - 1
         /\ bits' = bits \cup Shift(slot - 1)
         /\ mem' = [a \in Cells |->
                      IF a \in (slot * Columns)..(slot * Columns + Columns)
                        THEN row[((a - slot * Columns) % Columns) + 1]
                        ELSE mem[a]]
    /\ rows' = Append(rows, row)
    /\ last' = [op |-> "add", comp |-> <<>>, found |-> <<>>]
    /\ UNCHANGED <<pstack, up, shiftWraps, updates>>

addEntry_BitBehind(row) ==
    /\ up
    /\ capacity > 0
    /\ pstack[capacity - 1] # 0
    /\ LET slot == pstack[capacity - 1] IN
         /\ capacity' = capacity - 1
         /\ bits' = bits \cup Shift(slot)
         /\ mem' = Place(slot, row)
    /\ rows' = Append(rows, row)
    /\ last' = [op |-> "add", comp |-> <<>>, found |-> <<>>]
    /\ UNCHANGED <<pstack, up, shiftWraps, updates>>

addEntry(row) ==
    /\ up
    /\ capacity > 0
    /\ pstack[capacity - 1] # 0
    /\ LET slot == pstack[capacity - 1] IN
         /\ capacity' = capacity - 1
         /\ bits' = bits \cup Shift(slot - 1)
         /\ mem' = Place(slot, row)
    /\ rows' = Append(rows, row)
    /\ last' = [op |-> "add", comp |-> <<>>, found |-> <<>>]
    /\ UNCHANGED <<pstack, up, shiftWraps, updates>>

addEntryAborts ==
    /\ up
    /\ capacity > 0 => pstack[capacity - 1] = 0
    /\ capacity' = IF capacity > 0 THEN capacity - 1 ELSE 0
    /\ up' = FALSE
    /\ UNCHANGED <<pstack, bits, mem, shiftWraps, last, rows, updates>>

------------------------------------------------------------------------------
(* findEntry goes over the bits from 1 to MAX_BIT - 1.  matchesFound is    *)
(* set to zero when a row is found, and not when the next row begins.      *)

Matching(comp, obj) ==
    {i \in DOMAIN comp : mem[obj * Columns + Loc(comp[i][1])] = comp[i][2]}

findEntry_NoReset(comp) ==
    LET scan[obj \in 0..(MAX_BIT - 1)] ==
          IF obj = 0 THEN [matches |-> 0, found |-> <<>>]
          ELSE LET before == scan[obj - 1]
                   matches == before.matches + Cardinality(Matching(comp, obj))
               IN IF ~is_on(obj) THEN before
                  ELSE IF before.matches < Len(comp) /\ matches >= Len(comp)
                    THEN [matches |-> Len(comp),
                          found |-> Append(before.found, obj)]
                    ELSE [before EXCEPT !.matches = matches]
    IN scan[MAX_BIT - 1].found

findEntry_KeepsCount(comp) ==
    LET scan[obj \in 0..(MAX_BIT - 1)] ==
          IF obj = 0 THEN [matches |-> 0, found |-> <<>>]
          ELSE LET before == scan[obj - 1]
                   matches == before.matches + Cardinality(Matching(comp, obj))
               IN IF ~is_on(obj) THEN before
                  ELSE [matches |-> matches,
                        found |-> IF matches >= Len(comp)
                                    THEN Append(before.found, obj)
                                    ELSE before.found]
    IN scan[MAX_BIT - 1].found

findEntry(comp) ==
    LET scan[obj \in 0..(MAX_BIT - 1)] ==
          IF obj = 0 THEN [matches |-> 0, found |-> <<>>]
          ELSE LET before == scan[obj - 1]
                   matches == before.matches + Cardinality(Matching(comp, obj))
               IN IF ~is_on(obj) THEN before
                  ELSE IF matches >= Len(comp)
                    THEN [matches |-> 0, found |-> Append(before.found, obj)]
                    ELSE [before EXCEPT !.matches = matches]
    IN scan[MAX_BIT - 1].found

(* ResultBuff has room for MAX_OBJ_NUM rows, and findEntry does not look:  *)
(* the model takes a write behind its end for the end of the process.      *)
Fits(found) == Len(found) <= MAX_OBJ_NUM

find(comp) ==
    /\ up
    /\ LET found == findEntry(comp) IN
         \/ /\ Fits(found)
            /\ last' = [op |-> "find", comp |-> comp, found |-> found]
            /\ UNCHANGED up
         \/ ~Fits(found) /\ up' = FALSE /\ UNCHANGED last
    /\ UNCHANGED <<layout, mem, shiftWraps, rows, updates>>

(* A Comparable names its columns, and get_def_by_name has a null pointer  *)
(* for a name that is none: finding, updating or deleting by it ends the   *)
(* process at the first row, and does nothing when there is no row.        *)
findByUnknownName ==
    /\ up
    /\ \E obj \in 1..(MAX_BIT - 1) : is_on(obj)
    /\ up' = FALSE
    /\ UNCHANGED <<layout, mem, shiftWraps, last, rows, updates>>

(* delEntry finds the rows and counts them; the lines that would push the  *)
(* slots and clear the bits are commented out.                             *)
delEntry(comp) ==
    /\ up
    /\ LET found == findEntry(comp) IN
         \/ /\ Fits(found)
            /\ last' = [op |-> "del", comp |-> comp, found |-> found]
            /\ UNCHANGED up
         \/ ~Fits(found) /\ up' = FALSE /\ UNCHANGED last
    /\ UNCHANGED <<layout, mem, shiftWraps, rows, updates>>

------------------------------------------------------------------------------
(* updateEntry writes the new value of each column asked for in each row   *)
(* found.  Its pointer only moves on, by the row's offset for each row and *)
(* by the column's for each column.                                        *)

Step_Twice(comp, found, k) ==
    LET i == ((k - 1) \div Len(comp)) + 1
        j == ((k - 1) % Len(comp)) + 1
    IN (IF j = 1 THEN found[i] * Columns ELSE 0) + 2 * Loc(comp[j][1])

Step(comp, found, k) ==
    LET i == ((k - 1) \div Len(comp)) + 1
        j == ((k - 1) % Len(comp)) + 1
    IN (IF j = 1 THEN found[i] * Columns ELSE 0) + Loc(comp[j][1])

(* The pointer and the memory after the last of these writes, and the      *)
(* first cell behind all of them.  A value has its own number of cells,    *)
(* which need not be that of the column.                                   *)
Written(comp, found, new) ==
    LET writes == Len(found) * Len(comp)
        after[k \in 0..writes] ==
          IF k = 0 THEN [at |-> 0, end |-> 0, mem |-> mem]
          ELSE LET before == after[k - 1]
                   at == before.at + Step(comp, found, k)
                   value == new[((k - 1) % Len(comp)) + 1]
               IN [at |-> at,
                   end |-> IF at + Len(value) > before.end
                             THEN at + Len(value) ELSE before.end,
                   mem |-> [a \in Cells |->
                              IF a \in at..(at + Len(value) - 1)
                              THEN value[a - at + 1]
                              ELSE before.mem[a]]]
    IN after[writes]

(* A result that does not fit or a write outside the segment ends the      *)
(* process; when no row is found, updateEntry returns 0.                   *)
updateEntry(comp) ==
    /\ up
    /\ LET found == findEntry(comp) IN
         \/ /\ found = <<>>
            /\ last' = [op |-> "update", comp |-> comp, found |-> found,
                        new |-> <<>>]
            /\ UNCHANGED <<mem, up, updates>>
         \/ /\ found # <<>> /\ Fits(found)
            /\ updates < MaxUpdates
            /\ \E new \in [1..Len(comp) -> Values] :
                 LET written == Written(comp, found, new) IN
                 \/ /\ written.end <= MAX_BIT * Columns
                    /\ mem' = written.mem
                    /\ last' = [op |-> "update", comp |-> comp,
                                found |-> found, new |-> new]
                    /\ updates' = updates + 1
                    /\ UNCHANGED up
                 \/ /\ written.end > MAX_BIT * Columns
                    /\ up' = FALSE
                    /\ UNCHANGED <<mem, last, updates>>
         \/ ~Fits(found) /\ up' = FALSE /\ UNCHANGED <<mem, last, updates>>
    /\ UNCHANGED <<layout, shiftWraps, rows>>

Next ==
    \/ \E row \in Row : addEntry(row)
    \/ addEntryAborts
    \/ findByUnknownName
    \/ \E comp \in Comparables :
         \/ find(comp)
         \/ delEntry(comp)
         \/ updateEntry(comp)

Spec == Init /\ [][Next]_vars

------------------------------------------------------------------------------
(* Properties. *)

TypeOK ==
    /\ pstack \in [Slots -> Slots]
    /\ capacity \in 0..MAX_OBJ_NUM
    /\ bits \subseteq Slots
    /\ mem \in [Cells -> Vals]
    /\ up \in BOOLEAN
    /\ shiftWraps \in BOOLEAN
    /\ last.op \in {"none", "add", "find", "del", "update"}
    /\ rows \in Seq(Row)
    /\ updates \in 0..MaxUpdates

UsedSlots == {s \in Slots \ {0} : s - 1 \in bits}
FreeSlots == {pstack[i] : i \in 0..(capacity - 1)}

(* As long as the process runs, a slot is either free or in use, and no    *)
(* slot is free twice: a row added never lands on another one.             *)
SlotsAccounted ==
    up => /\ FreeSlots \cup UsedSlots = Slots
          /\ FreeSlots \cap UsedSlots = {}
          /\ Cardinality(FreeSlots) = capacity

RowAt(slot) == [j \in 1..Columns |-> mem[slot * Columns + Loc(j)]]

(* Slots are given out from the last one down, and each row stays what it  *)
(* was when it was added, until something is updated.                      *)
RowsStayPut ==
    updates = 0 =>
      \A k \in 1..Len(rows) : RowAt(MAX_OBJ_NUM - k) = rows[k]

(* Behind the two: the stack holds every slot below capacity in order, the *)
(* bits are those of the slots above, and a row was added for each.        *)
SlotOrder ==
    /\ pstack = [i \in Slots |-> i]
    /\ capacity \in 0..MAX_OBJ_NUM
    /\ up => /\ capacity >= 1
             /\ bits = {s - 1 : s \in capacity..(MAX_OBJ_NUM - 1)}
             /\ Len(rows) = MAX_OBJ_NUM - capacity
    /\ rows \in Seq(Row)
    /\ updates \in Nat

(* The invariant that every step preserves: RowsStayPut alone is not, for  *)
(* it does not say which slot the next row gets.                           *)
IInv == SlotOrder /\ RowsStayPut

FoundRows == {last.found[i] : i \in DOMAIN last.found}
Matches(comp, slot) == Matching(comp, slot) = DOMAIN comp

(* A search misses no row of the layout that has all the values asked for, *)
(* whatever rows that match in part come before it.                        *)
FindsAll ==
    last.op \in {"find", "del"} =>
      {s \in UsedSlots : Matches(last.comp, s)} \subseteq FoundRows

(* Whatever it carries from row to row, a search answers with rows only    *)
(* whose bit is on and that have one of the values asked for: by one       *)
(* column, with those that have the value.                                 *)
FoundByMatches ==
    last.op = "find" =>
      \A s \in FoundRows : is_on(s) /\ Matching(last.comp, s) # {}

(* An update by one column that finds one row writes from that column of   *)
(* that row on, as many cells as the value has, and changes no other.      *)
UpdateOneValue ==
    [][last'.op = "update" /\ Len(last'.comp) = 1 /\ Len(last'.found) = 1
       => LET at == last'.found[1] * Columns + Loc(last'.comp[1][1]) IN
          \A a \in Cells :
            a \notin at..(at + Len(last'.new[1]) - 1)
              => mem'[a] = mem[a]]_vars

------------------------------------------------------------------------------
(* What comments and tests of the repository claim, and the code does not  *)
(* do.                                                                     *)

(* data_structs.h:81: "the highest bit possible is 31". *)
FoundIsSlot == FoundRows \subseteq Slots

(* layouts.h:367: "obj %u matches nicely", printed of every row found. *)
FoundMatches ==
    last.op = "find" => \A s \in FoundRows : Matches(last.comp, s)

(* layouts.h:303: "This simply marks the bits as available again". *)
DeletedIsFree ==
    last.op = "del" => FoundRows \cap UsedSlots = {}

(* layouts_tests.cpp:233: of a row updated by two columns, the test wants  *)
(* the second one changed as well, and so no other row.                    *)
UpdateStaysInRows ==
    [][last'.op = "update" /\ Len(last'.found) = 1
       => \A a \in Cells :
            mem'[a] # mem[a] => a \div Columns = last'.found[1]]_vars
==============================================================================
