----------------------------- MODULE MemDb_proofs -----------------------------
(***************************************************************************)
(* Proofs about mem_db, its ArrayLayout and its MemDbServer.               *)
(*                                                                         *)
(* The layout: its slots are all accounted for, a row stays what it was    *)
(* when it was added until something is updated, a search misses no row,   *)
(* and an update by one column writes one cell.  findEntry and Written are *)
(* recursive functions over a bound that is a constant or depends on the   *)
(* state.  What they compute is proved by induction, in the form of        *)
(* SetInduction.                                                           *)
(*                                                                         *)
(* The server: its segment and the tool, for any servers, keys and size.   *)
(***************************************************************************)
EXTENDS ArrayLayout, MemDbServer, FiniteSetTheorems, SequenceTheorems, WellFoundedInduction,
        TLAPS

(* Rows of distinct slots share no cell: a slot's row ends where the next  *)
(* one's begins, at the latest.                                            *)
LEMMA RowsApart ==
    ASSUME NEW s \in Nat, NEW t \in Nat, NEW c \in Nat, s < t
    PROVE  s * c + c <= t * c
<1>1. PICK d \in Nat : t = s + 1 + d
  <2>1. t - (s + 1) \in Nat /\ t = s + 1 + (t - (s + 1))
    BY SMT
  <2> QED BY <2>1
<1>2. t * c = s * c + c + d * c
  BY <1>1, SMT
<1>3. s * c \in Nat /\ d * c \in Nat
  BY <1>1, SMT
<1> QED BY <1>2, <1>3, SMT

(* A slot's own bit lies within the word. *)
LEMMA OwnBit ==
    ASSUME NEW slot \in Slots \ {0}
    PROVE  Shift(slot - 1) = {slot - 1}
BY SizesAssumption, SMT DEF Shift, Slots

(* Placing a row leaves the rows of all other slots as they are. *)
LEMMA PlaceElsewhere ==
    ASSUME NEW slot \in Slots, NEW other \in Slots, other # slot,
           NEW row \in Row, mem' = Place(slot, row)
    PROVE  RowAt(other)' = RowAt(other)
<1>1. ASSUME NEW j \in 1..Columns
      PROVE  LET a == other * Columns + Loc(j) IN mem'[a] = mem[a]
  <2> DEFINE a == other * Columns + (j - 1)
  <2>1. /\ slot \in Nat /\ other \in Nat /\ Columns \in Nat \ {0}
        /\ MAX_BIT \in Nat /\ slot < MAX_BIT /\ other < MAX_BIT
    BY SizesAssumption, SMT DEF Slots
  <2>2. other * Columns \in Nat /\ slot * Columns \in Nat
        /\ MAX_BIT * Columns \in Nat
    BY <2>1, SMT
  <2>3. other * Columns + Columns <= MAX_BIT * Columns
    BY <2>1, RowsApart
  <2>4. a \in Cells
    BY <2>1, <2>2, <2>3, <1>1, SMT DEF Cells
  <2>5. a \notin (slot * Columns)..(slot * Columns + Columns - 1)
    <3>1. CASE other < slot
      <4>1. other * Columns + Columns <= slot * Columns
        BY <3>1, <2>1, RowsApart
      <4> QED BY <4>1, <2>1, <2>2, <1>1, SMT
    <3>2. CASE slot < other
      <4>1. slot * Columns + Columns <= other * Columns
        BY <3>2, <2>1, RowsApart
      <4> QED BY <4>1, <2>1, <2>2, <1>1, SMT
    <3> QED BY <3>1, <3>2, <2>1, SMT
  <2> QED BY <2>4, <2>5 DEF Place, Loc
<1> QED BY <1>1 DEF RowAt

(* A row placed is there. *)
LEMMA PlaceThere ==
    ASSUME NEW slot \in Slots, NEW row \in Row, mem' = Place(slot, row)
    PROVE  RowAt(slot)' = row
<1>1. ASSUME NEW j \in 1..Columns
      PROVE  mem'[slot * Columns + Loc(j)] = row[j]
  <2> DEFINE a == slot * Columns + (j - 1)
  <2>1. /\ slot \in Nat /\ Columns \in Nat \ {0}
        /\ MAX_BIT \in Nat /\ slot < MAX_BIT
    BY SizesAssumption, SMT DEF Slots
  <2>2. slot * Columns \in Nat /\ MAX_BIT * Columns \in Nat
    BY <2>1, SMT
  <2>3. slot * Columns + Columns <= MAX_BIT * Columns
    BY <2>1, RowsApart
  <2>4. a \in Cells
    BY <2>1, <2>2, <2>3, <1>1, SMT DEF Cells
  <2>5. a \in (slot * Columns)..(slot * Columns + Columns - 1)
    BY <2>1, <2>2, <1>1, SMT
  <2>6. a - slot * Columns + 1 = j
    BY <2>1, <2>2, <1>1, SMT
  <2> QED BY <2>4, <2>5, <2>6 DEF Place, Loc
<1>2. row = [j \in 1..Columns |-> row[j]]
  BY DEF Row
<1> QED BY <1>1, <1>2 DEF RowAt

------------------------------------------------------------------------------
(* The constructor leaves every slot on the stack and no bit on. *)
LEMMA InitInvariant == Init => IInv
<1> SUFFICES ASSUME Init PROVE IInv
  OBVIOUS
<1>1. SlotOrder
  <2>1. {s - 1 : s \in MAX_OBJ_NUM..(MAX_OBJ_NUM - 1)} = {}
    BY SizesAssumption, SMT
  <2> QED BY <2>1, SizesAssumption, SMT DEF Init, SlotOrder, Slots, Row
<1>2. RowsStayPut
  BY SMT DEF Init, RowsStayPut
<1> QED BY <1>1, <1>2 DEF IInv

(* A row added takes the last free slot; its bit joins those above it. *)
LEMMA AddEntryInvariant ==
    ASSUME IInv, NEW row \in Row, addEntry(row)
    PROVE  IInv'
<1> DEFINE slot == pstack[capacity - 1]
<1>1. /\ capacity \in 1..MAX_OBJ_NUM /\ MAX_OBJ_NUM \in Nat \ {0}
      /\ slot = capacity - 1 /\ slot # 0 /\ slot \in Slots
      /\ capacity' = capacity - 1 /\ mem' = Place(slot, row)
      /\ rows' = Append(rows, row) /\ up /\ up' /\ pstack' = pstack
      /\ updates' = updates /\ bits' = bits \cup Shift(slot - 1)
  BY SizesAssumption, SMT DEF IInv, SlotOrder, addEntry, Slots
<1>2. rows' \in Seq(Row) /\ Len(rows') = Len(rows) + 1
      /\ Len(rows) = MAX_OBJ_NUM - capacity
  BY <1>1, SMT DEF IInv, SlotOrder
<1>3. SlotOrder'
  <2>1. bits' = bits \cup {capacity - 2}
    BY <1>1, OwnBit
  <2>2. bits' = {s - 1 : s \in (capacity - 1)..(MAX_OBJ_NUM - 1)}
    <3>1. bits = {s - 1 : s \in capacity..(MAX_OBJ_NUM - 1)}
      BY <1>1 DEF IInv, SlotOrder
    <3>2. (capacity - 1)..(MAX_OBJ_NUM - 1)
            = {capacity - 1} \cup capacity..(MAX_OBJ_NUM - 1)
      BY <1>1, SMT
    <3>3. {s - 1 : s \in {capacity - 1}} = {capacity - 2}
      BY <1>1, SMT
    <3> QED BY <2>1, <3>1, <3>2, <3>3, Zenon
  <2>3. /\ capacity' \in 0..MAX_OBJ_NUM /\ capacity' >= 1
        /\ Len(rows') = MAX_OBJ_NUM - capacity'
    BY <1>1, <1>2, SMT
  <2> QED BY <1>1, <1>2, <2>2, <2>3 DEF IInv, SlotOrder, Slots
<1>4. RowsStayPut'
  <2> SUFFICES ASSUME updates' = 0, NEW k \in 1..Len(rows')
               PROVE  RowAt(MAX_OBJ_NUM - k)' = rows'[k]
    BY DEF RowsStayPut
  <2>1. CASE k = Len(rows')
    <3>1. MAX_OBJ_NUM - k = slot /\ rows'[k] = row
      BY <2>1, <1>1, <1>2, SMT DEF IInv, SlotOrder
    <3> QED BY <3>1, <1>1, PlaceThere
  <2>2. CASE k # Len(rows')
    <3>1. k \in 1..Len(rows) /\ rows'[k] = rows[k]
      BY <2>2, <1>1, <1>2, SMT DEF IInv, SlotOrder
    <3>2. MAX_OBJ_NUM - k \in Slots /\ MAX_OBJ_NUM - k # slot
      BY <3>1, <1>1, <1>2, SMT DEF Slots
    <3>3. RowAt(MAX_OBJ_NUM - k) = rows[k]
      BY <3>1, <1>1 DEF IInv, RowsStayPut
    <3> QED BY <3>1, <3>2, <3>3, <1>1, PlaceElsewhere
  <2> QED BY <2>1, <2>2
<1> QED BY <1>3, <1>4 DEF IInv

(* What leaves the slots and the rows added alone preserves the invariant  *)
(* when it leaves the memory alone, or counts as an update.                *)
LEMMA UndisturbedInvariant ==
    ASSUME IInv, UNCHANGED <<layout, rows>>, up' => up,
           \/ UNCHANGED <<mem, updates>>
           \/ updates' = updates + 1
    PROVE  IInv'
<1>1. SlotOrder'
  BY SMT DEF IInv, SlotOrder, layout
<1>2. RowsStayPut'
  <2>1. CASE UNCHANGED <<mem, updates>>
    BY <2>1 DEF IInv, RowsStayPut, RowAt
  <2>2. CASE updates' = updates + 1
    BY <2>2, SMT DEF IInv, SlotOrder, RowsStayPut
  <2> QED BY <2>1, <2>2
<1> QED BY <1>1, <1>2 DEF IInv

(* No operation of the layout breaks the invariant. *)
LEMMA NextInvariant ==
    ASSUME IInv, [Next]_vars
    PROVE  IInv'
<1>1. ASSUME NEW row \in Row, addEntry(row) PROVE IInv'
  BY <1>1, AddEntryInvariant
<1>2. CASE addEntryAborts
  <2>1. SlotOrder'
    BY <1>2, SizesAssumption, SMT DEF IInv, SlotOrder, addEntryAborts
  <2>2. RowsStayPut'
    BY <1>2 DEF IInv, RowsStayPut, RowAt, addEntryAborts
  <2> QED BY <2>1, <2>2 DEF IInv
<1>3. ASSUME NEW comp \in Comparables, find(comp) PROVE IInv'
  BY <1>3, UndisturbedInvariant DEF find
<1>4. ASSUME NEW comp \in Comparables, delEntry(comp) PROVE IInv'
  BY <1>4, UndisturbedInvariant DEF delEntry
<1>5. ASSUME NEW comp \in Comparables, updateEntry(comp) PROVE IInv'
  <2>1. /\ UNCHANGED <<layout, rows>> /\ up
        /\ UNCHANGED <<mem, updates>> \/ updates' = updates + 1
    BY <1>5, Zenon DEF updateEntry
  <2> QED BY <2>1, UndisturbedInvariant
<1>6. CASE UNCHANGED vars
  BY <1>6, UndisturbedInvariant DEF vars
<1>7. CASE findByUnknownName
  BY <1>7, UndisturbedInvariant DEF findByUnknownName
<1> QED BY <1>1, <1>2, <1>3, <1>4, <1>5, <1>6, <1>7 DEF Next

(* SlotOrder and RowsStayPut hold in every state: whatever is added, the   *)
(* stack and the bit map of the constructor and of addEntry stay in step.  *)
THEOREM Invariance == Spec => []IInv
<1>1. Init => IInv
  BY InitInvariant
<1>2. IInv /\ [Next]_vars => IInv'
  BY NextInvariant
<1> QED BY <1>1, <1>2, PTL DEF Spec

(* addEntry never hands out a slot that is in use, nor loses one.          *)
LEMMA SlotOrderAccounts == SlotOrder => SlotsAccounted
<1> SUFFICES ASSUME SlotOrder, up PROVE SlotsAccounted
  BY DEF SlotsAccounted
<1>1. /\ capacity \in 1..MAX_OBJ_NUM /\ MAX_OBJ_NUM \in Nat
      /\ bits = {s - 1 : s \in capacity..(MAX_OBJ_NUM - 1)}
      /\ Len(rows) = MAX_OBJ_NUM - capacity
  BY SizesAssumption, SMT DEF SlotOrder
<1>2. FreeSlots = 0..(capacity - 1)
  BY <1>1, SMT DEF SlotOrder, FreeSlots, Slots
<1>3. UsedSlots = capacity..(MAX_OBJ_NUM - 1)
  BY <1>1, SMT DEF UsedSlots, Slots
<1>4. Cardinality(FreeSlots) = capacity
  <2>1. Cardinality(0..(capacity - 1)) = capacity - 1 - 0 + 1
    BY <1>1, FS_Interval, SMT
  <2> QED BY <2>1, <1>1, <1>2, SMT
<1>5. FreeSlots \cup UsedSlots = Slots /\ FreeSlots \cap UsedSlots = {}
  BY <1>1, <1>2, <1>3, SMT DEF Slots
<1> QED BY <1>1, <1>4, <1>5, SMT DEF SlotsAccounted

(* Of the slots of the layout, each is on the stack or has its bit set,    *)
(* never both, for every number of slots.                                  *)
THEOREM SlotAccounting == Spec => []SlotsAccounted
<1>1. IInv => SlotsAccounted
  BY SlotOrderAccounts DEF IInv
<1> QED BY <1>1, Invariance, PTL

(* A row keeps the slot and the values it was added with until the first   *)
(* update, for every number of slots and columns.                          *)
THEOREM RowPermanence == Spec => []RowsStayPut
<1>1. IInv => RowsStayPut
  BY DEF IInv
<1> QED BY <1>1, Invariance, PTL

------------------------------------------------------------------------------
(* Induction, said of sets so that it takes no operator.                   *)

LEMMA LeastNumber ==
    ASSUME NEW T, T \subseteq Nat, T # {}
    PROVE  \E x \in T : \A y \in T : x <= y
<1>1. IsWellFoundedOn(OpToRel(<, Nat), Nat)
  BY NatLessThanWellFounded
<1>2. PICK x \in T : \A y \in T : ~(<<y, x>> \in OpToRel(<, Nat))
  BY <1>1, WFMin
<1>3. \A y \in T : <<y, x>> \in OpToRel(<, Nat) <=> y < x
  BY DEF OpToRel
<1>4. \A y \in T : ~(y < x)
  BY <1>2, <1>3
<1>5. \A y \in T : y \in Nat /\ x \in Nat
  OBVIOUS
<1> QED
  BY <1>4, <1>5

LEMMA SetInduction ==
    ASSUME NEW S, 0 \in S, \A n \in Nat : n \in S => n + 1 \in S
    PROVE  Nat \subseteq S
<1> SUFFICES ASSUME Nat \ S # {} PROVE FALSE
  OBVIOUS
<1>1. PICK x \in Nat \ S : \A y \in Nat \ S : x <= y
  BY LeastNumber
<1>2. x # 0 /\ x - 1 \in Nat
  BY <1>1
<1>3. x - 1 \in S
  BY <1>1, <1>2
<1> QED
  BY <1>1, <1>2, <1>3

------------------------------------------------------------------------------
(* The scan of findEntry: what one bit makes of the scan so far.           *)

Scanned(comp, before, obj) ==
    LET matches == before.matches + Cardinality(Matching(comp, obj)) IN
    IF ~is_on(obj) THEN before
    ELSE IF matches >= Len(comp)
      THEN [matches |-> 0, found |-> Append(before.found, obj)]
      ELSE [before EXCEPT !.matches = matches]

NothingScanned == [matches |-> 0, found |-> <<>>]

IsScan(comp, n, f) ==
    f = [obj \in 0..n |->
           IF obj = 0 THEN NothingScanned ELSE Scanned(comp, f[obj - 1], obj)]

(* There is a scan of any number of bits. *)
LEMMA ScanExists ==
    ASSUME NEW comp
    PROVE  \A n \in Nat : \E f : IsScan(comp, n, f)
<1> DEFINE S == {n \in Nat : \E f : IsScan(comp, n, f)}
<1>1. 0 \in S
  <2>1. IsScan(comp, 0, [obj \in 0..0 |-> NothingScanned])
    BY DEF IsScan
  <2> QED BY <2>1
<1>2. ASSUME NEW n \in Nat, n \in S PROVE n + 1 \in S
  <2>1. PICK f : IsScan(comp, n, f)
    BY <1>2
  <2> DEFINE g == [obj \in 0..(n + 1) |->
                     IF obj = n + 1 THEN Scanned(comp, f[n], n + 1) ELSE f[obj]]
  <2>2. \A obj \in 0..(n + 1) :
          g[obj] = IF obj = 0 THEN NothingScanned
                   ELSE Scanned(comp, g[obj - 1], obj)
    <3> SUFFICES ASSUME NEW obj \in 0..(n + 1)
                 PROVE  g[obj] = IF obj = 0 THEN NothingScanned
                                 ELSE Scanned(comp, g[obj - 1], obj)
      OBVIOUS
    <3>1. CASE obj = n + 1
      BY <3>1
    <3>2. CASE obj # n + 1
      <4>1. obj \in 0..n /\ g[obj] = f[obj]
            /\ (obj # 0 => g[obj - 1] = f[obj - 1])
        BY <3>2
      <4>2. f[obj] = IF obj = 0 THEN NothingScanned
                     ELSE Scanned(comp, f[obj - 1], obj)
        BY <2>1, <4>1 DEF IsScan
      <4> QED BY <4>1, <4>2
    <3> QED BY <3>1, <3>2
  <2>3. IsScan(comp, n + 1, g)
    <3> DEFINE h == [obj \in 0..(n + 1) |->
                       IF obj = 0 THEN NothingScanned
                       ELSE Scanned(comp, g[obj - 1], obj)]
    <3>1. g = h
      BY <2>2
    <3> QED BY <3>1 DEF IsScan
  <2> HIDE DEF g
  <2>4. \E k : IsScan(comp, n + 1, k)
    BY <2>3
  <2> QED BY <2>4
<1> HIDE DEF S
<1>3. Nat \subseteq S
  BY <1>1, <1>2, SetInduction
<1> QED BY <1>3 DEF S

(* findEntry returns what the scan has found after the last bit. *)
LEMMA FindEntryScans ==
    ASSUME NEW comp
    PROVE  \E f : /\ IsScan(comp, MAX_BIT - 1, f)
                  /\ findEntry(comp) = f[MAX_BIT - 1].found
<1>1. MAX_BIT - 1 \in Nat
  BY SizesAssumption
<1>2. PICK f : IsScan(comp, MAX_BIT - 1, f)
  BY <1>1, ScanExists
<1> DEFINE scan == CHOOSE g : IsScan(comp, MAX_BIT - 1, g)
<1>3. IsScan(comp, MAX_BIT - 1, scan)
  BY <1>2
<1>4. findEntry(comp) = scan[MAX_BIT - 1].found
  BY DEF findEntry, IsScan, Scanned, NothingScanned
<1> QED BY <1>3, <1>4

(* How many values match is a number, all of them when the row matches. *)
LEMMA MatchingCount ==
    ASSUME NEW comp \in Comparables, NEW obj
    PROVE  /\ Len(comp) \in Nat \ {0} /\ DOMAIN comp = 1..Len(comp)
           /\ Cardinality(Matching(comp, obj)) \in 0..Len(comp)
           /\ Cardinality(Matching(comp, obj)) = Len(comp)
                <=> Matches(comp, obj)
           /\ Cardinality(Matching(comp, obj)) # 0
                => Matching(comp, obj) # {}
<1>1. PICK n \in Nat \ {0} : comp \in [1..n -> (1..Columns) \X Vals]
  BY SizesAssumption DEF Comparables
<1>2. Len(comp) = n /\ DOMAIN comp = 1..n
  BY <1>1
<1>3. IsFiniteSet(1..n) /\ Cardinality(1..n) = n
  BY <1>1, FS_Interval
<1>4. Matching(comp, obj) \in SUBSET (1..n)
  BY <1>2 DEF Matching
<1>5. /\ IsFiniteSet(Matching(comp, obj))
      /\ Cardinality(Matching(comp, obj)) <= n
      /\ Cardinality(1..n) = Cardinality(Matching(comp, obj))
           => 1..n = Matching(comp, obj)
  BY <1>3, <1>4, FS_Subset
<1>6. Cardinality(Matching(comp, obj)) \in Nat
  BY <1>5, FS_CardinalityType
<1>7. Matches(comp, obj) <=> Matching(comp, obj) = 1..n
  BY <1>2 DEF Matches
<1>8. Cardinality(Matching(comp, obj)) # 0 => Matching(comp, obj) # {}
  BY FS_EmptySet, Zenon
<1> QED BY <1>1, <1>2, <1>3, <1>5, <1>6, <1>7, <1>8

Collected(r) == {r.found[i] : i \in DOMAIN r.found}

(* Of the bits up to n, the scan has every one that is on and whose row    *)
(* matches, and none that has no value asked for.                          *)
ScanOK(comp, r, n) ==
    /\ r \in [matches : Nat, found : Seq(Nat)]
    /\ \A s \in 1..n : is_on(s) /\ Matches(comp, s) => s \in Collected(r)
    /\ r.matches < Len(comp)
    /\ \A s \in Collected(r) :
         s \in 1..n /\ is_on(s) /\ Matching(comp, s) # {}

LEMMA AppendCollects ==
    ASSUME NEW q \in Seq(Nat), NEW e \in Nat
    PROVE  /\ Append(q, e) \in Seq(Nat)
           /\ {Append(q, e)[i] : i \in DOMAIN Append(q, e)}
                = {q[i] : i \in DOMAIN q} \cup {e}
<1> DEFINE p == Append(q, e)
<1>1. /\ Len(q) \in Nat /\ p \in Seq(Nat) /\ Len(p) = Len(q) + 1
      /\ DOMAIN p = 1..(Len(q) + 1) /\ DOMAIN q = 1..Len(q)
      /\ \A i \in 1..Len(q) : p[i] = q[i]
      /\ p[Len(q) + 1] = e
  OBVIOUS
<1> HIDE DEF p
<1>2. \A i \in DOMAIN p : p[i] \in {q[k] : k \in DOMAIN q} \cup {e}
  BY <1>1, SMTT(30)
<1>3. \A i \in DOMAIN q : q[i] \in {p[k] : k \in DOMAIN p}
  BY <1>1
<1>4. e \in {p[k] : k \in DOMAIN p}
  BY <1>1
<1>5. {p[i] : i \in DOMAIN p} = {q[k] : k \in DOMAIN q} \cup {e}
  BY <1>2, <1>3, <1>4
<1> QED BY <1>1, <1>5 DEF p

LEMMA ScannedOK ==
    ASSUME NEW comp \in Comparables, NEW n \in Nat, NEW r, ScanOK(comp, r, n)
    PROVE  ScanOK(comp, Scanned(comp, r, n + 1), n + 1)
<1> DEFINE obj == n + 1
           count == Cardinality(Matching(comp, obj))
           after == Scanned(comp, r, obj)
<1>1. /\ Len(comp) \in Nat \ {0} /\ count \in 0..Len(comp)
      /\ count = Len(comp) <=> Matches(comp, obj)
      /\ count # 0 => Matching(comp, obj) # {}
  BY MatchingCount
<1>2. r.matches \in Nat /\ r.matches < Len(comp) /\ r.found \in Seq(Nat)
      /\ r = [matches |-> r.matches, found |-> r.found]
  BY DEF ScanOK
<1>3. 1..obj = (1..n) \cup {obj}
  OBVIOUS
<1> HIDE DEF obj, count
<1>4. obj \in Nat
  BY DEF obj
<1>5. CASE ~is_on(obj)
  <2>1. after = r
    BY <1>5 DEF Scanned
  <2> QED BY <2>1, <1>3, <1>5 DEF ScanOK, obj
<1>6. CASE is_on(obj) /\ r.matches + count >= Len(comp)
  <2>1. after = [matches |-> 0, found |-> Append(r.found, obj)]
    BY <1>6 DEF Scanned, count
  <2>2. /\ Append(r.found, obj) \in Seq(Nat)
        /\ Collected(after) = Collected(r) \cup {obj}
    <3>1. after.found = Append(r.found, obj)
      BY <2>1
    <3> HIDE DEF after
    <3>2. r.found \in Seq(Nat)
      BY <1>2
    <3>3. /\ Append(r.found, obj) \in Seq(Nat)
          /\ {Append(r.found, obj)[i] : i \in DOMAIN Append(r.found, obj)}
               = {r.found[i] : i \in DOMAIN r.found} \cup {obj}
      BY <3>2, <1>4, AppendCollects
    <3> QED BY <3>1, <3>3 DEF Collected
  <2>3. Matching(comp, obj) # {}
    BY <1>1, <1>2, <1>6
  <2> HIDE DEF after
  <2>4. /\ after \in [matches : Nat, found : Seq(Nat)] /\ after.matches = 0
    BY <2>1, <2>2
  <2>5. ScanOK(comp, after, obj)
    <3>1. after.matches < Len(comp)
      BY <2>4, <1>1
    <3>2. \A s \in Collected(after) :
            s \in 1..obj /\ is_on(s) /\ Matching(comp, s) # {}
      BY <2>2, <2>3, <1>3, <1>6 DEF ScanOK
    <3>3. \A s \in 1..obj : is_on(s) /\ Matches(comp, s)
                              => s \in Collected(after)
      BY <2>2, <1>3 DEF ScanOK
    <3> QED BY <2>4, <3>1, <3>2, <3>3 DEF ScanOK
  <2> QED BY <2>5 DEF after, obj
<1>7. CASE is_on(obj) /\ ~(r.matches + count >= Len(comp))
  <2>1. after = [r EXCEPT !.matches = r.matches + count]
    BY <1>7 DEF Scanned, count
  <2>2. r.matches + count \in Nat /\ count < Len(comp)
    BY <1>1, <1>2, <1>7
  <2>3. ~Matches(comp, obj)
    BY <1>1, <2>2
  <2>4. /\ after.matches = r.matches + count /\ after.found = r.found
        /\ after \in [matches : Nat, found : Seq(Nat)]
    BY <1>2, <2>1, <2>2
  <2>5. after.matches < Len(comp)
    BY <1>1, <1>2, <1>7, <2>4
  <2>6. Collected(after) = Collected(r)
    BY <2>4 DEF Collected
  <2> HIDE DEF after
  <2>7. ScanOK(comp, after, obj)
    BY <2>3, <2>4, <2>5, <2>6, <1>3 DEF ScanOK
  <2> QED BY <2>7 DEF after, obj
<1> QED BY <1>5, <1>6, <1>7

LEMMA FindEntryOK ==
    ASSUME NEW comp \in Comparables
    PROVE  \E r : /\ ScanOK(comp, r, MAX_BIT - 1)
                  /\ findEntry(comp) = r.found
<1>1. PICK f : /\ IsScan(comp, MAX_BIT - 1, f)
               /\ findEntry(comp) = f[MAX_BIT - 1].found
  BY FindEntryScans
<1> DEFINE S == {n \in Nat : n <= MAX_BIT - 1 => ScanOK(comp, f[n], n)}
<1>2. MAX_BIT - 1 \in Nat
  BY SizesAssumption
<1>3. 0 \in S
  <2>1. f[0] = NothingScanned
    BY <1>1, <1>2 DEF IsScan
  <2>2. NothingScanned.found = <<>> /\ NothingScanned.matches = 0
        /\ NothingScanned \in [matches : Nat, found : Seq(Nat)]
    BY DEF NothingScanned
  <2>3. Collected(NothingScanned) = {}
    BY <2>2 DEF Collected
  <2>4. ScanOK(comp, NothingScanned, 0)
    BY <2>2, <2>3, MatchingCount DEF ScanOK
  <2> QED BY <2>1, <2>4
<1>4. ASSUME NEW n \in Nat, n \in S PROVE n + 1 \in S
  <2> SUFFICES ASSUME n + 1 <= MAX_BIT - 1
               PROVE  ScanOK(comp, f[n + 1], n + 1)
    OBVIOUS
  <2>1. ScanOK(comp, f[n], n)
    BY <1>2, <1>4
  <2>2. f[n + 1] = Scanned(comp, f[n], n + 1)
    BY <1>1, <1>2 DEF IsScan
  <2> QED BY <2>1, <2>2, ScannedOK
<1> HIDE DEF S
<1>5. Nat \subseteq S
  BY <1>3, <1>4, SetInduction
<1>6. ScanOK(comp, f[MAX_BIT - 1], MAX_BIT - 1)
  BY <1>2, <1>5 DEF S
<1> QED BY <1>1, <1>6

------------------------------------------------------------------------------
(* What a search finds.                                                    *)

(* A row in use has its bit on, below the last bit that is looked at. *)
LEMMA UsedIsOn ==
    ASSUME NEW s \in UsedSlots
    PROVE  s \in 1..(MAX_BIT - 1) /\ is_on(s)
<1>1. s \in Slots \ {0} /\ s - 1 \in bits
  BY DEF UsedSlots
<1>2. Shift(s - 1) = {s - 1}
  BY <1>1, OwnBit
<1> QED BY <1>1, <1>2, SizesAssumption DEF is_on, Slots

LEMMA NoneMissed ==
    ASSUME NEW comp \in Comparables
    PROVE  {s \in UsedSlots : Matches(comp, s)}
             \subseteq {findEntry(comp)[i] : i \in DOMAIN findEntry(comp)}
<1>1. PICK r : ScanOK(comp, r, MAX_BIT - 1) /\ findEntry(comp) = r.found
  BY FindEntryOK
<1>2. \A s \in UsedSlots : Matches(comp, s) => s \in Collected(r)
  BY <1>1, UsedIsOn DEF ScanOK
<1> QED BY <1>1, <1>2 DEF Collected

(* No bit is ever set for the last row or behind it. *)
WordInBounds ==
    /\ bits \subseteq 0..(MAX_OBJ_NUM - 2)
    /\ mem \in [Cells -> Vals]

LEMMA FoundMatch ==
    ASSUME NEW comp \in Comparables,
           NEW s \in {findEntry(comp)[i] : i \in DOMAIN findEntry(comp)}
    PROVE  is_on(s) /\ Matching(comp, s) # {}
<1>1. PICK r : ScanOK(comp, r, MAX_BIT - 1) /\ findEntry(comp) = r.found
  BY FindEntryOK
<1>2. s \in Collected(r)
  BY <1>1 DEF Collected
<1> QED BY <1>1, <1>2 DEF ScanOK

(* What a search found stays true until the next operation. *)
SearchInv == IInv /\ WordInBounds /\ FindsAll /\ FoundByMatches

LEMMA InitSearches == Init => SearchInv
<1> SUFFICES ASSUME Init PROVE SearchInv
  OBVIOUS
<1>1. IInv
  BY InitInvariant
<1>2. WordInBounds
  BY SizesAssumption, ValsAssumption DEF Init, WordInBounds
<1>3. FindsAll /\ FoundByMatches
  BY DEF Init, Nothing, FindsAll, FoundByMatches
<1> QED BY <1>1, <1>2, <1>3 DEF SearchInv

(* A row added sets its own bit and writes its own cells. *)
LEMMA AddEntryInBounds ==
    ASSUME IInv, WordInBounds, NEW row \in Row, addEntry(row)
    PROVE  WordInBounds'
<1> DEFINE slot == pstack[capacity - 1]
<1>1. /\ slot \in Slots \ {0} /\ slot \in Nat
      /\ mem' = Place(slot, row) /\ updates' = updates
      /\ bits' = bits \cup Shift(slot - 1)
  BY SizesAssumption, SMT DEF IInv, SlotOrder, addEntry, Slots
<1> HIDE DEF slot
<1>2. bits' \subseteq 0..(MAX_OBJ_NUM - 2)
  <2>1. Shift(slot - 1) = {slot - 1}
    BY <1>1, OwnBit
  <2>2. slot - 1 \in 0..(MAX_OBJ_NUM - 2)
    BY <1>1, SizesAssumption DEF Slots
  <2>3. bits' = bits \cup {slot - 1}
    BY <1>1, <2>1
  <2> QED BY <2>2, <2>3 DEF WordInBounds
<1>3. /\ MAX_OBJ_NUM \in Nat \ {0} /\ Columns \in Nat \ {0}
      /\ slot < MAX_OBJ_NUM
  BY <1>1, SizesAssumption DEF Slots
<1>4. slot * Columns \in Nat /\ MAX_OBJ_NUM * Columns \in Nat
  BY <1>1, <1>3, SMT
<1>6. mem' \in [Cells -> Vals]
  <2>1. \A a \in Cells :
          a \in (slot * Columns)..(slot * Columns + Columns - 1)
            => row[a - slot * Columns + 1] \in Vals
    <3>1. \A a \in (slot * Columns)..(slot * Columns + Columns - 1) :
            a - slot * Columns + 1 \in 1..Columns
      BY <1>3, <1>4
    <3> QED BY <3>1 DEF Row
  <2> QED BY <1>1, <2>1 DEF Place, WordInBounds
<1> QED BY <1>2, <1>6 DEF WordInBounds

------------------------------------------------------------------------------
(* The writes of updateEntry, one after the other.                         *)

WritesAt(comp, found, before, k) == before.at + Step(comp, found, k)

OneWrite(comp, found, new, before, k) ==
    LET value == new[((k - 1) % Len(comp)) + 1]
        at == WritesAt(comp, found, before, k)
    IN [at |-> at,
        end |-> IF at + Len(value) > before.end THEN at + Len(value)
                ELSE before.end,
        mem |-> [a \in Cells |->
                   IF a \in at..(at + Len(value) - 1) THEN value[a - at + 1]
                   ELSE before.mem[a]]]

NothingWritten == [at |-> 0, end |-> 0, mem |-> mem]

IsWriting(comp, found, new, n, f) ==
    f = [k \in 0..n |-> IF k = 0 THEN NothingWritten
                        ELSE OneWrite(comp, found, new, f[k - 1], k)]

LEMMA WritingExists ==
    ASSUME NEW comp, NEW found, NEW new
    PROVE  \A n \in Nat : \E f : IsWriting(comp, found, new, n, f)
<1> DEFINE First == NothingWritten
           After(b, k) == OneWrite(comp, found, new, b, k)
           Is(n, f) == f = [k \in 0..n |-> IF k = 0 THEN First
                                           ELSE After(f[k - 1], k)]
           S == {n \in Nat : \E f : Is(n, f)}
<1>1. \A n, f : IsWriting(comp, found, new, n, f) <=> Is(n, f)
  BY DEF IsWriting
<1> HIDE DEF First, After
<1>2. 0 \in S
  <2>1. Is(0, [k \in 0..0 |-> First])
    OBVIOUS
  <2> QED BY <2>1
<1>3. ASSUME NEW n \in Nat, n \in S PROVE n + 1 \in S
  <2>1. PICK f : Is(n, f)
    BY <1>3
  <2> DEFINE g == [k \in 0..(n + 1) |->
                     IF k = n + 1 THEN After(f[n], n + 1) ELSE f[k]]
  <2>2. \A k \in 0..(n + 1) :
          g[k] = IF k = 0 THEN First ELSE After(g[k - 1], k)
    <3> SUFFICES ASSUME NEW k \in 0..(n + 1)
                 PROVE  g[k] = IF k = 0 THEN First ELSE After(g[k - 1], k)
      OBVIOUS
    <3>1. CASE k = n + 1
      BY <3>1
    <3>2. CASE k # n + 1
      <4>1. k \in 0..n /\ g[k] = f[k] /\ (k # 0 => g[k - 1] = f[k - 1])
        BY <3>2
      <4>2. f[k] = IF k = 0 THEN First ELSE After(f[k - 1], k)
        BY <2>1, <4>1
      <4> QED BY <4>1, <4>2
    <3> QED BY <3>1, <3>2
  <2>3. Is(n + 1, g)
    BY <2>2
  <2> HIDE DEF g, Is
  <2>4. \E k : Is(n + 1, k)
    BY <2>3
  <2> QED BY <2>4
<1> HIDE DEF S, Is
<1>4. Nat \subseteq S
  BY <1>2, <1>3, SetInduction
<1> QED BY <1>1, <1>4 DEF S

LEMMA WrittenIsLast ==
    ASSUME NEW comp, NEW found, NEW new, Len(found) * Len(comp) \in Nat
    PROVE  \E f : /\ IsWriting(comp, found, new, Len(found) * Len(comp), f)
                  /\ Written(comp, found, new) = f[Len(found) * Len(comp)]
<1> DEFINE n == Len(found) * Len(comp)
           after == CHOOSE g : IsWriting(comp, found, new, n, g)
<1>1. IsWriting(comp, found, new, n, after)
  BY WritingExists
<1>2. Written(comp, found, new) = after[n]
  BY DEF Written, IsWriting, OneWrite, WritesAt, NothingWritten
<1> QED BY <1>1, <1>2

(* The pointer moves on by a number at every write. *)
LEMMA StepForward ==
    ASSUME NEW comp \in Comparables, NEW found \in Seq(Nat),
           NEW k \in 1..(Len(found) * Len(comp))
    PROVE  Step(comp, found, k) \in Nat
<1> DEFINE n == Len(comp)
           i == ((k - 1) \div n) + 1
           j == ((k - 1) % n) + 1
<1>1. n \in Nat \ {0} /\ Len(found) \in Nat
  BY MatchingCount
<1>2. Len(found) * n \in Nat
  BY <1>1, SMT
<1>3. k \in Nat /\ k - 1 \in Nat /\ k - 1 < Len(found) * n
  BY <1>2
<1> HIDE DEF n
<1>4. i \in Nat /\ i - 1 \in Nat /\ (i - 1) * n <= k - 1 /\ j \in 1..n
  <2>1. \A x \in Nat, y \in Nat \ {0} :
          /\ x \div y \in Nat /\ (x \div y) * y <= x
          /\ (x % y) + 1 \in 1..y
    BY SMT
  <2>2. /\ (k - 1) \div n \in Nat /\ ((k - 1) \div n) * n <= k - 1
        /\ j \in 1..n
    BY <1>1, <1>3, <2>1
  <2>3. i - 1 = (k - 1) \div n
    BY <2>2
  <2> QED BY <2>2, <2>3
<1> HIDE DEF i, j
<1>5. i \in 1..Len(found)
  <2> SUFFICES ASSUME i - 1 >= Len(found) PROVE FALSE
    BY <1>1, <1>4
  <2>1. Len(found) * n <= (i - 1) * n
    <3>1. CASE i - 1 = Len(found)
      BY <3>1, <1>2
    <3>2. CASE Len(found) < i - 1
      <4>1. Len(found) * n + n <= (i - 1) * n
        BY <3>2, <1>1, <1>4, RowsApart
      <4>2. (i - 1) * n \in Nat
        BY <1>1, <1>4, SMT
      <4> QED BY <4>1, <4>2, <1>1, <1>2
    <3> QED BY <3>1, <3>2, <1>1, <1>4
  <2>2. (i - 1) * n \in Nat
    BY <1>1, <1>4, SMT
  <2> QED BY <2>1, <2>2, <1>2, <1>3, <1>4
<1>6. found[i] \in Nat
  BY <1>5, ElementOfSeq, Zenon
<1>7. found[i] * Columns \in Nat
  BY <1>6, SizesAssumption, SMT
<1>8. comp[j][1] - 1 \in Nat
  <2>1. comp[j][1] \in 1..Columns
    BY <1>4, MatchingCount DEF Comparables, n
  <2> QED BY <2>1, SizesAssumption
<1>9. Step(comp, found, k) = (IF j = 1 THEN found[i] * Columns ELSE 0)
                               + (comp[j][1] - 1)
  BY DEF Step, Loc, i, j, n
<1> QED BY <1>7, <1>8, <1>9

(* What is written are values. *)
LEMMA WrittenType ==
    ASSUME NEW comp \in Comparables, NEW found \in Seq(Nat),
           NEW new \in [1..Len(comp) -> Values], mem \in [Cells -> Vals]
    PROVE  Written(comp, found, new).mem \in [Cells -> Vals]
<1>1. Len(comp) \in Nat \ {0} /\ Len(found) \in Nat
  BY MatchingCount
<1>2. Len(found) * Len(comp) \in Nat
  BY <1>1, SMT
<1>3. PICK f : /\ IsWriting(comp, found, new, Len(found) * Len(comp), f)
               /\ Written(comp, found, new) = f[Len(found) * Len(comp)]
  BY <1>2, WrittenIsLast
<1> DEFINE writes == Len(found) * Len(comp)
           Typed(k) == f[k].at \in Nat /\ f[k].mem \in [Cells -> Vals]
           S == {k \in Nat : k <= writes => Typed(k)}
<1>4. 0 \in S
  <2>1. 0 \in 0..writes
    BY <1>2
  <2>2. f[0] = NothingWritten
    BY <1>3, <2>1 DEF IsWriting
  <2> QED BY <2>2 DEF NothingWritten
<1>5. ASSUME NEW k \in Nat, k \in S PROVE k + 1 \in S
  <2> SUFFICES ASSUME k + 1 <= writes
               PROVE  Typed(k + 1)
    OBVIOUS
  <2> HIDE DEF writes
  <2>1. k + 1 \in 0..writes /\ k <= writes
    BY <1>2 DEF writes
  <2>2. Typed(k)
    BY <1>5, <2>1
  <2>3. (k + 1) - 1 = k /\ k + 1 # 0
    OBVIOUS
  <2>4. f[k + 1] = OneWrite(comp, found, new, f[(k + 1) - 1], k + 1)
    BY <1>3, <2>1, <2>3, Zenon DEF IsWriting, writes
  <2>5. f[k + 1] = OneWrite(comp, found, new, f[k], k + 1)
    BY <2>3, <2>4, Zenon
  <2> DEFINE value == new[((k + 1 - 1) % Len(comp)) + 1]
             at == WritesAt(comp, found, f[k], k + 1)
  <2>6. value \in Seq(Vals)
    <3>1. ((k + 1 - 1) % Len(comp)) + 1 \in 1..Len(comp)
      BY <1>1
    <3>2. value \in Values
      BY <3>1
    <3> QED BY <3>2, ValsAssumption
  <2>7. f[k + 1].mem = [a \in Cells |->
                          IF a \in at..(at + Len(value) - 1)
                            THEN value[a - at + 1] ELSE f[k].mem[a]]
    BY <2>5 DEF OneWrite
  <2>8. at \in Nat /\ f[k + 1].at = at
    <3>1. k + 1 \in 1..(Len(found) * Len(comp))
      BY <1>2, <2>1 DEF writes
    <3>2. Step(comp, found, k + 1) \in Nat
      BY <3>1, StepForward
    <3> QED BY <2>2, <2>5, <3>2 DEF OneWrite, WritesAt
  <2> HIDE DEF value, at
  <2>9. \A a \in at..(at + Len(value) - 1) : value[a - at + 1] \in Vals
    <3>1. \A a \in at..(at + Len(value) - 1) : a - at + 1 \in 1..Len(value)
      BY <2>6, <2>8
    <3> QED BY <2>6, <3>1, ElementOfSeq, Zenon
  <2>10. f[k + 1].mem \in [Cells -> Vals]
    BY <2>2, <2>7, <2>9
  <2> QED BY <2>8, <2>10
<1> HIDE DEF S, writes
<1>6. Nat \subseteq S
  BY <1>4, <1>5, SetInduction
<1>7. f[writes].mem \in [Cells -> Vals]
  BY <1>2, <1>6 DEF S, writes
<1> QED BY <1>3, <1>7 DEF writes

LEMMA OnlyEntry ==
    ASSUME NEW q \in Seq(Nat), Len(q) = 1
    PROVE  q[1] \in Nat
<1>1. 1 \in 1..Len(q)
  OBVIOUS
<1> QED BY <1>1, ElementOfSeq, Zenon

(* One value of one row is one cell. *)
LEMMA WrittenOnce ==
    ASSUME NEW comp \in Comparables, Len(comp) = 1,
           NEW found \in Seq(Nat), Len(found) = 1,
           NEW new, NEW a \in Cells,
           a \notin LET at == found[1] * Columns + Loc(comp[1][1])
                    IN  at..(at + Len(new[1]) - 1)
    PROVE  Written(comp, found, new).mem[a] = mem[a]
<1>1. PICK f : /\ IsWriting(comp, found, new, 1, f)
               /\ Written(comp, found, new) = f[1]
  <2>1. Len(found) * Len(comp) = 1
    BY SMT
  <2>2. \E f : /\ IsWriting(comp, found, new, Len(found) * Len(comp), f)
               /\ Written(comp, found, new) = f[Len(found) * Len(comp)]
    <3>1. Len(found) * Len(comp) \in Nat
      BY <2>1
    <3> QED BY <3>1, WrittenIsLast, Zenon
  <2> QED BY <2>1, <2>2
<1>2. f[0] = NothingWritten /\ f[1] = OneWrite(comp, found, new, f[1 - 1], 1)
  BY <1>1 DEF IsWriting
<1>3. f[1].mem[a] =
        LET at == f[0].at + Step(comp, found, 1) IN
        IF a \in at..(at + Len(new[1]) - 1) THEN new[1][a - at + 1]
        ELSE f[0].mem[a]
  <2>1. 1 - 1 = 0 /\ (0 % Len(comp)) + 1 = 1
    OBVIOUS
  <2>2. f[1] = OneWrite(comp, found, new, f[0], 1)
    BY <1>2, <2>1
  <2> QED BY <2>1, <2>2 DEF OneWrite, WritesAt
<1>4. Step(comp, found, 1) = found[1] * Columns + Loc(comp[1][1])
  BY DEF Step
<1>5. f[0].at + Step(comp, found, 1) = found[1] * Columns + Loc(comp[1][1])
  <2>1. found[1] \in Nat /\ comp[1][1] \in Nat /\ Columns \in Nat
    <3>1. comp[1][1] \in 1..Columns
      BY MatchingCount DEF Comparables
    <3>2. found[1] \in Nat
      BY OnlyEntry
    <3> QED BY <3>1, <3>2, SizesAssumption
  <2>2. found[1] * Columns \in Nat
    BY <2>1, SMT
  <2> QED BY <1>2, <1>4, <2>1, <2>2 DEF Loc, NothingWritten
<1> QED BY <1>1, <1>2, <1>3, <1>5 DEF NothingWritten

------------------------------------------------------------------------------
(* Type correctness, and what searches and updates promise.                *)

LEMMA FoundType ==
    ASSUME NEW comp \in Comparables
    PROVE  findEntry(comp) \in Seq(Nat)
BY FindEntryOK DEF ScanOK

(* What leaves the memory and the bits alone and repeats the last result   *)
(* has nothing new to show.                                                *)
LEMMA NothingNew ==
    ASSUME SearchInv, UNCHANGED <<bits, mem, shiftWraps>>, IInv',
           \/ last' = last
           \/ \E comp \in Comparables :
                last'.comp = comp /\ last'.found = findEntry(comp)
    PROVE  SearchInv'
<1>1. WordInBounds'
  BY DEF SearchInv, WordInBounds
<1>2. /\ UsedSlots' = UsedSlots
      /\ \A c, s : Matches(c, s)' = Matches(c, s)
      /\ \A c, s : Matching(c, s)' = Matching(c, s)
      /\ \A s : is_on(s)' = is_on(s)
  BY DEF UsedSlots, Matches, Matching, Slots, is_on, Shift
<1>3. CASE last' = last
  BY <1>1, <1>2, <1>3
  DEF SearchInv, FindsAll, FoundByMatches, FoundRows
<1>4. ASSUME NEW comp \in Comparables,
             last'.comp = comp, last'.found = findEntry(comp)
      PROVE  SearchInv'
  <2>1. FoundRows' = {findEntry(comp)[i] : i \in DOMAIN findEntry(comp)}
    BY <1>4 DEF FoundRows
  <2>2. FindsAll'
    BY <1>2, <1>4, <2>1, NoneMissed DEF FindsAll
  <2>3. FoundByMatches'
    BY <1>2, <1>4, <2>1, FoundMatch DEF FoundByMatches
  <2> QED BY <1>1, <2>2, <2>3 DEF SearchInv
<1> QED BY <1>3, <1>4

(* An update writes values into the memory, or ends the process. *)
LEMMA UpdateWrites ==
    ASSUME NEW comp \in Comparables, updateEntry(comp),
           mem \in [Cells -> Vals]
    PROVE  /\ UNCHANGED <<bits, shiftWraps>>
           /\ \/ UNCHANGED <<mem, last, updates>>
              \/ /\ mem' \in [Cells -> Vals] /\ last'.op = "update"
                 /\ \/ updates' = updates
                    \/ updates' = updates + 1 /\ updates < MaxUpdates
<1> DEFINE Result(new) == [op |-> "update", comp |-> comp,
                           found |-> findEntry(comp), new |-> new]
<1>1. /\ UNCHANGED <<bits, shiftWraps>>
      /\ \/ UNCHANGED <<mem, last, updates>>
         \/ UNCHANGED <<mem, updates>> /\ last' = Result(<<>>)
         \/ /\ updates' = updates + 1 /\ updates < MaxUpdates
            /\ \E new \in [1..Len(comp) -> Values] :
                 /\ last' = Result(new)
                 /\ mem' = Written(comp, findEntry(comp), new).mem
  BY Zenon DEF updateEntry, layout
<1>2. \A new : Result(new).op = "update"
  OBVIOUS
<1> HIDE DEF Result
<1>3. ASSUME NEW new \in [1..Len(comp) -> Values],
             mem' = Written(comp, findEntry(comp), new).mem
      PROVE  mem' \in [Cells -> Vals]
  BY <1>3, FoundType, WrittenType
<1>4. CASE UNCHANGED <<mem, updates>> /\ last' = Result(<<>>)
  BY <1>1, <1>2, <1>4
<1>5. CASE /\ updates' = updates + 1 /\ updates < MaxUpdates
           /\ \E new \in [1..Len(comp) -> Values] :
                /\ last' = Result(new)
                /\ mem' = Written(comp, findEntry(comp), new).mem
  BY <1>1, <1>2, <1>3, <1>5
<1> QED BY <1>1, <1>4, <1>5

LEMMA NextSearches ==
    ASSUME SearchInv, [Next]_vars
    PROVE  SearchInv'
<1>1. IInv'
  BY NextInvariant DEF SearchInv
<1>2. ASSUME NEW row \in Row, addEntry(row) PROVE SearchInv'
  <2>1. WordInBounds'
    BY <1>2, AddEntryInBounds DEF SearchInv
  <2>2. last'.op = "add"
    BY <1>2 DEF addEntry
  <2> QED BY <1>1, <2>1, <2>2 DEF SearchInv, FindsAll, FoundByMatches
<1>3. CASE addEntryAborts \/ findByUnknownName \/ UNCHANGED vars
  <2>1. UNCHANGED <<bits, mem, shiftWraps, last>>
    BY <1>3 DEF addEntryAborts, findByUnknownName, vars, layout
  <2> QED BY <1>1, <2>1, NothingNew
<1>4. ASSUME NEW comp \in Comparables, find(comp) \/ delEntry(comp)
      PROVE  SearchInv'
  <2>1. /\ UNCHANGED <<bits, mem, shiftWraps>>
        /\ \/ last' = last
           \/ last' = [op |-> "find", comp |-> comp, found |-> findEntry(comp)]
           \/ last' = [op |-> "del", comp |-> comp, found |-> findEntry(comp)]
    BY <1>4, Zenon DEF find, delEntry, layout
  <2>2. \/ last' = last
        \/ last'.comp = comp /\ last'.found = findEntry(comp)
    BY <2>1
  <2> QED BY <1>1, <2>1, <2>2, NothingNew
<1>5. ASSUME NEW comp \in Comparables, updateEntry(comp) PROVE SearchInv'
  <2>1. \/ UNCHANGED <<bits, mem, shiftWraps, last>>
        \/ /\ UNCHANGED bits /\ mem' \in [Cells -> Vals]
           /\ last'.op = "update"
    BY <1>5, UpdateWrites DEF SearchInv, WordInBounds
  <2>2. CASE /\ UNCHANGED bits /\ mem' \in [Cells -> Vals]
             /\ last'.op = "update"
    <3>1. WordInBounds'
      BY <2>2 DEF SearchInv, WordInBounds
    <3> QED BY <1>1, <2>2, <3>1 DEF SearchInv, FindsAll, FoundByMatches
  <2> QED BY <1>1, <2>1, <2>2, NothingNew
<1> QED BY <1>2, <1>3, <1>4, <1>5 DEF Next

LEMMA Searching == Spec => []SearchInv
<1>1. Init => SearchInv
  BY InitSearches
<1>2. SearchInv /\ [Next]_vars => SearchInv'
  BY NextSearches
<1> QED BY <1>1, <1>2, PTL DEF Spec

(* Everything has its type, for every size of layout. *)
THEOREM TypeCorrect == Spec => []TypeOK
<1> DEFINE Ops == {"none", "add", "find", "del", "update"}
           Rest == /\ up \in BOOLEAN /\ shiftWraps \in BOOLEAN
                   /\ last.op \in Ops /\ updates <= MaxUpdates
<1>1. Init => Rest
  BY SizesAssumption DEF Init, Nothing
<1>2. SearchInv /\ Rest /\ [Next]_vars => Rest'
  <2> SUFFICES ASSUME SearchInv, Rest, [Next]_vars PROVE Rest'
    OBVIOUS
  <2>0. updates \in Nat /\ MaxUpdates \in Nat
    BY SizesAssumption DEF SearchInv, IInv, SlotOrder
  <2>1. ASSUME NEW row \in Row, addEntry(row) PROVE Rest'
    BY <2>1 DEF addEntry
  <2>2. CASE addEntryAborts \/ findByUnknownName \/ UNCHANGED vars
    BY <2>2 DEF addEntryAborts, findByUnknownName, vars
  <2>3. ASSUME NEW comp \in Comparables, find(comp) \/ delEntry(comp)
        PROVE  Rest'
    <3>1. /\ up' = up \/ up' = FALSE
          /\ UNCHANGED <<shiftWraps, updates>>
      BY <2>3, Zenon DEF find, delEntry
    <3>2. \/ last' = last
          \/ last' = [op |-> "find", comp |-> comp, found |-> findEntry(comp)]
          \/ last' = [op |-> "del", comp |-> comp, found |-> findEntry(comp)]
      BY <2>3, Zenon DEF find, delEntry
    <3>3. last'.op \in Ops
      BY <3>2
    <3>4. up' \in BOOLEAN
      BY <3>1, Zenon
    <3> QED BY <3>1, <3>3, <3>4
  <2>4. ASSUME NEW comp \in Comparables, updateEntry(comp) PROVE Rest'
    <3>1. up' = up \/ up' = FALSE
      BY <2>4, Zenon DEF updateEntry
    <3>2. /\ shiftWraps' = shiftWraps
          /\ \/ UNCHANGED <<last, updates>>
             \/ /\ last'.op = "update"
                /\ \/ updates' = updates
                   \/ updates' = updates + 1 /\ updates < MaxUpdates
      BY <2>4, UpdateWrites DEF SearchInv, WordInBounds
    <3>3. last'.op \in Ops /\ updates' <= MaxUpdates
      BY <2>0, <3>2
    <3>4. up' \in BOOLEAN
      BY <3>1, Zenon
    <3>5. shiftWraps' \in BOOLEAN
      BY <3>2, Zenon
    <3> QED BY <3>3, <3>4, <3>5
  <2> QED BY <2>1, <2>2, <2>3, <2>4 DEF Next
<1>3. SearchInv /\ Rest => TypeOK
  <2> SUFFICES ASSUME SearchInv, Rest PROVE TypeOK
    OBVIOUS
  <2>1. pstack \in [Slots -> Slots] /\ capacity \in 0..MAX_OBJ_NUM
        /\ rows \in Seq(Row) /\ updates \in 0..MaxUpdates
    BY SizesAssumption DEF SearchInv, IInv, SlotOrder
  <2>2. bits \subseteq Slots /\ mem \in [Cells -> Vals]
    BY SizesAssumption DEF SearchInv, WordInBounds, Slots
  <2> QED BY <2>1, <2>2 DEF TypeOK
<1> HIDE DEF Rest
<1> QED BY <1>1, <1>2, <1>3, Searching, PTL DEF Spec

(* findEntry answers with every row of the layout that has all the values  *)
(* asked for, whatever rows that match in part come before it, for every   *)
(* number of slots, columns and bits looked at.                            *)
THEOREM NoRowMissed == Spec => []FindsAll
<1>1. SearchInv => FindsAll
  BY DEF SearchInv
<1> QED BY <1>1, Searching, PTL

(* Whatever findEntry carries from row to row, it answers with rows only    *)
(* whose bit is on and that have one of the values asked for: a search by  *)
(* one column with rows that have its value, also after updates and for    *)
(* the bits behind the layout.                                             *)
THEOREM FoundMatching == Spec => []FoundByMatches
<1>1. SearchInv => FoundByMatches
  BY DEF SearchInv
<1> QED BY <1>1, Searching, PTL

(* An update of one row by one column writes the cells its value takes     *)
(* from that column on and no others, however many cells it has.           *)
THEOREM OneValueUpdated == Spec => UpdateOneValue
<1> DEFINE At == last'.found[1] * Columns + Loc(last'.comp[1][1])
           One == last'.op = "update" /\ Len(last'.comp) = 1
                  /\ Len(last'.found) = 1
<1>1. ASSUME SearchInv, [Next]_vars, One,
             NEW a \in Cells, a \notin At..(At + Len(last'.new[1]) - 1)
      PROVE  mem'[a] = mem[a]
  <2>1. ASSUME NEW row \in Row, addEntry(row) PROVE FALSE
    BY <1>1, <2>1 DEF addEntry
  <2>2. CASE addEntryAborts \/ findByUnknownName \/ UNCHANGED vars
    BY <2>2 DEF addEntryAborts, findByUnknownName, vars
  <2>3. ASSUME NEW comp \in Comparables, find(comp) \/ delEntry(comp)
        PROVE  mem' = mem
    BY <2>3 DEF find, delEntry
  <2>4. ASSUME NEW comp \in Comparables, updateEntry(comp)
        PROVE  mem'[a] = mem[a]
    <3> DEFINE Result(new) == [op |-> "update", comp |-> comp,
                               found |-> findEntry(comp), new |-> new]
    <3>1. \/ mem' = mem
          \/ \E new \in [1..Len(comp) -> Values] :
               /\ last' = Result(new)
               /\ mem' = Written(comp, findEntry(comp), new).mem
      BY <2>4, Zenon DEF updateEntry
    <3>2. ASSUME NEW new \in [1..Len(comp) -> Values], last' = Result(new),
                 mem' = Written(comp, findEntry(comp), new).mem
          PROVE  mem'[a] = mem[a]
      <4>1. last'.comp = comp /\ last'.found = findEntry(comp)
            /\ last'.new = new
        BY <3>2
      <4>2. Len(comp) = 1 /\ Len(findEntry(comp)) = 1
        BY <1>1, <4>1
      <4>3. a \notin LET at == findEntry(comp)[1] * Columns + Loc(comp[1][1])
                     IN  at..(at + Len(new[1]) - 1)
        BY <1>1, <4>1
      <4> QED BY <3>2, <4>2, <4>3, FoundType, WrittenOnce
    <3> HIDE DEF Result
    <3> QED BY <3>1, <3>2
  <2> QED BY <1>1, <2>1, <2>2, <2>3, <2>4 DEF Next
<1>2. SearchInv /\ [Next]_vars
        => [One => \A a \in Cells :
              a \notin At..(At + Len(last'.new[1]) - 1)
                => mem'[a] = mem[a]]_vars
  BY <1>1
<1> QED BY <1>2, Searching, PTL DEF Spec, UpdateOneValue
------------------------------------------------------------------------------
(* MemDbServer. *)

\* Nothing at the key behind the last one that programs use: the loops stop there.
Index == key \in 0..Mega + 1

(* From the header on, a server's segment is at the key or the tool has    *)
(* removed it; the header is there as soon as it is written.               *)
Held(s) == s \in removed \/ (maker = s /\ word = Mega)
Segments ==
  \A s \in Servers :
    /\ srv[s] = "header" => s \in removed \/ maker = s
    /\ srv[s] = "header" /\ maker = s => word = 0
    /\ srv[s] = "export" => Held(s)

ServersInv == MemDbTypeOK /\ Index /\ Segments /\ LeftBehind /\ NoTable

\* The variables of a server's step, and what they make of the invariant.
LEMMA ServersInit == MemDbInit => ServersInv
BY MemDbAssumption DEF MemDbInit, ServersInv, MemDbTypeOK, Index, Segments, LeftBehind,
                       NoTable, Options

LEMMA Starting ==
  ASSUME ServersInv, NEW s \in Servers, Start(s) \/ Listen(s), UNCHANGED <<others, toolVars>>
  PROVE  ServersInv'
<1>1. \/ srv' = [srv EXCEPT ![s] = "listen"] /\ UNCHANGED status
      \/ srv[s] = "listen" /\ srv' = [srv EXCEPT ![s] = "create"] /\ UNCHANGED status
      \/ \E code \in {0, -1} : srv' = [srv EXCEPT ![s] = "down"]
                               /\ status' = [status EXCEPT ![s] = code]
  BY DEF Start, Listen, handle_create, BadDefinition, Overrun, handle_select, handle_insert,
         handle_update,
         findTbIdx, Goes, Ends
<1>2. UNCHANGED <<maker, word, removed, others, tool, key, opt, segs>>
  BY DEF Start, Listen, segment, toolVars
<1> QED
  BY <1>1, <1>2 DEF ServersInv, MemDbTypeOK, Index, Segments, Held, LeftBehind, NoTable

LEMMA Getting ==
  ASSUME ServersInv, NEW s \in Servers, GetSegment(s), UNCHANGED <<others, toolVars>>
  PROVE  ServersInv'
<1>1. CASE Free
  BY <1>1, MemDbAssumption
     DEF ServersInv, MemDbTypeOK, Index, Segments, Held, LeftBehind, NoTable, GetSegment,
         Free, Goes,
         toolVars
<1>2. CASE ~Free
  BY <1>2 DEF ServersInv, MemDbTypeOK, Index, Segments, Held, LeftBehind, NoTable, GetSegment,
              Free, Ends,
              segment, toolVars
<1> QED BY <1>1, <1>2

LEMMA Placing ==
  ASSUME ServersInv, NEW s \in Servers, PlaceHeader(s), UNCHANGED <<others, toolVars>>
  PROVE  ServersInv'
<1>1. srv[s] = "header" /\ UNCHANGED <<maker, removed, others, tool, key, opt, segs>>
  BY DEF PlaceHeader, toolVars
<1>2. CASE maker = s /\ word' = Mega /\ Goes(s, "export")
  BY <1>1, <1>2
     DEF ServersInv, MemDbTypeOK, Index, Segments, Held, LeftBehind, NoTable, Goes
<1>3. CASE maker # s /\ Goes(s, "export") /\ UNCHANGED word
  BY <1>1, <1>3
     DEF ServersInv, MemDbTypeOK, Index, Segments, Held, LeftBehind, NoTable, Goes
<1>4. CASE maker # s /\ Ends(s, 1) /\ UNCHANGED word
  BY <1>1, <1>4
     DEF ServersInv, MemDbTypeOK, Index, Segments, Held, LeftBehind, NoTable, Ends
<1> QED BY <1>2, <1>3, <1>4 DEF PlaceHeader

LEMMA Exporting ==
  ASSUME ServersInv, NEW s \in Servers, ExportId(s), UNCHANGED <<others, toolVars>>
  PROVE  ServersInv'
<1>1. \E code \in {1, 3} : srv' = [srv EXCEPT ![s] = "down"]
                           /\ status' = [status EXCEPT ![s] = code]
  BY DEF ExportId, CanWrite, Ends
<1>2. srv[s] = "export" /\ UNCHANGED <<maker, word, removed, others, tool, key, opt, segs>>
  BY DEF ExportId, segment, toolVars
<1> QED
  BY <1>1, <1>2 DEF ServersInv, MemDbTypeOK, Index, Segments, Held, LeftBehind, NoTable

LEMMA Others ==
  ASSUME ServersInv, OtherProgram PROVE ServersInv'
BY DEF ServersInv, MemDbTypeOK, Index, Segments, Held, LeftBehind, NoTable, OtherProgram,
       segment, toolVars

(* Removing the segment at the key makes its server one of the removed. *)
LEMMA Removing ==
  ASSUME ServersInv, NEW k \in Nat, Exists(k), handle_delete_by_seg(k), UNCHANGED <<srv, status>>
  PROVE  /\ others' \subseteq Keys /\ removed' \subseteq Servers
         /\ maker' \in Servers \cup {NoOne} /\ word' \in {0, Mega}
         /\ Segments' /\ LeftBehind' /\ k <= Mega
<1>1. CASE k = 1
  BY <1>1, MemDbAssumption
     DEF ServersInv, MemDbTypeOK, Segments, Held, LeftBehind, Exists, handle_delete_by_seg
<1>2. CASE k # 1
  BY <1>2, MemDbAssumption
     DEF ServersInv, MemDbTypeOK, Segments, Held, LeftBehind, Exists, handle_delete_by_seg,
         segment
<1> QED BY <1>1, <1>2

LEMMA ToolSteps ==
  ASSUME ServersInv, Tool PROVE ServersInv'
<1> USE MemDbAssumption
<1>1. CASE ToolStart
  BY <1>1 DEF ServersInv, MemDbTypeOK, Index, Segments, Held, LeftBehind, NoTable, ToolStart,
              get_num_of_seg, segment, Options
<1>2. CASE Select
  <2>1. opt' \in Options /\ tool' \in {"off", "menu"} \cup Options
    BY <1>2 DEF ServersInv, MemDbTypeOK, Select, Options
  <2>2. key' = 1 /\ UNCHANGED <<srv, status, maker, word, removed, others, segs>>
    BY <1>2 DEF Select, segment
  <2>3. key' \in Nat /\ key' \in 0..Mega + 1
    BY <2>2
  <2> QED BY <2>1, <2>2, <2>3 DEF ServersInv, MemDbTypeOK, Index, Segments, Held, LeftBehind,
                                  NoTable
<1>3. CASE Amount
  BY <1>3 DEF ServersInv, MemDbTypeOK, Index, Segments, Held, LeftBehind, NoTable, Amount,
              get_num_of_seg, segment, Options
<1>4. CASE DeleteById
  <2>1. /\ others' \subseteq Keys /\ removed' \subseteq Servers
        /\ maker' \in Servers \cup {NoOne} /\ word' \in {0, Mega}
        /\ Segments' /\ LeftBehind' /\ tool' \in {"menu", "off"}
        /\ UNCHANGED <<srv, status, key, opt, segs>>
    <3>1. UNCHANGED <<srv, status, key, opt, segs>>
      BY <1>4 DEF DeleteById
    <3>2. ASSUME NEW k \in 0..Mega, Exists(k), handle_delete_by_seg(k), tool' = "menu"
          PROVE  /\ others' \subseteq Keys /\ removed' \subseteq Servers
                 /\ maker' \in Servers \cup {NoOne} /\ word' \in {0, Mega}
                 /\ Segments' /\ LeftBehind'
      BY <3>1, <3>2, Removing
    <3>3. CASE tool' \in {"menu", "off"} /\ UNCHANGED <<others, segment>>
      BY <3>1, <3>3 DEF ServersInv, MemDbTypeOK, Segments, Held, LeftBehind, segment
    <3>4. \/ \E k \in 0..Mega :
               Exists(k) /\ handle_delete_by_seg(k) /\ tool' = "menu"
          \/ tool' \in {"menu", "off"} /\ UNCHANGED <<others, segment>>
      BY <1>4 DEF DeleteById, InvalidNumber
    <3> QED BY <3>1, <3>2, <3>3, <3>4
  <2> QED BY <2>1 DEF ServersInv, MemDbTypeOK, Index, NoTable, Options
<1>5. CASE Delete
  <2>1. CASE /\ key <= 1 + segs /\ Exists(key) /\ handle_delete_by_seg(key)
             /\ key' = key + 1 /\ UNCHANGED tool
    <3>1. UNCHANGED <<srv, status, opt, segs>>
      BY <1>5 DEF Delete
    <3>2. key \in Nat
      BY DEF ServersInv, MemDbTypeOK
    <3>3. /\ others' \subseteq Keys /\ removed' \subseteq Servers
          /\ maker' \in Servers \cup {NoOne} /\ word' \in {0, Mega}
          /\ Segments' /\ LeftBehind' /\ key <= Mega
      BY <2>1, <3>1, <3>2, Removing
    <3> QED BY <2>1, <3>1, <3>2, <3>3 DEF ServersInv, MemDbTypeOK, Index, NoTable
  <2>2. CASE tool' \in {"menu", "off"} /\ UNCHANGED <<key, others, segment>>
    <3>1. UNCHANGED <<srv, status, opt, segs>>
      BY <1>5 DEF Delete
    <3> QED BY <2>2, <3>1 DEF ServersInv, MemDbTypeOK, Index, Segments, Held, LeftBehind,
                              NoTable, segment
  <2> QED BY <1>5, <2>1, <2>2 DEF Delete
<1>6. CASE Display
  <2>1. tool' \in {"display", "menu", "off"} /\ (key' = key \/ (key <= segs /\ key' = key + 1))
    BY <1>6 DEF Display
  <2>2. UNCHANGED <<srv, status, maker, word, removed, others, opt, segs>>
    BY <1>6 DEF Display, segment
  <2>3. key' \in Nat /\ key' \in 0..Mega + 1
    BY <2>1 DEF ServersInv, MemDbTypeOK, Index
  <2>4. tool' \in {"off", "menu"} \cup Options
    BY <2>1 DEF Options
  <2> QED BY <2>2, <2>3, <2>4 DEF ServersInv, MemDbTypeOK, Index, Segments, Held, LeftBehind,
                                  NoTable
<1> QED BY <1>1, <1>2, <1>3, <1>4, <1>5, <1>6 DEF Tool

LEMMA ServersNext ==
  ASSUME ServersInv, [MemDbNext]_memDbVars PROVE ServersInv'
<1>1. CASE AnyServer
  <2>1. PICK s \in Servers : Start(s) \/ Server(s)
    BY <1>1 DEF AnyServer
  <2>2. UNCHANGED <<others, toolVars>>
    BY <1>1 DEF AnyServer
  <2> QED BY <2>1, <2>2, Starting, Getting, Placing, Exporting DEF Server
<1>2. CASE OtherProgram
  BY <1>2, Others
<1>3. CASE Tool
  BY <1>3, ToolSteps
<1>4. CASE UNCHANGED memDbVars
  BY <1>4 DEF ServersInv, MemDbTypeOK, Index, Segments, Held, LeftBehind, NoTable, memDbVars
<1> QED BY <1>1, <1>2, <1>3, <1>4 DEF MemDbNext

(* The invariant of the servers, their segment and the tool. *)
THEOREM ServersInvariance == MemDbSpec => []ServersInv
<1>1. MemDbInit => ServersInv
  BY ServersInit
<1>2. ServersInv /\ [MemDbNext]_memDbVars => ServersInv'
  BY ServersNext
<1> QED BY <1>1, <1>2, PTL DEF MemDbSpec

(* The variables keep their types. *)
THEOREM ServersTypeCorrect == MemDbSpec => []MemDbTypeOK
<1>1. ServersInv => MemDbTypeOK
  BY DEF ServersInv
<1> QED BY <1>1, ServersInvariance, PTL

(* No server ever gets as far as a table. *)
THEOREM NeverATable == MemDbSpec => []NoTable
<1>1. ServersInv => NoTable
  BY DEF ServersInv
<1> QED BY <1>1, ServersInvariance, PTL

(* Two servers never build the same segment, however many there are. *)
THEOREM Exclusive == MemDbSpec => []OneBuilder
<1>1. ServersInv => OneBuilder
  BY DEF ServersInv, Segments, Held, OneBuilder, Building
<1> QED BY <1>1, ServersInvariance, PTL

(* What a server that failed leaves behind is there until the tool removes it. *)
THEOREM Leftover == MemDbSpec => []LeftBehind
<1>1. ServersInv => LeftBehind
  BY DEF ServersInv
<1> QED BY <1>1, ServersInvariance, PTL
===============================================================================
