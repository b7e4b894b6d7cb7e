----------------------------- MODULE GuestMemory -----------------------------
(***************************************************************************)
(* The guest's memory, as hw/i386/shadps4-hle.c keeps it: page-directory    *)
(* entries of 2 MiB, page tables for direct memory, the flexible slots that *)
(* back every other mapping, virtual reservations and direct memory.        *)
(*                                                                          *)
(* A flexible slot is two things: the 2 MiB of addresses at its place in    *)
(* the dynamic range and the 2 MiB of memory of the same number; one bit of *)
(* dynamic_slots stands for both.  Calls hold the HLE lock, but the other   *)
(* vCPUs walk the page tables meanwhile, so mapping direct memory, the      *)
(* longest call, is a step for each entry it writes; the others are one     *)
(* step, with the entry whose write fails, if one does, as a parameter.     *)
(*                                                                          *)
(* An area is 2 MiB of addresses and has two pages.  The dynamic range      *)
(* begins after the areas below it; addresses past it are left out.         *)
(***************************************************************************)
EXTENDS Integers, FiniteSets, Sequences

CONSTANTS
    Below,            \* areas in front of the dynamic range
    FlexibleSlots,    \* shadps4_hle_flexible_slot_count
    DirectSlots,      \* shadps4_hle_direct_slot_count
    TableCount,       \* dynamic_pt_page_count
    MaxReservations,  \* SHADPS4_HLE_MAX_VIRTUAL_RESERVATIONS
    MaxMapCalls,      \* bounds the mapping calls of a behaviour
    Rights,           \* whether a new mapping may be written: some of BOOLEAN
    MemoryPermitted   \* what a careless guest does: "unmap_shared",
                      \* "alias_table", "straddle"

ASSUME MemoryAssumption ==
    /\ {Below, DirectSlots, TableCount, MaxReservations, MaxMapCalls} \subseteq Nat
    /\ FlexibleSlots \in Nat \ {0} /\ Rights \subseteq BOOLEAN

Slots  == 0 .. FlexibleSlots + DirectSlots - 1
Areas  == 0 .. Below + FlexibleSlots + DirectSlots - 1
Pages  == 0 .. 2 * (Below + FlexibleSlots + DirectSlots) - 1
Tables == 0 .. TableCount - 1

VARIABLES
    entries,       \* the page-directory entry of each area
    ptes,          \* the two entries of each page table of the pool
    used,          \* dynamic_slots
    reserved,      \* dynamic_reserved_slots
    tablesUsed,    \* dynamic_pt_used
    reservations,  \* how many virtual_reservations are active
    cursor,        \* virtual_reserve_cursor
    directNext,    \* direct_memory_next
    mapping,       \* the mapping of direct memory in progress: its locals, and
                   \* what the processor and the pool looked like as it began
    outcome,       \* how the last mapping call ended, "unanswered" when its answer
                   \* could not be written
    mapCalls       \* the mapping calls begun

memoryVars == <<entries, ptes, used, reserved, tablesUsed, reservations,
                cursor, directNext, mapping, outcome, mapCalls>>

Area(p) == p \div 2
Half(p) == p % 2
AreasOf(first, last) == Area(first) .. Area(last)
Home(s)   == Below + s        \* the area of a slot
Memory(s) == DirectSlots + s  \* shadps4_hle_flexible_phys; direct memory comes first

Entry == [kind : {"absent", "large", "table"},
          at : Slots \cup Tables, write : BOOLEAN]
Absent     == [kind |-> "absent", at |-> 0, write |-> FALSE]
Large(f, w) == [kind |-> "large", at |-> f, write |-> w]
TableAt(t) == [kind |-> "table", at |-> t, write |-> TRUE]
Page   == [present : BOOLEAN, at : Pages, write : BOOLEAN]
NoPage == [present |-> FALSE, at |-> 0, write |-> FALSE]
Names(a, t) == entries[a].kind = "table" /\ entries[a].at = t
NoMapping == [first |-> 0, last |-> 0, from |-> 0, replace |-> FALSE,
              write |-> FALSE, entries |-> <<>>, fresh |-> <<>>, ptes |-> <<>>,
              running |-> FALSE, found |-> <<>>, tables |-> {}]

\* What the processor finds at a page.
Translation(p) ==
    LET e == entries[Area(p)] IN
    CASE e.kind = "large" -> [present |-> TRUE, at |-> 2 * e.at + Half(p),
                              write |-> e.write]
      [] e.kind = "table" -> [ptes[e.at][Half(p)] EXCEPT !.write = @ /\ e.write]
      [] OTHER            -> NoPage
Translations == [p \in Pages |-> Translation(p)]

\* The types.
MemoryTypeOK ==
    /\ entries \in [Areas -> Entry] /\ ptes \in [Tables -> [{0, 1} -> Page]]
    /\ used \subseteq Slots /\ reserved \subseteq Slots /\ tablesUsed \subseteq Tables
    /\ reservations \in 0 .. MaxReservations /\ cursor \in Nat /\ directNext \in Nat
    /\ outcome \in {"done", "failed", "unanswered"} /\ mapCalls \in 0 .. MaxMapCalls

MemoryInit ==
    /\ entries = [a \in Areas |-> Absent]
    /\ ptes = [t \in Tables |-> [h \in {0, 1} |-> NoPage]]
    /\ used = {} /\ reserved = {} /\ tablesUsed = {}
    /\ reservations = 0 /\ cursor = 2 * Cardinality(Areas) /\ directNext = 0
    /\ mapping = NoMapping /\ outcome = "done" /\ mapCalls = 0

Least(S) == CHOOSE x \in S : \A y \in S : x <= y
Greatest(S) == CHOOSE x \in S : \A y \in S : y <= x

\* A call is served while no other is; a failing step may leave no trace.
Serve(result) ==
    /\ ~mapping.running /\ mapCalls < MaxMapCalls
    /\ outcome' = result /\ mapCalls' = mapCalls + 1

----------------------------------------------------------------------------
\* Flexible memory

Flexible == 0 .. FlexibleSlots - 1
Vacant(s) == s \notin used /\ s \notin reserved
Run(start, n) == start .. start + n - 1
VacantRuns(n) ==
    {s \in Flexible : Run(s, n) \subseteq Flexible /\ \A r \in Run(s, n) : Vacant(r)}

\* The slots of the pages first..last of the dynamic range.
SlotsOf(first, last) == {a - Below : a \in AreasOf(first, last)}

\* The entries once the slots of a run back themselves, and once they are gone.
BackedBy(S, w) == [a \in Areas |-> IF a - Below \in S
                                   THEN Large(Memory(a - Below), w) ELSE entries[a]]
Without(es, S) == [a \in Areas |-> IF a - Below \in S THEN Absent ELSE es[a]]

\* shadps4_hle_mmap of the slots of a run; the write for slot start + fault fails.
MapRun(start, n, w, fault) ==
    IF fault = n
    THEN /\ entries' = BackedBy(Run(start, n), w)
         /\ used' = used \cup Run(start, n)
    ELSE /\ entries' = Without(entries, Run(start, fault + 1))
         /\ used' = used \ Run(start, fault + 1)

\* mmap, and the callers that let it choose: stacks, thread-local storage, JIT
\* memory and the arenas of the libraries.
Mmap(n, w, fault) ==
    /\ Serve(IF fault < n THEN "failed" ELSE "done")
    /\ VacantRuns(n) # {}
    /\ MapRun(Least(VacantRuns(n)), n, w, fault)
    /\ UNCHANGED <<ptes, reserved, tablesUsed, reservations, cursor, directNext, mapping>>

\* mmap at an address: reservations do not stand in its way.
MmapAt(first, last, w, fault) ==
    /\ Serve(IF fault < Cardinality(SlotsOf(first, last)) THEN "failed" ELSE "done")
    /\ SlotsOf(first, last) \subseteq Flexible \ used
    /\ MapRun(Area(first) - Below, Cardinality(SlotsOf(first, last)), w, fault)
    /\ UNCHANGED <<ptes, reserved, tablesUsed, reservations, cursor, directNext, mapping>>

\* shadps4_hle_mmap_alias: a second view of n slots, at the highest vacant run.
Alias(source, n, w, fault) ==
    LET target == Greatest(VacantRuns(n)) IN
    /\ Serve(IF fault < n THEN "failed" ELSE "done")
    /\ Run(source, n) \subseteq Flexible \cap used /\ VacantRuns(n) # {}
    /\ "alias_table" \notin MemoryPermitted =>
          \A s \in Run(source, n) : entries[Home(s)].kind # "table"
    /\ LET View(a) == LET e == entries[a - target + source] IN
                      IF e.kind = "absent" THEN e ELSE [e EXCEPT !.write = w]
       IN IF fault = n
          THEN /\ entries' = [a \in Areas |-> IF a - Below \in Run(target, n)
                                              THEN View(a) ELSE entries[a]]
               /\ used' = used \cup Run(target, n)
          ELSE /\ entries' = Without(entries, Run(target, fault))
               /\ used' = used \ Run(target, fault)
    /\ UNCHANGED <<ptes, reserved, tablesUsed, reservations, cursor, directNext, mapping>>

\* The memory of the slots is seen through no other area.
SeenOnlyAt(S) ==
    \A p \in Pages : LET x == Translation(p) IN
        x.present /\ Area(x.at) \in {Memory(s) : s \in S \cap Flexible}
            => Area(p) - Below \in S
MayFree(S) == "unmap_shared" \in MemoryPermitted \/ SeenOnlyAt(S)

\* shadps4_hle_munmap.  The page table of an area is not given back, and a slot
\* is free again although its memory may be mapped elsewhere.
Unmap(first, last) ==
    LET S == SlotsOf(first, last) IN
    /\ Serve("done")
    /\ S \subseteq used
    /\ MayFree(S)
    /\ entries' = Without(entries, S)
    /\ used' = used \ S
    /\ UNCHANGED <<ptes, reserved, tablesUsed, reservations, cursor, directNext, mapping>>

----------------------------------------------------------------------------
\* Protection, and mapping at an address the guest passes by reference

Present(first, last) ==
    /\ \A a \in AreasOf(first, last) : entries[a].kind # "absent"
    /\ \A p \in first .. last :
          LET e == entries[Area(p)] IN
          e.kind = "table" => ptes[e.at][Half(p)].present

\* shadps4_hle_mprotect: a large entry changes its whole area, a table only the pages.
ProtectedEntries(first, last, w) ==
    [a \in Areas |->
        IF a \notin AreasOf(first, last) THEN entries[a]
        ELSE [entries[a] EXCEPT !.write = entries[a].kind = "table" \/ w]]
ProtectedPtes(first, last, w) ==
    [t \in Tables |-> [h \in {0, 1} |->
        IF \E p \in first .. last : Names(Area(p), t) /\ Half(p) = h
        THEN [ptes[t][h] EXCEPT !.write = w] ELSE ptes[t][h]]]

ProtectCall(first, last, w) ==
    /\ Serve("done")
    /\ Present(first, last)
    /\ entries' = ProtectedEntries(first, last, w)
    /\ ptes' = ProtectedPtes(first, last, w)
    /\ UNCHANGED <<used, reserved, tablesUsed, reservations, cursor, directNext, mapping>>

\* shadps4_hle_map_to_pointer, where every slot is in use, only protects them.
\* When the answer cannot be written it unmaps them, though it did not map them.
RemapUnanswered(first, last, w) ==
    LET S == SlotsOf(first, last) IN
    /\ Serve("unanswered")
    /\ S \subseteq used /\ Present(first, last) /\ MayFree(S)
    /\ ptes' = ProtectedPtes(first, last, w)
    /\ entries' = Without(entries, S)
    /\ used' = used \ S
    /\ UNCHANGED <<reserved, tablesUsed, reservations, cursor, directNext, mapping>>

\* Below the dynamic range an absent area takes the next vacant flexible slot's
\* memory, a present one keeps its own.
AbsentOf(A) == {a \in A : entries[a].kind = "absent"}
VacantFlexible == {s \in Flexible : Vacant(s)}
Rank(S, x) == Cardinality({y \in S : y <= x})
Taken(A) ==
    [a \in AbsentOf(A) |->
        CHOOSE s \in VacantFlexible : Rank(VacantFlexible, s) = Rank(AbsentOf(A), a)]

TakenUnmarked(A) == {}
TakenBy(A) == {Taken(A)[a] : a \in AbsentOf(A)}

Outside(first, last) ==
    /\ Area(first) < Below
    /\ "straddle" \in MemoryPermitted \/ Area(last) < Below

MapOutside(first, last, w, result) ==
    LET A == AreasOf(first, last) IN
    /\ Serve(result)
    /\ Outside(first, last)
    /\ Cardinality(AbsentOf(A)) <= Cardinality(VacantFlexible)
    /\ entries' = [a \in Areas |->
                    IF a \notin A THEN entries[a]
                    ELSE IF a \in AbsentOf(A) THEN Large(Memory(Taken(A)[a]), w)
                    ELSE [entries[a] EXCEPT !.write = w]]
    /\ used' = used \cup TakenBy(A)
    /\ UNCHANGED <<ptes, reserved, tablesUsed, reservations, cursor, directNext, mapping>>

\* The entries are restored and the slots given back, but for that of the entry
\* whose write failed.  Without enough slots nothing is left either, nor when it is
\* the read of an entry that fails or the clearing of its memory.
OutsideFails(first, last, fault, writing) ==
    LET A == AreasOf(first, last) IN
    /\ Serve("failed")
    /\ Outside(first, last) /\ fault \in A
    /\ used' = used \cup
          (IF /\ writing /\ fault \in AbsentOf(A)
              /\ Rank(AbsentOf(A), fault) <= Cardinality(VacantFlexible)
           THEN {Taken(A)[fault]} ELSE {})
    /\ UNCHANGED <<entries, ptes, reserved, tablesUsed, reservations, cursor,
                   directNext, mapping>>

\* shadps4_hle_make_conventional_memory_writable: the first three quarters.
MakeWritable ==
    /\ Serve("done")
    /\ entries' = [a \in Areas |->
                    IF /\ a - Below \in 0 .. (3 * Cardinality(Slots)) \div 4 - 1
                       /\ entries[a].kind # "absent"
                    THEN [entries[a] EXCEPT !.write = TRUE] ELSE entries[a]]
    /\ UNCHANGED <<ptes, used, reserved, tablesUsed, reservations, cursor,
                   directNext, mapping>>

----------------------------------------------------------------------------
\* Direct memory

\* shadps4_hle_allocate_direct: a bump allocator; a release gives nothing back.
AllocateDirect(n) ==
    /\ Serve("done")
    /\ directNext + n <= 2 * DirectSlots
    /\ directNext' = directNext + n
    /\ UNCHANGED <<entries, ptes, used, reserved, tablesUsed, reservations, cursor, mapping>>

\* The first areas of the dynamic range without an entry, for n pages.
AbsentPlaces(n) ==
    {p \in Pages : /\ Half(p) = 0 /\ Area(p) >= Below /\ p + n - 1 \in Pages
                   /\ \A a \in AreasOf(p, p + n - 1) : entries[a].kind = "absent"}

MapDirect(first, last, from, replace, w) ==
    /\ Serve("done")
    /\ from + last - first < 2 * DirectSlots
    /\ "straddle" \in MemoryPermitted \/ Area(first) >= Below \/ Area(last) < Below
    /\ mapping' = [NoMapping EXCEPT !.first = first, !.last = last, !.from = from,
                                    !.replace = replace, !.write = w, !.running = TRUE,
                                    !.found = Translations, !.tables = tablesUsed]
    /\ UNCHANGED <<entries, ptes, used, reserved, tablesUsed, reservations, cursor, directNext>>

MapDirectAnywhere(n, from, w) ==
    /\ AbsentPlaces(n) # {}
    /\ MapDirect(Least(AbsentPlaces(n)), Least(AbsentPlaces(n)) + n - 1, from, FALSE, w)

\* The table that takes the place of an entry: the same memory, page by page.
Split(e) == [h \in {0, 1} |-> IF e.kind = "large"
                              THEN [present |-> TRUE, at |-> 2 * e.at + h, write |-> e.write]
                              ELSE NoPage]

Prepared == Area(mapping.first) + Len(mapping.entries) > Area(mapping.last)

\* The next area gets a page table, if it has none.
Prepare ==
    LET a == Area(mapping.first) + Len(mapping.entries)
        t == Least(Tables \ tablesUsed)
    IN
    /\ mapping.running /\ ~Prepared
    /\ IF entries[a].kind = "table"
       THEN /\ mapping' = [mapping EXCEPT !.entries = Append(@, entries[a]),
                                          !.fresh = Append(@, {})]
            /\ UNCHANGED <<entries, ptes, tablesUsed>>
       ELSE /\ tablesUsed # Tables
            /\ tablesUsed' = tablesUsed \cup {t}
            /\ ptes' = [ptes EXCEPT ![t] = Split(entries[a])]
            /\ entries' = [entries EXCEPT ![a] = TableAt(t)]
            /\ mapping' = [mapping EXCEPT !.entries = Append(@, entries[a]),
                                          !.fresh = Append(@, {t})]
    /\ UNCHANGED <<used, reserved, reservations, cursor, directNext, outcome, mapCalls>>

\* The next page is mapped, unless it holds other memory that may not be replaced.
Fill ==
    LET p   == mapping.first + Len(mapping.ptes)
        t   == entries[Area(p)].at
        old == ptes[t][Half(p)]
        at  == mapping.from + Len(mapping.ptes)
    IN
    /\ mapping.running /\ Prepared /\ p <= mapping.last
    /\ old.present /\ old.at # at => mapping.replace
    /\ ptes' = [ptes EXCEPT ![t][Half(p)] =
                    [present |-> TRUE, at |-> at, write |-> mapping.write]]
    /\ mapping' = [mapping EXCEPT !.ptes = Append(@, old)]
    /\ UNCHANGED <<entries, used, reserved, tablesUsed, reservations, cursor,
                   directNext, outcome, mapCalls>>

\* The answer is written; the slots the pages lie in are in use.
Mapped ==
    /\ mapping.running /\ Prepared /\ mapping.first + Len(mapping.ptes) > mapping.last
    /\ used' = used \cup (IF Area(mapping.first) >= Below
                          THEN SlotsOf(mapping.first, mapping.last) ELSE {})
    /\ mapping' = NoMapping
    /\ UNCHANGED <<entries, ptes, reserved, tablesUsed, reservations, cursor,
                   directNext, outcome, mapCalls>>

FreshTables == UNION {mapping.fresh[i] : i \in DOMAIN mapping.fresh}

\* What the call found at the areas it gave a new table.
EntriesBefore ==
    [a \in Areas |->
        LET i == a - Area(mapping.first) + 1 IN
        IF i \in DOMAIN mapping.fresh /\ mapping.fresh[i] # {}
        THEN mapping.entries[i] ELSE entries[a]]

PtesLeft == ptes
PtesBefore ==
    [t \in Tables |-> [h \in {0, 1} |->
        LET S == {i \in DOMAIN mapping.ptes :
                    /\ Names(Area(mapping.first + i - 1), t)
                    /\ Half(mapping.first + i - 1) = h}
        IN IF S = {} THEN ptes[t][h] ELSE mapping.ptes[Least(S)]]]

\* No table left, a page in the way, a write that fails, an answer that cannot be
\* written: the pages are restored, then the entries, and the new tables are freed.
RollBack ==
    /\ mapping.running
    /\ ptes' = PtesBefore /\ entries' = EntriesBefore
    /\ tablesUsed' = tablesUsed \ FreshTables
    /\ mapping' = NoMapping /\ outcome' = "failed"
    /\ UNCHANGED <<used, reserved, reservations, cursor, directNext, mapCalls>>

----------------------------------------------------------------------------
\* Reservations, reset and the specification

\* shadps4_hle_virtual_range_is_free; addresses past the dynamic range are.
RangeFree(first, last) ==
    \A p \in (first .. last) \cap Pages : ~Translation(p).present

\* shadps4_hle_reserve_virtual: reservations made before do not stand in the way.
Reserve(place, n) ==
    /\ Serve("done")
    /\ reservations < MaxReservations /\ RangeFree(place, place + n - 1)
    /\ reservations' = reservations + 1
    /\ cursor' = IF cursor < place + n THEN place + n ELSE cursor
    /\ reserved' = reserved \cup (SlotsOf(place, place + n - 1) \cap Slots)
    /\ UNCHANGED <<entries, ptes, used, tablesUsed, directNext, mapping>>

\* At the address the guest fixed, at the first free one from its wish on, or past
\* every reservation so far.
ReserveFixed(hint, n) == Reserve(hint, n)
ReserveNear(hint, n) ==
    \E p \in hint .. cursor :
        /\ \A q \in hint .. p - 1 : ~RangeFree(q, q + n - 1)
        /\ Reserve(p, n)
ReserveNext(n) == Reserve(cursor, n)

\* A machine reset builds the page tables anew and clears the tables of the HLE.
MemoryReset ==
    /\ ~mapping.running
    /\ entries' = [a \in Areas |-> Absent]
    /\ ptes' = [t \in Tables |-> [h \in {0, 1} |-> NoPage]]
    /\ used' = {} /\ reserved' = {} /\ tablesUsed' = {}
    /\ reservations' = 0 /\ cursor' = 2 * Cardinality(Areas) /\ directNext' = 0
    /\ mapping' = NoMapping /\ outcome' = "done"
    /\ UNCHANGED mapCalls

Sizes2 == 1 .. 2

MemoryNext ==
    \/ \E n \in Sizes2, w \in Rights : \E fault \in 0 .. n :
          \/ Mmap(n, w, fault)
          \/ \E s \in Flexible : Alias(s, n, w, fault)
    \/ \E first \in Pages : \E last \in {first, first + 1} \cap Pages :
          \/ \E w \in Rights :
                \/ \E fault \in 0 .. Cardinality(SlotsOf(first, last)) :
                      MmapAt(first, last, w, fault)
                \/ RemapUnanswered(first, last, w)
                \/ \E result \in {"done", "unanswered"} :
                      MapOutside(first, last, w, result)
                \/ \E from \in 0 .. 2 * DirectSlots - 1, replace \in BOOLEAN :
                      MapDirect(first, last, from, replace, w)
          \/ \E w \in BOOLEAN : ProtectCall(first, last, w)
          \/ Unmap(first, last)
          \/ \E fault \in AreasOf(first, last), writing \in BOOLEAN :
                OutsideFails(first, last, fault, writing)
    \/ MakeWritable
    \/ \E n \in Sizes2 :
          \/ AllocateDirect(n)
          \/ \E from \in 0 .. 2 * DirectSlots - 1, w \in Rights :
                MapDirectAnywhere(n, from, w)
          \/ \E hint \in Pages : ReserveFixed(hint, n) \/ ReserveNear(hint, n)
          \/ ReserveNext(n)
    \/ Prepare \/ Fill \/ Mapped \/ RollBack
    \/ MemoryReset

MemorySpec == MemoryInit /\ [][MemoryNext]_memoryVars

----------------------------------------------------------------------------
\* Properties

\* Memory of a slot that is free, and will be given to the next mapping, is mapped
\* nowhere, so that no two owners meet in it; and a page table an entry names is in
\* use, and named by no other entry.
MemoryAccounted ==
    /\ \A p \in Pages : LET x == Translation(p) IN
         x.present /\ Area(x.at) >= DirectSlots => Area(x.at) - DirectSlots \in used
    /\ \A a \in Areas : entries[a].kind = "table" =>
         /\ entries[a].at \in tablesUsed
         /\ \A b \in Areas \ {a} : ~Names(b, entries[a].at)

\* While direct memory is being mapped, a vCPU that runs meanwhile finds its memory
\* at every page the call has not reached; and a mapping call that fails leaves
\* every page as it found it, and no page table taken.  (RemapUnanswered and
\* MapOutside say what does not hold when only the answer cannot be written.)
MapUndisturbing ==
    [][/\ mapping.running =>
            \A p \in Pages : Translation(p)' # Translation(p)
                => p \in mapping.first .. mapping.first + Len(mapping.ptes)
       /\ outcome' = "failed" =>
            IF mapping.running /\ ~mapping'.running
            THEN Translations' = mapping.found /\ tablesUsed' = mapping.tables
            ELSE mapCalls' # mapCalls => UNCHANGED <<Translations, tablesUsed>>
          ]_memoryVars
=============================================================================
