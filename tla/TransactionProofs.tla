------------------------- MODULE TransactionProofs -------------------------
(***************************************************************************)
(* The journal restores the heap, for a heap, a journal and a set of byte  *)
(* values of any size.                                                     *)
(***************************************************************************)
EXTENDS Transaction, TLAPS

\* What ties a journal to its heap.  Unallocated bytes are zero, so that alloc
\* changes no byte.  Entries are for allocated offsets outside Bypass, and an
\* offset that has an entry has an earliest one.  In a transaction the earliest
\* entry of an offset holds the value from before; an offset without an entry
\* still has that value.
Tied(h, f, a, j, b) ==
    /\ \A o \in Offsets : o >= f => h[o] = 0
    /\ \A i \in DOMAIN j : j[i].offset < f /\ j[i].offset \notin Bypass
                           /\ Deciding(j, j[i].offset) # {}
    /\ a => \A o \in Offsets \ Bypass :
               /\ \A i \in Deciding(j, o) : j[i].old = b[o]
               /\ Deciding(j, o) = {} => h[o] = b[o]

IInv ==
    /\ TypeOK
    /\ Tied(heap, free, active, journal, before)
    /\ Tied(saved.heap, saved.free, saved.active, saved.journal, saved.before)

\* An empty journal decides nothing.
LEMMA EmptyDecides == \A o : Deciding(<<>>, o) = {}
  BY DEF Deciding

\* An entry that is appended decides its offset exactly when it is the first
\* one for it, and takes no decision from an earlier entry.
LEMMA AppendDecides ==
    ASSUME NEW j \in Seq(JournalEntry), NEW e \in JournalEntry, NEW o
    PROVE  /\ Deciding(j, o) \subseteq Deciding(Append(j, e), o)
           /\ Deciding(Append(j, e), o) \subseteq Deciding(j, o) \cup {Len(j) + 1}
           /\ Deciding(j, o) # {} => Deciding(Append(j, e), o) = Deciding(j, o)
           /\ e.offset # o => Deciding(Append(j, e), o) = Deciding(j, o)
           /\ e.offset = o /\ (\A i \in DOMAIN j : j[i].offset # o)
                => Deciding(Append(j, e), o) = {Len(j) + 1}
  <1> DEFINE k == Append(j, e)
  <1>1. /\ Len(j) \in Nat /\ DOMAIN j = 1 .. Len(j) /\ DOMAIN k = 1 .. Len(j) + 1
        /\ \A i \in 1 .. Len(j) : k[i] = j[i]
        /\ k[Len(j) + 1] = e
    OBVIOUS
  <1> HIDE DEF k
  <1>2. \A i : i \in Deciding(j, o) <=>
               i \in 1 .. Len(j) /\ j[i].offset = o /\ \A m \in 1 .. i - 1 : j[m].offset # o
    BY <1>1 DEF Deciding
  <1>3. \A i : i \in Deciding(k, o) <=>
               i \in 1 .. Len(j) + 1 /\ k[i].offset = o /\ \A m \in 1 .. i - 1 : k[m].offset # o
    BY <1>1 DEF Deciding
  <1>4. \A i \in 1 .. Len(j) : i \in Deciding(k, o) <=> i \in Deciding(j, o)
    BY <1>1, <1>2, <1>3
  <1>5. \A i : i \in Deciding(j, o) => i \in 1 .. Len(j)
    BY <1>2
  <1>6. \A i : i \in Deciding(k, o) => i \in 1 .. Len(j) \/ i = Len(j) + 1
    BY <1>1, <1>3
  <1>7. Len(j) + 1 \in Deciding(k, o) => e.offset = o /\ \A m \in 1 .. Len(j) : j[m].offset # o
    BY <1>1, <1>3
  <1>8. e.offset = o /\ (\A m \in 1 .. Len(j) : j[m].offset # o) => Len(j) + 1 \in Deciding(k, o)
    BY <1>1, <1>3
  <1>9. Deciding(j, o) # {} => \E m \in 1 .. Len(j) : j[m].offset = o
    BY <1>2
  <1>10. Deciding(j, o) \subseteq Deciding(k, o)
         /\ Deciding(k, o) \subseteq Deciding(j, o) \cup {Len(j) + 1}
    BY <1>4, <1>5, <1>6
  <1>11. Len(j) + 1 \notin Deciding(k, o) => Deciding(k, o) = Deciding(j, o)
    BY <1>10
  <1>12. (\A m \in 1 .. Len(j) : j[m].offset # o) => Deciding(j, o) = {}
    BY <1>9
  <1>13. Deciding(k, o) \subseteq Deciding(j, o) \cup {Len(j) + 1}
    BY <1>10
  <1> QED
    BY <1>1, <1>7, <1>8, <1>9, <1>10, <1>11, <1>12, <1>13 DEF k

\* A recorded write keeps the journal tied to the heap.
LEMMA WriteTied ==
    ASSUME NEW h \in Heap, NEW f \in 0 .. HeapSize, NEW j \in Seq(JournalEntry), NEW b \in Heap,
           NEW o \in Offsets, NEW v \in Values, o < f, o \notin Bypass,
           Tied(h, f, TRUE, j, b)
    PROVE  Tied([h EXCEPT ![o] = v], f, TRUE, Append(j, [offset |-> o, old |-> h[o]]), b)
  <1> DEFINE e == [offset |-> o, old |-> h[o]]
             k == Append(j, e)
             g == [h EXCEPT ![o] = v]
  <1>0. e \in JournalEntry /\ e.offset = o /\ e.old = h[o]
    BY DEF JournalEntry, Heap
  <1>00. g[o] = v /\ \A p \in Offsets : p # o => g[p] = h[p]
    BY DEF Heap
  <1>1. /\ Len(j) \in Nat /\ DOMAIN j = 1 .. Len(j) /\ DOMAIN k = 1 .. Len(j) + 1
        /\ \A i \in 1 .. Len(j) : k[i] = j[i]
        /\ k[Len(j) + 1] = e
    BY <1>0
  <1>d. \A p : /\ Deciding(j, p) \subseteq Deciding(k, p)
               /\ Deciding(k, p) \subseteq Deciding(j, p) \cup {Len(j) + 1}
               /\ Deciding(j, p) # {} => Deciding(k, p) = Deciding(j, p)
               /\ o # p => Deciding(k, p) = Deciding(j, p)
               /\ (\A i \in DOMAIN j : j[i].offset # p) /\ o = p
                     => Deciding(k, p) = {Len(j) + 1}
    BY <1>0, AppendDecides
  <1>sub. \A p : Deciding(j, p) \subseteq DOMAIN j
    BY DEF Deciding
  <1> HIDE DEF e, k, g
  <1>t. /\ \A p \in Offsets : p >= f => h[p] = 0
        /\ \A i \in DOMAIN j : j[i].offset < f /\ j[i].offset \notin Bypass
                               /\ Deciding(j, j[i].offset) # {}
        /\ \A p \in Offsets \ Bypass :
               /\ \A i \in Deciding(j, p) : j[i].old = b[p]
               /\ Deciding(j, p) = {} => h[p] = b[p]
    BY DEF Tied
  <1>ne. Deciding(k, o) # {}
    <2>1. CASE \E i \in DOMAIN j : j[i].offset = o
      BY <2>1, <1>t, <1>d
    <2>2. CASE \A i \in DOMAIN j : j[i].offset # o
      BY <2>2, <1>d
    <2> QED BY <2>1, <2>2
  <1>2. \A p \in Offsets : p >= f => g[p] = 0
    BY <1>t, <1>00, TransactionAssumption DEF Offsets
  <1>3. \A i \in DOMAIN k : k[i].offset < f /\ k[i].offset \notin Bypass
                            /\ Deciding(k, k[i].offset) # {}
    <2> SUFFICES ASSUME NEW i \in DOMAIN k
                 PROVE  k[i].offset < f /\ k[i].offset \notin Bypass
                        /\ Deciding(k, k[i].offset) # {}
      OBVIOUS
    <2>1. CASE i = Len(j) + 1
      BY <2>1, <1>0, <1>1, <1>ne
    <2>2. CASE i \in 1 .. Len(j)
      BY <2>2, <1>1, <1>t, <1>d
    <2> QED BY <2>1, <2>2, <1>1
  <1>4. \A p \in Offsets \ Bypass :
            /\ \A i \in Deciding(k, p) : k[i].old = b[p]
            /\ Deciding(k, p) = {} => g[p] = b[p]
    <2> SUFFICES ASSUME NEW p \in Offsets \ Bypass
                 PROVE  /\ \A i \in Deciding(k, p) : k[i].old = b[p]
                        /\ Deciding(k, p) = {} => g[p] = b[p]
      OBVIOUS
    <2>1. \A i \in Deciding(j, p) : k[i].old = b[p]
      BY <1>t, <1>1, <1>sub
    <2>2. CASE p # o
      BY <2>1, <2>2, <1>d, <1>t, <1>00
    <2>3. CASE p = o /\ Deciding(j, p) # {}
      BY <2>1, <2>3, <1>d
    <2>4. CASE p = o /\ Deciding(j, p) = {}
      <3>1. h[o] = b[o]
        BY <2>4, <1>t
      <3>2. \A i \in Deciding(k, p) : i = Len(j) + 1
        BY <2>4, <1>d
      <3> QED BY <3>1, <3>2, <2>4, <1>0, <1>1, <1>ne
    <2> QED BY <2>2, <2>3, <2>4
  <1> QED BY <1>2, <1>3, <1>4 DEF Tied, e, k, g

\* The types, field by field.
LEMMA Typed ==
    TypeOK <=>
      /\ heap \in Heap /\ free \in 0 .. HeapSize /\ active \in BOOLEAN
      /\ journal \in Seq(JournalEntry) /\ before \in Heap
      /\ saved \in State
      /\ Len(journal) <= Cap /\ Len(saved.journal) <= Cap /\ running \in BOOLEAN
  BY DEF TypeOK, State

\* The initial state: an empty journal is tied to any heap that is zero.
LEMMA InitIInv == Init => IInv
  <1> SUFFICES ASSUME Init PROVE IInv
    OBVIOUS
  <1>1. heap \in Heap /\ free \in 0 .. HeapSize /\ <<>> \in Seq(JournalEntry) /\ Len(<<>>) = 0
    BY TransactionAssumption DEF Init, Heap
  <1>2. /\ heap \in Heap /\ free \in 0 .. HeapSize /\ active = FALSE /\ journal = <<>>
        /\ before = heap /\ running = FALSE
        /\ saved = [heap |-> heap, free |-> free, active |-> FALSE, journal |-> <<>>,
                    before |-> heap]
    BY <1>1 DEF Init
  <1>3. TypeOK
    <2>1. saved \in State /\ saved.journal = <<>>
      BY <1>1, <1>2 DEF State
    <2>2. Len(journal) <= Cap /\ Len(saved.journal) <= Cap
      BY <1>1, <1>2, <2>1, TransactionAssumption
    <2> QED BY <1>1, <1>2, <2>1, <2>2, Typed
  <1>4. \A o \in Offsets : heap[o] = 0
    BY DEF Init
  <1>5. Tied(heap, free, active, journal, before)
    BY <1>2, <1>4 DEF Tied
  <1>6. /\ saved.heap = heap /\ saved.free = free /\ saved.active = FALSE
        /\ saved.journal = <<>> /\ saved.before = heap
    BY <1>2
  <1>7. Tied(saved.heap, saved.free, saved.active, saved.journal, saved.before)
    BY <1>4, <1>6 DEF Tied
  <1> QED BY <1>3, <1>5, <1>7 DEF IInv

\* Every step keeps the types.
LEMMA TypeStep == TypeOK /\ [JournalNext]_vars => TypeOK'
  <1> SUFFICES ASSUME TypeOK, [JournalNext]_vars PROVE TypeOK'
    OBVIOUS
  <1>t. /\ heap \in Heap /\ free \in 0 .. HeapSize /\ active \in BOOLEAN
        /\ journal \in Seq(JournalEntry) /\ before \in Heap
        /\ saved \in State
        /\ Len(journal) <= Cap /\ Len(saved.journal) <= Cap /\ running \in BOOLEAN
    BY Typed
  <1>s. /\ saved.heap \in Heap /\ saved.free \in 0 .. HeapSize /\ saved.active \in BOOLEAN
        /\ saved.journal \in Seq(JournalEntry) /\ saved.before \in Heap
    BY <1>t DEF State
  <1>e. <<>> \in Seq(JournalEntry) /\ Len(<<>>) = 0 /\ Len(<<>>) <= Cap
    BY TransactionAssumption
  <1> SUFFICES /\ heap' \in Heap /\ free' \in 0 .. HeapSize /\ active' \in BOOLEAN
               /\ journal' \in Seq(JournalEntry) /\ before' \in Heap
               /\ saved' \in State
               /\ Len(journal') <= Cap /\ Len(saved'.journal) <= Cap /\ running' \in BOOLEAN
    BY DEF TypeOK, State
  <1>1. CASE begin
    BY <1>1, <1>t, <1>e DEF begin
  <1>2. CASE commit
    BY <1>2, <1>t, <1>e DEF commit
  <1>3. CASE abort
    <2>1. RolledBack \in Heap
      <3> SUFFICES ASSUME NEW o \in Offsets PROVE RolledBack[o] \in Values
        BY DEF RolledBack, Heap
      <3>1. CASE Deciding(journal, o) = {} \/ o >= free
        BY <3>1, <1>t DEF RolledBack, Heap
      <3>2. CASE ~(Deciding(journal, o) = {} \/ o >= free)
        <4> DEFINE i == CHOOSE n \in Deciding(journal, o) : TRUE
        <4>1. i \in Deciding(journal, o)
          BY <3>2
        <4>2. i \in DOMAIN journal
          BY <4>1 DEF Deciding
        <4>3. journal[i] \in JournalEntry
          BY <4>2, <1>t
        <4>4. RolledBack[o] = journal[i].old
          BY <3>2 DEF RolledBack
        <4> QED BY <4>3, <4>4 DEF JournalEntry
      <3> QED BY <3>1, <3>2
    <2> QED BY <1>3, <2>1, <1>t, <1>e DEF abort
  <1>4. ASSUME NEW n \in 1 .. HeapSize, alloc(n) PROVE
               /\ heap' \in Heap /\ free' \in 0 .. HeapSize /\ active' \in BOOLEAN
               /\ journal' \in Seq(JournalEntry) /\ before' \in Heap
               /\ saved' \in State
               /\ Len(journal') <= Cap /\ Len(saved'.journal) <= Cap /\ running' \in BOOLEAN
    BY <1>4, <1>t, TransactionAssumption DEF alloc, Heap
  <1>5. CASE save_state
    <2>1. saved' \in State /\ saved'.journal = journal
      BY <1>5, <1>t DEF save_state, State
    <2> QED BY <1>5, <2>1, <1>t DEF save_state, state
  <1>6. CASE restore_state
    BY <1>6, <1>t, <1>s DEF restore_state
  <1>7. ASSUME NEW o \in Offsets, NEW v \in Values, recorded_write(o, v) PROVE
               /\ heap' \in Heap /\ free' \in 0 .. HeapSize /\ active' \in BOOLEAN
               /\ journal' \in Seq(JournalEntry) /\ before' \in Heap
               /\ saved' \in State
               /\ Len(journal') <= Cap /\ Len(saved'.journal) <= Cap /\ running' \in BOOLEAN
    <2>1. heap' \in Heap
      BY <1>7, <1>t DEF recorded_write, Heap
    <2>2. [offset |-> o, old |-> heap[o]] \in JournalEntry
      BY <1>t DEF JournalEntry, Heap
    <2>3. journal' \in Seq(JournalEntry) /\ Len(journal') <= Cap
      BY <1>7, <2>2, <1>t, TransactionAssumption DEF recorded_write, HasRoom
    <2> QED BY <1>7, <2>1, <2>3, <1>t DEF recorded_write
  <1>8. ASSUME NEW o \in Offsets, NEW v \in Values, bypass_write(o, v) PROVE
               /\ heap' \in Heap /\ free' \in 0 .. HeapSize /\ active' \in BOOLEAN
               /\ journal' \in Seq(JournalEntry) /\ before' \in Heap
               /\ saved' \in State
               /\ Len(journal') <= Cap /\ Len(saved'.journal) <= Cap /\ running' \in BOOLEAN
    BY <1>8, <1>t DEF bypass_write, Heap
  <1>9. CASE UNCHANGED vars
    BY <1>9, <1>t DEF vars, state
  <1> QED
    BY <1>1, <1>2, <1>3, <1>4, <1>5, <1>6, <1>7, <1>8, <1>9 DEF JournalNext, Common

\* Every step keeps both journals tied to their heaps.
LEMMA TiedStep ==
    IInv /\ [JournalNext]_vars =>
       /\ Tied(heap, free, active, journal, before)'
       /\ Tied(saved.heap, saved.free, saved.active, saved.journal, saved.before)'
  <1> SUFFICES ASSUME IInv, [JournalNext]_vars
               PROVE  /\ Tied(heap', free', active', journal', before')
                      /\ Tied(saved'.heap, saved'.free, saved'.active, saved'.journal,
                              saved'.before)
    BY DEF Tied, Deciding
  <1>t. /\ heap \in Heap /\ free \in 0 .. HeapSize /\ active \in BOOLEAN
        /\ journal \in Seq(JournalEntry) /\ before \in Heap /\ saved \in State
    BY Typed DEF IInv
  <1>i. /\ Tied(heap, free, active, journal, before)
        /\ Tied(saved.heap, saved.free, saved.active, saved.journal, saved.before)
    BY DEF IInv
  <1>z. \A o \in Offsets : o >= free => heap[o] = 0
    BY <1>i DEF Tied
  <1>1. CASE begin
    <2>1. Tied(heap', free', active', journal', before')
      BY <1>1, <1>z, EmptyDecides DEF begin, Tied
    <2> QED BY <1>1, <2>1, <1>i DEF begin
  <1>2. CASE commit
    <2>1. Tied(heap', free', active', journal', before')
      BY <1>2, <1>z, EmptyDecides DEF commit, Tied
    <2> QED BY <1>2, <2>1, <1>i DEF commit
  <1>3. CASE abort
    <2>1. \A o \in Offsets : o >= free => RolledBack[o] = 0
      BY <1>z DEF RolledBack
    <2>2. Tied(heap', free', active', journal', before')
      BY <1>3, <2>1, EmptyDecides DEF abort, Tied
    <2> QED BY <1>3, <2>2, <1>i DEF abort
  <1>4. ASSUME NEW n \in 1 .. HeapSize, alloc(n)
        PROVE  /\ Tied(heap', free', active', journal', before')
               /\ Tied(saved'.heap, saved'.free, saved'.active, saved'.journal, saved'.before)
    <2>1. heap' = heap
      BY <1>4, <1>t, <1>z DEF alloc, Heap, Offsets
    <2>2. free' >= free /\ free' \in Nat
      BY <1>4, <1>t DEF alloc
    <2>3. \A o \in Offsets : o >= free' => heap[o] = 0
      BY <2>2, <1>z, <1>t DEF Offsets
    <2>4. \A i \in DOMAIN journal : journal[i].offset < free'
      <3> SUFFICES ASSUME NEW i \in DOMAIN journal PROVE journal[i].offset < free'
        OBVIOUS
      <3>1. journal[i] \in JournalEntry
        BY <1>t
      <3>2. journal[i].offset \in Int
        BY <3>1 DEF JournalEntry, Offsets
      <3>3. journal[i].offset < free
        BY <1>i DEF Tied
      <3> QED BY <3>2, <3>3, <2>2, <1>t
    <2>5. Tied(heap, free', active, journal, before)
      BY <2>3, <2>4, <1>i DEF Tied
    <2> QED BY <1>4, <2>1, <2>5, <1>i DEF alloc
  <1>5. CASE save_state
    <2>1. /\ saved'.heap = heap /\ saved'.free = free /\ saved'.active = active
          /\ saved'.journal = journal /\ saved'.before = before
      BY <1>5 DEF save_state
    <2> QED BY <1>5, <2>1, <1>i DEF save_state, state
  <1>6. CASE restore_state
    BY <1>6, <1>i DEF restore_state
  <1>7. ASSUME NEW o \in Offsets, NEW v \in Values, recorded_write(o, v)
        PROVE  /\ Tied(heap', free', active', journal', before')
               /\ Tied(saved'.heap, saved'.free, saved'.active, saved'.journal, saved'.before)
    <2>1. CASE active
      <3>1. Tied(heap, free, TRUE, journal, before)
        BY <2>1, <1>i, <1>t
      <3>2. Tied([heap EXCEPT ![o] = v], free, TRUE,
                 Append(journal, [offset |-> o, old |-> heap[o]]), before)
        BY <3>1, <1>7, <1>t, WriteTied DEF recorded_write
      <3> QED BY <2>1, <3>2, <1>7, <1>i, <1>t DEF recorded_write
    <2>2. CASE ~active
      <3>1. \A p \in Offsets : p >= free => heap'[p] = 0
        BY <1>7, <1>z, <1>t DEF recorded_write, Heap, Offsets
      <3> QED BY <2>2, <3>1, <1>7, <1>i DEF recorded_write, Tied
    <2> QED BY <2>1, <2>2
  <1>8. ASSUME NEW o \in Offsets, NEW v \in Values, bypass_write(o, v)
        PROVE  /\ Tied(heap', free', active', journal', before')
               /\ Tied(saved'.heap, saved'.free, saved'.active, saved'.journal, saved'.before)
    <2>1. \A p \in Offsets : p >= free => heap'[p] = 0
      BY <1>8, <1>z, <1>t DEF bypass_write, Heap, Offsets
    <2>2. \A p \in Offsets \ Bypass : heap'[p] = heap[p]
      BY <1>8, <1>t DEF bypass_write, Heap
    <2>3. Tied(heap', free, active, journal, before)
      BY <2>1, <2>2, <1>i DEF Tied
    <2> QED BY <1>8, <2>3, <1>i DEF bypass_write
  <1>9. CASE UNCHANGED vars
    BY <1>9, <1>i DEF vars, state
  <1> QED
    BY <1>1, <1>2, <1>3, <1>4, <1>5, <1>6, <1>7, <1>8, <1>9 DEF JournalNext, Common

LEMMA Inductive == IInv /\ [JournalNext]_vars => IInv'
  BY TypeStep, TiedStep DEF IInv

\* transaction.rs and heap.rs: types, and the capacity of the journal.
THEOREM TypeCorrect == JournalSpec => []TypeOK
  <1>1. IInv => TypeOK
    BY DEF IInv
  <1> QED BY <1>1, InitIInv, Inductive, PTL DEF JournalSpec

\* abort, with the reverse replay of the journal: every byte outside Bypass has
\* the value of the begin, every PIN try counter keeps its own.
LEMMA AbortStep ==
    IInv => (abort => \A o \in Offsets :
                        heap'[o] = IF o \in Bypass THEN heap[o] ELSE before[o])
  <1> SUFFICES ASSUME IInv, abort, NEW o \in Offsets
               PROVE  heap'[o] = IF o \in Bypass THEN heap[o] ELSE before[o]
    OBVIOUS
  <1>t. free \in 0 .. HeapSize /\ journal \in Seq(JournalEntry) /\ o \in Int
    BY Typed DEF IInv, Offsets
  <1>i. Tied(heap, free, TRUE, journal, before)
    BY DEF IInv, abort, Tied
  <1>d. \A i \in Deciding(journal, o) : i \in DOMAIN journal /\ journal[i].offset = o
    BY DEF Deciding
  <1>b. Deciding(journal, o) # {} => o < free /\ o \notin Bypass
    BY <1>d, <1>i DEF Tied
  <1>1. heap'[o] = IF Deciding(journal, o) = {} \/ o >= free THEN heap[o]
                   ELSE journal[CHOOSE i \in Deciding(journal, o) : TRUE].old
    BY DEF abort, RolledBack
  <1>2. CASE Deciding(journal, o) = {}
    BY <1>1, <1>2, <1>i DEF Tied
  <1>3. CASE Deciding(journal, o) # {}
    <2>1. (CHOOSE i \in Deciding(journal, o) : TRUE) \in Deciding(journal, o)
      BY <1>3
    <2>2. \A i \in Deciding(journal, o) : journal[i].old = before[o]
      BY <1>3, <1>b, <1>i DEF Tied
    <2>3. ~(o >= free)
      BY <1>3, <1>b, <1>t
    <2> QED BY <1>1, <1>3, <1>b, <2>1, <2>2, <2>3
  <1> QED BY <1>2, <1>3

\* The rollback of transaction.rs is exact, for every heap and capacity, over
\* any sequence of writes, allocations, commits, snapshots and restores.
THEOREM AbortRestoresCorrect == JournalSpec => AbortRestores
  <1>1. IInv => [abort => \A o \in Offsets :
                    heap'[o] = IF o \in Bypass THEN heap[o] ELSE before[o]]_vars
    BY AbortStep
  <1> QED BY <1>1, InitIInv, Inductive, PTL DEF JournalSpec, AbortRestores
=============================================================================
