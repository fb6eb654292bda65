---------------------------- MODULE Transaction ----------------------------
(***************************************************************************)
(* simrs-jcvm: the object heap and the transaction journal that makes a    *)
(* group of persistent writes atomic.  The same journal over a byte        *)
(* buffer is in simrs-jcre.                                                *)
(*                                                                         *)
(* Two uses of it: JournalSpec is the use its documentation asks for,      *)
(* every write recorded before it is made; VmSpec is the interpreter,      *)
(* whose store instructions write to the heap directly.                    *)
(* Object headers and the firewall are left out: offsets are field bytes.  *)
(***************************************************************************)
EXTENDS Integers, Sequences

CONSTANTS
    HeapSize,         \* bytes of the heap
    Cap,              \* JOURNAL_CAP, entries of the journal
    Values,           \* values of a byte
    Bypass            \* offsets of PIN try counters, which are never recorded

ASSUME TransactionAssumption ==
    HeapSize \in Nat /\ Cap \in Nat /\ 0 \in Values /\ Bypass \subseteq 0 .. HeapSize - 1

VARIABLES
    heap, free,       \* ObjectHeap: its bytes, and the next free offset
    active, journal,  \* TransactionJournal: in progress, and the entries in use
    before,           \* history: the heap when the transaction began
    running,          \* is the applet's process method executing?
    saved             \* the snapshot

state == <<heap, free, active, journal, before>>
vars == <<state, running, saved>>

Offsets == 0 .. HeapSize - 1

\* ---- transaction.rs ----
begin ==
    /\ ~active
    /\ active' = TRUE /\ journal' = <<>> /\ before' = heap
    /\ UNCHANGED <<heap, free, running, saved>>

commit ==
    /\ active
    /\ active' = FALSE /\ journal' = <<>>
    /\ UNCHANGED <<heap, free, before, running, saved>>

\* Mutant: entries are replayed in the order they were recorded.
Deciding_last(j, o) ==
    {i \in DOMAIN j : j[i].offset = o /\ \A k \in i + 1 .. Len(j) : j[k].offset # o}
\* The entry of journal j whose value is left at offset o when j is replayed
\* from its end: the earliest one.
Deciding(j, o) ==
    {i \in DOMAIN j : j[i].offset = o /\ \A k \in 1 .. i - 1 : j[k].offset # o}

RolledBack ==
    [o \in Offsets |-> IF Deciding(journal, o) = {} \/ o >= free THEN heap[o]
                       ELSE journal[CHOOSE i \in Deciding(journal, o) : TRUE].old]

abort ==
    /\ active
    /\ heap' = RolledBack
    /\ active' = FALSE /\ journal' = <<>>
    /\ UNCHANGED <<free, before, running, saved>>

HasRoom == Len(journal) < Cap

\* record_write, and then the write; BufferFull stops both.
recorded_write(o, v) ==
    /\ o < free /\ o \notin Bypass
    /\ active => HasRoom
    /\ journal' = IF active THEN Append(journal, [offset |-> o, old |-> heap[o]]) ELSE journal
    /\ heap' = [heap EXCEPT ![o] = v]
    /\ UNCHANGED <<free, active, before, running, saved>>

\* A PIN try counter is written past the journal.
bypass_write(o, v) ==
    /\ o < free /\ o \in Bypass
    /\ heap' = [heap EXCEPT ![o] = v]
    /\ UNCHANGED <<free, active, journal, before, running, saved>>

\* ---- The heap, the interpreter and the snapshot ----
\* bump_alloc and the zero fill of the new object's fields; never undone.
alloc(n) ==
    /\ free + n <= HeapSize
    /\ free' = free + n
    /\ heap' = [o \in Offsets |-> IF o \in free .. free + n - 1 THEN 0 ELSE heap[o]]
    /\ UNCHANGED <<active, journal, before, running, saved>>

\* putfield and bastore.
store(o, v) ==
    /\ running
    /\ o < free
    /\ heap' = [heap EXCEPT ![o] = v]
    /\ UNCHANGED <<free, active, journal, before, running, saved>>

\* JcVMApplet::process begins, and returns, normally or with an exception.
process_enter ==
    /\ ~running /\ running' = TRUE
    /\ UNCHANGED <<state, saved>>
process_return ==
    /\ running /\ running' = FALSE
    /\ UNCHANGED <<state, saved>>

\* save_state_internal and restore_state_internal: heap and journal together.
save_state ==
    /\ saved' = [heap |-> heap, free |-> free, active |-> active, journal |-> journal,
                 before |-> before]
    /\ UNCHANGED <<state, running>>
restore_state ==
    /\ heap' = saved.heap /\ free' = saved.free /\ active' = saved.active
    /\ journal' = saved.journal /\ before' = saved.before
    /\ UNCHANGED <<running, saved>>

Init ==
    /\ heap = [o \in Offsets |-> 0] /\ free = 0
    /\ active = FALSE /\ journal = <<>> /\ before = heap
    /\ running = FALSE
    /\ saved = [heap |-> heap, free |-> free, active |-> FALSE, journal |-> <<>>,
                before |-> heap]

Common ==
    \/ begin \/ commit \/ abort
    \/ \E n \in 1 .. HeapSize : alloc(n)
    \/ save_state \/ restore_state

JournalNext ==
    \/ Common
    \/ \E o \in Offsets, v \in Values : recorded_write(o, v) \/ bypass_write(o, v)

JournalSpec == Init /\ [][JournalNext]_vars

VmNext ==
    \/ running /\ (begin \/ commit \/ abort \/ \E n \in 1 .. HeapSize : alloc(n))
    \/ \E o \in Offsets, v \in Values : store(o, v)
    \/ process_enter \/ process_return
    \/ save_state \/ restore_state

VmSpec == Init /\ [][VmNext]_vars

\* ---- Properties ----
JournalEntry == [offset : Offsets, old : Values]
Heap == [Offsets -> Values]
State == [heap : Heap, free : 0 .. HeapSize, active : BOOLEAN, journal : Seq(JournalEntry),
          before : Heap]
\* Heap, journal and snapshot keep their types, and the journal its capacity.
TypeOK ==
    /\ [heap |-> heap, free |-> free, active |-> active, journal |-> journal,
        before |-> before] \in State
    /\ saved \in State
    /\ Len(journal) <= Cap /\ Len(saved.journal) <= Cap
    /\ running \in BOOLEAN

\* abort gives every byte back the value it had when the transaction began,
\* however often it was written and whatever was allocated, saved or restored
\* in between; only PIN try counters keep what they were set to.
AbortRestores ==
    [][abort => \A o \in Offsets :
          heap'[o] = IF o \in Bypass THEN heap[o] ELSE before[o]]_vars
=============================================================================
