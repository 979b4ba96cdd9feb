------------------------------- MODULE CtxMgr -------------------------------
(***************************************************************************)
(* The table of contexts of src/ctx_mgr.c: how ids are given out, how the  *)
(* table grows, and how a context leaves it.                               *)
(*                                                                         *)
(* A context with id i sits in slot i % setsize.  allocId is a uint32_t    *)
(* that wraps; the id is returned as an int, so that the upper half of the *)
(* ids looks like an error.  The table's rwlock makes an operation on the  *)
(* table one step.  Reference counts are the subject of WorkerPool: here a *)
(* context that has been added may lose its last reference at any time,    *)
(* which frees it some time before it is taken out of the table.           *)
(***************************************************************************)
EXTENDS Integers, FiniteSets

CONSTANTS
    Contexts,       \* addresses of contexts; a freed one is used again
    None,           \* the NULL slot
    InitSize,       \* ctx_num, the first size of the table (32)
    Word,           \* ids are unsigned integers modulo Word (2^32)
    MaxSize         \* bound: the table is not grown beyond this size

ASSUME CtxMgrAssumption ==
    /\ IsFiniteSet(Contexts) /\ None \notin Contexts
    /\ InitSize \in Nat /\ InitSize >= 1
    /\ Word \in Nat /\ Word >= 2
    /\ MaxSize \in Nat

VARIABLES
    allocId, contextNum, contexts, setsize,     \* struct ctxMgr
    id,             \* ctx->id; 0 for a context that is not in the table, where
                    \* nothing reads it
    life,           \* where a context is in its life, see below
    stopped,        \* stop() has run: it uninstalls itself as signal handler first
    broken          \* a freed context was accessed

vars == <<allocId, contextNum, contexts, setsize, id, life, stopped, broken>>

\* none: no such context    added: in the table, being initialised
\* live: in use             freed: its last reference is gone, still in the table
\* lost: in the table, but its creator was told that there is no context
\* leaked: allocated, but not in the table
\* dangling: freed and out of the table, but still being initialised
Lives == {"none", "added", "live", "freed", "lost", "leaked", "dangling"}

InTable == {"added", "live", "freed", "lost"}

Registered == {c \in Contexts : life[c] \in InTable}

TypeOK ==
    /\ allocId \in 0 .. Word - 1
    /\ setsize \in Nat /\ setsize >= 1
    /\ contextNum \in Nat
    /\ contexts \in [0 .. setsize - 1 -> Contexts \cup {None}]
    /\ id \in [Contexts -> 0 .. Word - 1]
    /\ life \in [Contexts -> Lives]
    /\ stopped \in BOOLEAN /\ broken \in BOOLEAN

-----------------------------------------------------------------------------

\* ctxMgrCreate
Init ==
    /\ allocId = 0 /\ contextNum = 0 /\ setsize = InitSize
    /\ contexts = [s \in 0 .. InitSize - 1 |-> None]
    /\ id = [c \in Contexts |-> 0]
    /\ life = [c \in Contexts |-> "none"]
    /\ stopped = FALSE /\ broken = FALSE

\* An id that the code, which keeps it in an int, takes for an error.
Negative(i) == i >= Word \div 2

\* ctxMgrGetContext: the slot is not checked to hold that very id.
ctxMgrGetContext(i) == contexts[i % setsize]

\* The table that ctxMgrAddContext works on.  Growing copies the slots in order,
\* so that the last context copied to a slot is the one that stays.
Grows == contextNum >= setsize

Claims(i, s, n) == contexts[i] # None /\ id[contexts[i]] % n = s

\* Deviation: the slot is computed with the old size.
RehashOldSize(n) ==
    [s \in 0 .. n - 1 |-> IF s < setsize THEN contexts[s] ELSE None]

Rehash(n) ==
    [s \in 0 .. n - 1 |->
        IF \E i \in 0 .. setsize - 1 : Claims(i, s, n)
        THEN contexts[CHOOSE i \in 0 .. setsize - 1 :
                         Claims(i, s, n) /\ \A j \in 0 .. setsize - 1 : Claims(j, s, n) => j <= i]
        ELSE None]

NewSize == IF Grows THEN 2 * setsize ELSE setsize

NewTable == IF Grows THEN Rehash(NewSize) ELSE contexts

\* The id of the k-th attempt of the search, counted from 0.  Id 0 is replaced
\* by 1, which is then tried twice.
Attempt(k) == LET n == (allocId + k) % Word IN IF n = 0 THEN 1 ELSE n

Free(k) == NewTable[Attempt(k) % NewSize] = None

\* The copy reads the ids of all contexts, those already freed included.
GrowthTouchesFreed == Grows /\ \E c \in Contexts : life[c] = "freed"

MayAdd(c) ==
    /\ ~broken
    /\ life[c] = "none"
    /\ NewSize <= MaxSize
    /\ ~GrowthTouchesFreed

\* Deviation: the search stops one slot early.
AddFailsEarly(c) ==
    /\ MayAdd(c)
    /\ \A k \in 0 .. NewSize - 2 : ~Free(k)
    /\ allocId' = (allocId + NewSize - 1) % Word
    /\ setsize' = NewSize
    /\ contexts' = NewTable
    /\ life' = [life EXCEPT ![c] = "leaked"]
    /\ UNCHANGED <<contextNum, id, stopped, broken>>

\* ctxMgrAddContext puts the context in the first free slot that it meets.
ctxMgrAddContext(c) ==
    /\ MayAdd(c)
    /\ \E k \in 0 .. NewSize - 1 :
          /\ Free(k)
          /\ \A j \in 0 .. k - 1 : ~Free(j)
          /\ allocId' = (allocId + k + 1) % Word
          /\ contexts' = [NewTable EXCEPT ![Attempt(k) % NewSize] = c]
          /\ id' = [id EXCEPT ![c] = Attempt(k)]
          /\ life' = [life EXCEPT ![c] = IF Negative(Attempt(k)) THEN "lost" ELSE "added"]
    /\ setsize' = NewSize
    /\ contextNum' = contextNum + 1
    /\ UNCHANGED <<stopped, broken>>

\* The search ends without a slot: ctxMgrCreateContext forgets the context.
AddFails(c) ==
    /\ MayAdd(c)
    /\ \A k \in 0 .. NewSize - 1 : ~Free(k)
    /\ allocId' = (allocId + NewSize) % Word
    /\ setsize' = NewSize
    /\ contexts' = NewTable
    /\ life' = [life EXCEPT ![c] = "leaked"]
    /\ UNCHANGED <<contextNum, id, stopped, broken>>

ctxMgrRemoveContext(i) ==
    IF Negative(i) \/ ctxMgrGetContext(i) = None
    THEN UNCHANGED <<contexts, contextNum>>
    ELSE /\ contexts' = [contexts EXCEPT ![i % setsize] = None]
         /\ contextNum' = contextNum - 1

\* moduleInstanceInit succeeds or fails; a context whose initialisation failed
\* leaves the table but is not freed.
InitSucceeds(c) ==
    /\ ~broken
    /\ life[c] = "added"
    /\ life' = [life EXCEPT ![c] = "live"]
    /\ UNCHANGED <<allocId, contextNum, contexts, setsize, id, stopped, broken>>

InitFails(c) ==
    /\ ~broken
    /\ life[c] = "added"
    /\ life' = [life EXCEPT ![c] = "leaked"]
    /\ id' = [id EXCEPT ![c] = 0]
    /\ ctxMgrRemoveContext(id[c])
    /\ UNCHANGED <<allocId, setsize, stopped, broken>>

\* ctxMgrReleaseContext: contextRelease frees the context with its last
\* reference, and only then is the table's lock taken to remove it.
contextRelease(c) ==
    /\ ~broken
    /\ life[c] = "live"
    /\ life' = [life EXCEPT ![c] = "freed"]
    /\ UNCHANGED <<allocId, contextNum, contexts, setsize, id, stopped, broken>>

ctxMgrReleaseContext(c) ==
    /\ ~broken
    /\ life[c] = "freed"
    /\ life' = [life EXCEPT ![c] = "none"]
    /\ id' = [id EXCEPT ![c] = 0]
    /\ ctxMgrRemoveContext(id[c])
    /\ UNCHANGED <<allocId, setsize, stopped, broken>>

\* ctxMgrStop drops one reference of every context in the table.  It is the last
\* one of those whose id nobody was told yet (added, lost), and of any of the
\* others; the rest stay until their last holder calls ctxMgrReleaseContext.
ctxMgrStop ==
    /\ ~broken
    /\ ~stopped /\ stopped' = TRUE
    /\ \A c \in Contexts : life[c] # "freed"
    /\ \E S \in SUBSET {c \in Contexts : life[c] = "live"} :
          LET gone == S \cup {c \in Contexts : life[c] \in {"added", "lost"}} IN
          /\ contexts' = [s \in 0 .. setsize - 1 |->
                             IF contexts[s] \in gone THEN None ELSE contexts[s]]
          /\ contextNum' = contextNum - Cardinality(gone)
          /\ life' = [c \in Contexts |->
                         IF c \notin gone THEN life[c]
                         ELSE IF life[c] = "added" THEN "dangling" ELSE "none"]
          /\ id' = [c \in Contexts |-> IF c \in gone THEN 0 ELSE id[c]]
    /\ UNCHANGED <<allocId, setsize, broken>>

\* The accesses to freed contexts: by the growth of the table, by ctxMgrStop,
\* and by moduleInstanceInit of a context that ctxMgrStop has freed.
UseAfterFree ==
    /\ ~broken
    /\ \/ GrowthTouchesFreed /\ \E c \in Contexts : life[c] = "none"
       \/ ~stopped /\ \E c \in Contexts : life[c] = "freed"
       \/ \E c \in Contexts : life[c] = "dangling"
    /\ broken' = TRUE
    /\ UNCHANGED <<allocId, contextNum, contexts, setsize, id, life, stopped>>

Next ==
    \/ \E c \in Contexts :
          \/ ctxMgrAddContext(c)
          \/ AddFails(c)
          \/ InitSucceeds(c)
          \/ InitFails(c)
          \/ contextRelease(c)
          \/ ctxMgrReleaseContext(c)
    \/ ctxMgrStop
    \/ UseAfterFree

Spec == Init /\ [][Next]_vars

-----------------------------------------------------------------------------
(* Properties *)

\* Every context in the table is found under its id, whatever was added,
\* removed, wrapped around or copied to a larger table (ctx_mgr.c:44-65) since
\* it got it: no send reaches another context than the one registered under the
\* id, as long as that one is registered.
Addressable == \A c \in Registered : ctxMgrGetContext(id[c]) = c

\* The slots hold nothing but registered contexts.
NoStaleSlot ==
    \A s \in 0 .. setsize - 1 : contexts[s] # None =>
        contexts[s] \in Registered /\ id[contexts[s]] % setsize = s

\* contextNum, by which the workers decide to end (worker_pool.c:77), is the
\* number of contexts in the table.
CountExact == contextNum = Cardinality(Registered)

\* Only a context that its creator was told does not exist has an id that
\* ctxMgrRemoveContext would refuse to remove (ctx_mgr.c:89).
Removable == \A c \in Registered : Negative(id[c]) <=> life[c] = "lost"

\* The inductive invariant of the table.
TableInv == TypeOK /\ Addressable /\ NoStaleSlot /\ CountExact /\ Removable

\* The table grows before it is full, so an id is found (ctx_mgr.c:67-82) unless
\* the ids tried wrap around or start at 0: then id 1 is tried twice, slot 0 is
\* never tried, and adding a context can fail although a slot is free.
FailsOnlyAtWrap ==
    [][\A c \in Contexts :
          AddFails(c) => allocId = 0 \/ allocId + NewSize > Word]_vars
==============================================================================
