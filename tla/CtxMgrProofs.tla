---------------------------- MODULE CtxMgrProofs ----------------------------
(***************************************************************************)
(* Proofs about CtxMgr, for any first size of the table, any width of the  *)
(* ids and any finite set of contexts.                                     *)
(***************************************************************************)
EXTENDS CtxMgr, FiniteSetTheorems, TLAPS

\* A remainder is smaller than the divisor.
LEMMA ModRange ==
    ASSUME NEW n \in Nat, n >= 1, NEW a \in Nat
    PROVE  a % n \in 0 .. n - 1
OBVIOUS

\* Euclidean division, in the form the other lemmas use.
LEMMA Division ==
    ASSUME NEW n \in Nat, n >= 1, NEW a \in Nat
    PROVE  \E q \in Nat : a = q * n + (a % n)
<1>1. a = (a \div n) * n + (a % n) /\ a \div n \in Nat
  OBVIOUS
<1> QED BY <1>1

\* Remainders are unique.
LEMMA RemainderUnique ==
    ASSUME NEW n \in Nat, n >= 1, NEW x \in Nat, NEW y \in Nat,
           NEW u \in 0 .. n - 1, NEW v \in 0 .. n - 1, x * n + u = y * n + v
    PROVE  u = v
<1>1. CASE x = y
  BY <1>1
<1>2. CASE x >= y + 1
  <2>1. x * n >= (y + 1) * n /\ (y + 1) * n = y * n + n
    BY <1>2
  <2> QED BY <2>1
<1>3. CASE y >= x + 1
  <2>1. y * n >= (x + 1) * n /\ (x + 1) * n = x * n + n
    BY <1>3
  <2> QED BY <2>1
<1> QED BY <1>1, <1>2, <1>3

\* Doubling the size keeps different slots apart: ids with the same slot in the
\* larger table have the same slot in the smaller one.
LEMMA SlotOfDouble ==
    ASSUME NEW n \in Nat, n >= 1, NEW a \in Nat
    PROVE  (a % (2 * n)) % n = a % n
<1> DEFINE r == a % (2 * n)
<1>1. 2 * n \in Nat /\ 2 * n >= 1
  OBVIOUS
<1>2. r \in Nat
  BY <1>1, ModRange
<1>3. PICK q \in Nat : a = q * (2 * n) + r
  BY <1>1, Division
<1> HIDE DEF r
<1>4. PICK e \in Nat : r = e * n + (r % n)
  BY <1>2, Division
<1>5. PICK p \in Nat : a = p * n + (a % n)
  BY Division
<1>6. q * (2 * n) + e * n = (2 * q + e) * n /\ 2 * q + e \in Nat
  OBVIOUS
<1>7. r % n \in 0 .. n - 1 /\ a % n \in 0 .. n - 1
  BY <1>2, ModRange
<1>8. (2 * q + e) * n + (r % n) = p * n + (a % n)
  BY <1>3, <1>4, <1>5, <1>6, <1>7
<1>9. r % n = a % n
  BY <1>6, <1>7, <1>8, RemainderUnique
<1> QED BY <1>9 DEF r

-----------------------------------------------------------------------------

\* What TableInv says of a table t of size n.
TableOf(t, n) ==
    /\ n \in Nat /\ n >= 1
    /\ t \in [0 .. n - 1 -> Contexts \cup {None}]
    /\ \A c \in Registered : t[id[c] % n] = c
    /\ \A s \in 0 .. n - 1 : t[s] # None => t[s] \in Registered /\ id[t[s]] % n = s

\* The copy to a table of twice the size loses and moves nothing (rehash loop of
\* ctxMgrAddContext).
LEMMA GrowthKeepsTable ==
    ASSUME TableInv
    PROVE  TableOf(NewTable, NewSize)
<1>1. TableOf(contexts, setsize)
  BY DEF TableInv, TypeOK, Addressable, NoStaleSlot, ctxMgrGetContext, TableOf
<1>2. CASE ~Grows
  BY <1>1, <1>2 DEF NewTable, NewSize
<1>3. CASE Grows
  <2> DEFINE n == 2 * setsize
             C(i, s) == Claims(i, s, n)
  <2>1. setsize \in Nat /\ setsize >= 1 /\ n \in Nat /\ n >= 1
    BY <1>1 DEF TableOf
  <2>2. NewSize = n /\ NewTable = Rehash(n)
    BY <1>3 DEF NewSize, NewTable
  <2>3. id \in [Contexts -> Nat] /\ None \notin Contexts
    BY CtxMgrAssumption DEF TableInv, TypeOK
  <2> HIDE DEF n
  <2>4. \A i, j \in 0 .. setsize - 1, s \in 0 .. n - 1 : C(i, s) /\ C(j, s) => i = j
    <3> SUFFICES ASSUME NEW i \in 0 .. setsize - 1, NEW j \in 0 .. setsize - 1,
                        NEW s \in 0 .. n - 1, C(i, s), C(j, s)
                 PROVE  i = j
      OBVIOUS
    <3>1. contexts[i] \in Contexts /\ contexts[j] \in Contexts
      BY <1>1 DEF TableOf, Registered, Claims
    <3>2. id[contexts[i]] % setsize = i /\ id[contexts[j]] % setsize = j
      BY <1>1 DEF TableOf, Claims
    <3>3. /\ (id[contexts[i]] % n) % setsize = id[contexts[i]] % setsize
          /\ (id[contexts[j]] % n) % setsize = id[contexts[j]] % setsize
      BY <2>1, <2>3, <3>1, SlotOfDouble DEF n
    <3> QED BY <3>2, <3>3 DEF Claims
  <2>5. ASSUME NEW i \in 0 .. setsize - 1, NEW s \in 0 .. n - 1, C(i, s)
        PROVE  Rehash(n)[s] = contexts[i]
    <3>1. \A j \in 0 .. setsize - 1 : C(j, s) => j = i
      BY <2>4, <2>5
    <3>2. i = CHOOSE k \in 0 .. setsize - 1 :
                 Claims(k, s, n) /\ \A j \in 0 .. setsize - 1 : Claims(j, s, n) => j <= k
      BY <3>1, <2>5, <2>1
    <3> QED BY <3>2, <2>5 DEF Rehash
  <2>6. ASSUME NEW s \in 0 .. n - 1, ~\E i \in 0 .. setsize - 1 : C(i, s)
        PROVE  Rehash(n)[s] = None
    BY <2>6 DEF Rehash
  <2>7. ASSUME NEW c \in Registered PROVE Rehash(n)[id[c] % n] = c
    <3>1. c \in Contexts /\ contexts[id[c] % setsize] = c
      BY <1>1 DEF TableOf, Registered
    <3>2. id[c] % n \in 0 .. n - 1 /\ id[c] % setsize \in 0 .. setsize - 1
      BY <2>1, <2>3, <3>1, ModRange
    <3>3. C(id[c] % setsize, id[c] % n)
      BY <2>3, <3>1 DEF Claims
    <3> QED BY <2>5, <3>1, <3>2, <3>3
  <2>8. ASSUME NEW s \in 0 .. n - 1, Rehash(n)[s] # None
        PROVE  Rehash(n)[s] \in Registered /\ id[Rehash(n)[s]] % n = s
    <3>1. PICK i \in 0 .. setsize - 1 : C(i, s)
      BY <2>6, <2>8
    <3>2. Rehash(n)[s] = contexts[i]
      BY <2>5, <3>1
    <3> QED BY <1>1, <3>1, <3>2 DEF TableOf, Claims
  <2>9. Rehash(n) \in [0 .. n - 1 -> Contexts \cup {None}]
    <3>1. ASSUME NEW s \in 0 .. n - 1 PROVE Rehash(n)[s] \in Contexts \cup {None}
      BY <2>8 DEF Registered
    <3>2. Rehash(n) = [s \in 0 .. n - 1 |-> Rehash(n)[s]]
      BY DEF Rehash
    <3> QED BY <3>1, <3>2
  <2> QED BY <2>1, <2>2, <2>7, <2>8, <2>9 DEF TableOf
<1> QED BY <1>2, <1>3

LEMMA RegisteredFinite ==
    /\ IsFiniteSet(Registered)
    /\ Cardinality(Registered) \in Nat
BY CtxMgrAssumption, FS_Subset, FS_CardinalityType DEF Registered

\* The slot of a context is a slot of the table.
LEMMA SlotRange ==
    ASSUME TypeOK, NEW c \in Contexts
    PROVE  id[c] % setsize \in 0 .. setsize - 1
<1>1. id[c] \in Nat /\ setsize \in Nat /\ setsize >= 1
  BY CtxMgrAssumption DEF TypeOK
<1> QED BY <1>1, ModRange

\* The id of every attempt is an id.
LEMMA AttemptType ==
    ASSUME TypeOK, NEW k \in Nat
    PROVE  Attempt(k) \in 0 .. Word - 1
<1>1. (allocId + k) % Word \in 0 .. Word - 1
  BY CtxMgrAssumption, ModRange DEF TypeOK
<1> QED BY <1>1, CtxMgrAssumption DEF Attempt

-----------------------------------------------------------------------------

LEMMA InitTableInv == Init => TableInv
<1> SUFFICES ASSUME Init PROVE TableInv
  OBVIOUS
<1>1. TypeOK
  <2>1. /\ allocId \in 0 .. Word - 1 /\ contextNum \in Nat
        /\ setsize \in Nat /\ setsize >= 1
    BY CtxMgrAssumption DEF Init
  <2>2. /\ contexts \in [0 .. setsize - 1 -> Contexts \cup {None}]
        /\ id \in [Contexts -> 0 .. Word - 1]
        /\ life \in [Contexts -> Lives]
    BY CtxMgrAssumption DEF Init, Lives
  <2>3. stopped \in BOOLEAN /\ broken \in BOOLEAN
    BY DEF Init
  <2> QED BY <2>1, <2>2, <2>3 DEF TypeOK
<1>2. Registered = {}
  BY DEF Init, Registered, InTable
<1> QED
  BY <1>1, <1>2, FS_EmptySet
  DEF Init, TableInv, Addressable, NoStaleSlot, CountExact, Removable

LEMMA AddKeepsTable ==
    ASSUME TableInv, NEW c \in Contexts, ctxMgrAddContext(c)
    PROVE  TableInv'
<1>1. PICK k \in 0 .. NewSize - 1 :
         /\ Free(k)
         /\ allocId' = (allocId + k + 1) % Word
         /\ contexts' = [NewTable EXCEPT ![Attempt(k) % NewSize] = c]
         /\ id' = [id EXCEPT ![c] = Attempt(k)]
         /\ life' = [life EXCEPT ![c] = IF Negative(Attempt(k)) THEN "lost" ELSE "added"]
  BY DEF ctxMgrAddContext
<1>2. /\ life[c] = "none" /\ setsize' = NewSize
      /\ contextNum' = contextNum + 1 /\ UNCHANGED <<stopped, broken>>
  BY DEF ctxMgrAddContext, MayAdd
<1>3. TableOf(NewTable, NewSize)
  BY GrowthKeepsTable
<1> DEFINE a == Attempt(k)
           n == NewSize
           t == NewTable
<1>4. n \in Nat /\ n >= 1 /\ k \in Nat /\ t \in [0 .. n - 1 -> Contexts \cup {None}]
  BY <1>3 DEF TableOf
<1>5. TypeOK
  BY DEF TableInv
<1>6. a \in 0 .. Word - 1
  BY <1>4, <1>5, AttemptType
<1>7. a % n \in 0 .. n - 1 /\ t[a % n] = None
  <2>1. t[a % n] = None
    BY <1>1 DEF Free
  <2>2. a \in Nat
    BY <1>6, CtxMgrAssumption
  <2> HIDE DEF a, n
  <2>3. a % n \in 0 .. n - 1
    BY <1>4, <2>2, ModRange
  <2> QED BY <2>1, <2>3
<1>8. Registered' = Registered \cup {c} /\ c \notin Registered
  BY <1>1, <1>2, <1>5 DEF Registered, InTable, TypeOK
<1>9. contextNum' = Cardinality(Registered') /\ contextNum' \in Nat
  BY <1>2, <1>8, RegisteredFinite, FS_AddElement DEF TableInv, CountExact
<1>10. allocId' \in 0 .. Word - 1
  BY <1>1, <1>4, <1>5, CtxMgrAssumption, ModRange DEF TypeOK
<1> HIDE DEF a, n, t
<1>11. /\ contexts' = [t EXCEPT ![a % n] = c] /\ setsize' = n
       /\ id' = [id EXCEPT ![c] = a]
       /\ life' = [life EXCEPT ![c] = IF Negative(a) THEN "lost" ELSE "added"]
  BY <1>1, <1>2 DEF a, n, t
<1>12. TypeOK'
  BY <1>2, <1>4, <1>5, <1>6, <1>7, <1>9, <1>10, <1>11 DEF TypeOK, Lives
<1>13. \A d \in Registered : t[id[d] % n] = d /\ id'[d] = id[d] /\ life'[d] = life[d]
  BY <1>3, <1>5, <1>8, <1>11 DEF TableOf, t, n, Registered, TypeOK
<1>14. \A d \in Registered' : contexts'[id'[d] % setsize'] = d
  <2>1. id'[c] = a
    BY <1>5, <1>11 DEF TypeOK
  <2>2. contexts'[a % n] = c
    BY <1>4, <1>7, <1>11
  <2>3. ASSUME NEW d \in Registered PROVE contexts'[id'[d] % n] = d
    <3>1. d \in Contexts /\ id[d] \in Nat
      BY <1>5 DEF Registered, TypeOK
    <3>2. id[d] % n \in 0 .. n - 1
      BY <1>4, <3>1, ModRange
    <3>3. id[d] % n # a % n
      BY <1>7, <1>13, <3>1, CtxMgrAssumption
    <3> QED BY <1>4, <1>11, <1>13, <3>2, <3>3
  <2> QED BY <1>8, <1>11, <2>1, <2>2, <2>3
<1>15. \A s \in 0 .. n - 1 : contexts'[s] # None =>
          contexts'[s] \in Registered' /\ id'[contexts'[s]] % n = s
  <2> SUFFICES ASSUME NEW s \in 0 .. n - 1, contexts'[s] # None
               PROVE  contexts'[s] \in Registered' /\ id'[contexts'[s]] % n = s
    OBVIOUS
  <2>1. CASE s = a % n
    BY <1>4, <1>5, <1>8, <1>11, <2>1 DEF TypeOK
  <2>2. CASE s # a % n
    <3>1. contexts'[s] = t[s]
      BY <1>4, <1>11, <2>2
    <3>2. t[s] \in Registered /\ id[t[s]] % n = s
      BY <1>3, <3>1 DEF TableOf, t, n
    <3> QED BY <1>8, <1>13, <3>1, <3>2
  <2> QED BY <2>1, <2>2
<1>16. Removable'
  <2> SUFFICES ASSUME NEW d \in Registered'
               PROVE  Negative(id'[d]) <=> life'[d] = "lost"
    BY DEF Removable, Negative
  <2>1. CASE d = c
    BY <1>5, <1>11, <2>1 DEF TypeOK, Negative
  <2>2. CASE d # c
    BY <1>8, <1>13, <2>2 DEF TableInv, Removable, Negative
  <2> QED BY <2>1, <2>2
<1> QED
  BY <1>9, <1>11, <1>12, <1>14, <1>15, <1>16
  DEF TableInv, Addressable, NoStaleSlot, CountExact, ctxMgrGetContext

LEMMA FailedAddKeepsTable ==
    ASSUME TableInv, NEW c \in Contexts, AddFails(c)
    PROVE  TableInv'
<1>1. /\ life[c] = "none" /\ life' = [life EXCEPT ![c] = "leaked"]
      /\ setsize' = NewSize /\ contexts' = NewTable
      /\ allocId' = (allocId + NewSize) % Word
      /\ UNCHANGED <<contextNum, id, stopped, broken>>
  BY DEF AddFails, MayAdd
<1>2. TableOf(NewTable, NewSize)
  BY GrowthKeepsTable
<1>3. Registered' = Registered
  BY <1>1 DEF Registered, InTable, TableInv, TypeOK
<1>4. allocId' \in 0 .. Word - 1
  BY <1>1, <1>2, CtxMgrAssumption, ModRange DEF TableInv, TypeOK, TableOf
<1>5. TypeOK'
  BY <1>1, <1>2, <1>4 DEF TableInv, TypeOK, TableOf, Lives
<1>6. \A d \in Registered : life'[d] = life[d]
  BY <1>1 DEF Registered, InTable, TableInv, TypeOK
<1> QED
  BY <1>1, <1>2, <1>3, <1>5, <1>6
  DEF TableInv, TableOf, Addressable, NoStaleSlot, CountExact, Removable, Negative,
      ctxMgrGetContext

\* ctxMgrRemoveContext, called with the id of a context that is not lost, takes
\* exactly that context out of the table.
LEMMA RemoveKeepsTable ==
    ASSUME TableInv, NEW c \in Registered, life[c] # "lost", NEW l \in Lives \ InTable,
           life' = [life EXCEPT ![c] = l], id' = [id EXCEPT ![c] = 0],
           ctxMgrRemoveContext(id[c]), UNCHANGED <<allocId, setsize, stopped, broken>>
    PROVE  TableInv'
<1> DEFINE s == id[c] % setsize
<1>1. c \in Contexts /\ TypeOK /\ ~Negative(id[c]) /\ contexts[s] = c /\ c # None
  BY CtxMgrAssumption
  DEF Registered, TableInv, Removable, Addressable, ctxMgrGetContext
<1>2. s \in 0 .. setsize - 1
  BY <1>1, SlotRange
<1> HIDE DEF s
<1>3. contexts' = [contexts EXCEPT ![s] = None] /\ contextNum' = contextNum - 1
  BY <1>1 DEF ctxMgrRemoveContext, ctxMgrGetContext, s
<1>4. Registered' = Registered \ {c}
  BY <1>1 DEF Registered, TypeOK
<1>5. contextNum' = Cardinality(Registered') /\ contextNum' \in Nat
  <2>1. IsFiniteSet(Registered')
    BY <1>4, RegisteredFinite, FS_RemoveElement
  <2>2. Cardinality(Registered') \in Nat
    BY <2>1, FS_CardinalityType
  <2>3. contextNum' = Cardinality(Registered')
    BY <1>3, <1>4, RegisteredFinite, FS_RemoveElement DEF TableInv, CountExact
  <2> QED BY <2>2, <2>3
<1>6. TypeOK'
  BY <1>1, <1>2, <1>3, <1>5, CtxMgrAssumption DEF TypeOK
<1>7. \A d \in Registered' : d \in Registered /\ d # c /\ id'[d] = id[d] /\ life'[d] = life[d]
  BY <1>1, <1>4 DEF Registered, TypeOK
<1>8. \A i \in 0 .. setsize - 1 : contexts'[i] = IF i = s THEN None ELSE contexts[i]
  BY <1>1, <1>2, <1>3 DEF TypeOK
<1>9. \A d \in Registered : contexts[id[d] % setsize] = d /\ id[d] % setsize \in 0 .. setsize - 1
  BY <1>1, SlotRange DEF TableInv, Addressable, ctxMgrGetContext, Registered
<1>10. Addressable'
  BY <1>1, <1>7, <1>8, <1>9 DEF Addressable, ctxMgrGetContext
<1>11. NoStaleSlot'
  <2> SUFFICES ASSUME NEW i \in 0 .. setsize - 1, contexts'[i] # None
               PROVE  contexts'[i] \in Registered' /\ id'[contexts'[i]] % setsize = i
    BY DEF NoStaleSlot
  <2>1. i # s /\ contexts'[i] = contexts[i]
    BY <1>8
  <2>2. contexts[i] \in Registered /\ id[contexts[i]] % setsize = i
    BY <2>1 DEF TableInv, NoStaleSlot
  <2>3. contexts[i] # c
    BY <2>1, <2>2 DEF s
  <2> QED BY <1>4, <1>7, <2>1, <2>2, <2>3
<1>12. Removable'
  BY <1>7 DEF Removable, TableInv, Negative
<1> QED BY <1>5, <1>6, <1>10, <1>11, <1>12 DEF TableInv, CountExact

\* ctxMgrStop takes the contexts it frees out of the table and no other.
LEMMA StopKeepsTable ==
    ASSUME TableInv, ctxMgrStop
    PROVE  TableInv'
<1>1. PICK S \in SUBSET {c \in Contexts : life[c] = "live"} :
         LET gone == S \cup {c \in Contexts : life[c] \in {"added", "lost"}} IN
         /\ contexts' = [s \in 0 .. setsize - 1 |->
                            IF contexts[s] \in gone THEN None ELSE contexts[s]]
         /\ contextNum' = contextNum - Cardinality(gone)
         /\ life' = [c \in Contexts |->
                        IF c \notin gone THEN life[c]
                        ELSE IF life[c] = "added" THEN "dangling" ELSE "none"]
         /\ id' = [c \in Contexts |-> IF c \in gone THEN 0 ELSE id[c]]
  BY DEF ctxMgrStop
<1>2. UNCHANGED <<allocId, setsize, broken>> /\ stopped' = TRUE
  BY DEF ctxMgrStop
<1> DEFINE gone == S \cup {c \in Contexts : life[c] \in {"added", "lost"}}
<1>3. gone \subseteq Registered /\ gone \subseteq Contexts
  BY DEF Registered, InTable
<1>4. Registered' = Registered \ gone
  BY <1>1, <1>3 DEF Registered, InTable, TableInv, TypeOK
<1>5. contextNum' = Cardinality(Registered') /\ contextNum' \in Nat
  <2>0. contextNum' = contextNum - Cardinality(gone)
    BY <1>1
  <2> HIDE DEF gone
  <2>1. Registered \cap gone = gone
    BY <1>3
  <2>2. /\ IsFiniteSet(Registered')
        /\ Cardinality(Registered') = Cardinality(Registered) - Cardinality(gone)
    <3>1. IsFiniteSet(Registered)
      BY RegisteredFinite
    <3>2. /\ IsFiniteSet(Registered \ gone)
          /\ Cardinality(Registered \ gone)
                = Cardinality(Registered) - Cardinality(Registered \cap gone)
      BY ONLY <3>1, FS_Difference
    <3> QED BY <1>4, <2>1, <3>2
  <2>3. Cardinality(Registered') \in Nat
    BY <2>2, FS_CardinalityType
  <2> QED BY <2>0, <2>2, <2>3 DEF TableInv, CountExact
<1>6. /\ contexts' = [s \in 0 .. setsize - 1 |->
                         IF contexts[s] \in gone THEN None ELSE contexts[s]]
      /\ life' = [c \in Contexts |->
                     IF c \notin gone THEN life[c]
                     ELSE IF life[c] = "added" THEN "dangling" ELSE "none"]
      /\ id' = [c \in Contexts |-> IF c \in gone THEN 0 ELSE id[c]]
  BY <1>1
<1> HIDE DEF gone
<1>7. TypeOK'
  BY <1>2, <1>5, <1>6, CtxMgrAssumption DEF TableInv, TypeOK, Lives
<1>8. \A d \in Registered' :
         d \in Registered /\ d \notin gone /\ id'[d] = id[d] /\ life'[d] = life[d]
  BY <1>4, <1>6 DEF Registered
<1>9. \A d \in Registered : contexts[id[d] % setsize] = d /\ id[d] % setsize \in 0 .. setsize - 1
  BY SlotRange DEF TableInv, Addressable, ctxMgrGetContext, Registered
<1>10. Addressable'
  BY <1>2, <1>6, <1>8, <1>9 DEF Addressable, ctxMgrGetContext
<1>11. NoStaleSlot'
  <2> SUFFICES ASSUME NEW i \in 0 .. setsize - 1, contexts'[i] # None
               PROVE  contexts'[i] \in Registered' /\ id'[contexts'[i]] % setsize = i
    BY <1>2 DEF NoStaleSlot
  <2>1. contexts'[i] = contexts[i] /\ contexts[i] \notin gone
    BY <1>6
  <2>2. contexts[i] \in Registered /\ id[contexts[i]] % setsize = i
    BY <2>1 DEF TableInv, NoStaleSlot
  <2> QED BY <1>4, <1>8, <2>1, <2>2
<1>12. Removable'
  BY <1>8 DEF Removable, TableInv, Negative
<1> QED BY <1>5, <1>7, <1>10, <1>11, <1>12 DEF TableInv, CountExact

\* A step that leaves the table and the ids alone and takes no context into or
\* out of it keeps TableInv.
LEMMA LifeKeepsTable ==
    ASSUME TableInv, NEW c \in Contexts, life[c] \in {"added", "live"},
           NEW l \in {"live", "freed"}, life' = [life EXCEPT ![c] = l],
           UNCHANGED <<allocId, contextNum, contexts, setsize, id, stopped, broken>>
    PROVE  TableInv'
<1>1. TypeOK'
  BY DEF TableInv, TypeOK, Lives
<1>2. Registered' = Registered
  BY DEF TableInv, TypeOK, Registered, InTable
<1>3. \A d \in Registered : life'[d] = "lost" <=> life[d] = "lost"
  BY DEF TableInv, TypeOK, Registered
<1> QED
  BY <1>1, <1>2, <1>3
  DEF TableInv, Addressable, NoStaleSlot, CountExact, Removable, Negative, ctxMgrGetContext

-----------------------------------------------------------------------------

\* Every context in the table is found under its id and counted, through any
\* sequence of additions, growth, wraps of the ids, removals and ctxMgrStop.
THEOREM TableInvariant == Spec => []TableInv
<1>1. TableInv /\ [Next]_vars => TableInv'
  <2> SUFFICES ASSUME TableInv, [Next]_vars PROVE TableInv'
    OBVIOUS
  <2>1. ASSUME NEW c \in Contexts, ctxMgrAddContext(c) PROVE TableInv'
    BY <2>1, AddKeepsTable
  <2>2. ASSUME NEW c \in Contexts, AddFails(c) PROVE TableInv'
    BY <2>2, FailedAddKeepsTable
  <2>3. ASSUME NEW c \in Contexts, InitSucceeds(c) PROVE TableInv'
    BY <2>3, LifeKeepsTable DEF InitSucceeds
  <2>4. ASSUME NEW c \in Contexts, InitFails(c) PROVE TableInv'
    <3>1. c \in Registered /\ life[c] # "lost" /\ "leaked" \in Lives \ InTable
      BY <2>4 DEF InitFails, Registered, InTable, Lives
    <3> QED BY <2>4, <3>1, RemoveKeepsTable DEF InitFails
  <2>5. ASSUME NEW c \in Contexts, contextRelease(c) PROVE TableInv'
    BY <2>5, LifeKeepsTable DEF contextRelease
  <2>6. ASSUME NEW c \in Contexts, ctxMgrReleaseContext(c) PROVE TableInv'
    <3>1. c \in Registered /\ life[c] # "lost" /\ "none" \in Lives \ InTable
      BY <2>6 DEF ctxMgrReleaseContext, Registered, InTable, Lives
    <3> QED BY <2>6, <3>1, RemoveKeepsTable DEF ctxMgrReleaseContext
  <2>7. CASE ctxMgrStop
    BY <2>7, StopKeepsTable
  <2>8. CASE UseAfterFree \/ UNCHANGED vars
    <3>1. UNCHANGED <<allocId, contextNum, contexts, setsize, id, life>>
      BY <2>8 DEF UseAfterFree, vars
    <3>2. broken' \in BOOLEAN /\ stopped' \in BOOLEAN
      BY <2>8 DEF UseAfterFree, vars, TableInv, TypeOK
    <3>3. TypeOK'
      BY <3>1, <3>2 DEF TableInv, TypeOK
    <3>4. Registered' = Registered
      BY <3>1 DEF Registered
    <3> QED
      BY <3>1, <3>3, <3>4
      DEF TableInv, Addressable, NoStaleSlot, CountExact, Removable, Negative, ctxMgrGetContext
  <2> QED BY <2>1, <2>2, <2>3, <2>4, <2>5, <2>6, <2>7, <2>8 DEF Next
<1> QED BY <1>1, InitTableInv, PTL DEF Spec

-----------------------------------------------------------------------------
(* A search that fails *)

\* The remainder of a number that is written as a multiple and a rest.
LEMMA SlotOf ==
    ASSUME NEW n \in Nat, n >= 1, NEW q \in Nat, NEW s \in 0 .. n - 1
    PROVE  (q * n + s) % n = s
<1> DEFINE a == q * n + s
<1>1. a \in Nat
  OBVIOUS
<1> HIDE DEF a
<1>2. PICK p \in Nat : a = p * n + (a % n)
  BY <1>1, Division
<1>3. a % n \in 0 .. n - 1
  BY <1>1, ModRange
<1>4. p * n + (a % n) = q * n + s
  BY <1>2 DEF a
<1>5. a % n = s
  BY <1>3, <1>4, RemainderUnique
<1> QED BY <1>5 DEF a

\* n numbers in a row meet every slot of a table of size n.
LEMMA RowMeetsSlots ==
    ASSUME NEW n \in Nat, n >= 1, NEW a \in Nat, NEW s \in 0 .. n - 1
    PROVE  \E k \in 0 .. n - 1 : (a + k) % n = s
<1>1. PICK q \in Nat : a = q * n + (a % n)
  BY Division
<1>2. PICK r \in 0 .. n - 1 : r = a % n
  BY ModRange
<1>3. CASE s >= r
  <2>1. PICK m \in Nat : m = q * n
    OBVIOUS
  <2>2. a = m + r
    BY <1>1, <1>2, <2>1
  <2>3. s - r \in 0 .. n - 1 /\ m + r + (s - r) = m + s
    BY <1>3
  <2>4. (q * n + s) % n = s
    BY SlotOf
  <2> QED BY <2>1, <2>2, <2>3, <2>4
<1>4. CASE s < r
  <2>1. s + n - r \in 0 .. n - 1 /\ a + (s + n - r) = q * n + n + s
    BY <1>1, <1>2, <1>4
  <2>2. (q + 1) * n = q * n + n /\ q + 1 \in Nat
    OBVIOUS
  <2>3. ((q + 1) * n + s) % n = s
    BY <2>2, SlotOf
  <2> QED BY <2>1, <2>2, <2>3
<1> QED BY <1>2, <1>3, <1>4

\* Without a wrap the search tries the ids from allocId on, one after the other.
LEMMA AttemptInRow ==
    ASSUME TypeOK, allocId # 0, NEW n \in Nat, allocId + n <= Word, NEW k \in 0 .. n - 1
    PROVE  Attempt(k) = allocId + k
<1>1. allocId + k \in 1 .. Word - 1
  BY CtxMgrAssumption DEF TypeOK
<1>2. (allocId + k) % Word = allocId + k
  BY <1>1, CtxMgrAssumption
<1> QED BY <1>1, <1>2 DEF Attempt

\* There are no more contexts in the table than slots.
LEMMA NumWithinSize ==
    ASSUME TableInv
    PROVE  contextNum <= setsize
<1>1. /\ setsize \in Nat /\ setsize >= 1 /\ contextNum \in Nat
      /\ contextNum = Cardinality(Registered)
  BY DEF TableInv, TypeOK, CountExact
<1> SUFFICES ASSUME setsize < Cardinality(Registered) PROVE FALSE
  BY <1>1
<1> DEFINE T == 0 .. setsize - 1
           slot == [c \in Registered |-> id[c] % setsize]
<1>2. slot \in [Registered -> T]
  BY SlotRange DEF TableInv, Registered
<1>3. IsFiniteSet(T) /\ Cardinality(T) = setsize
  <2>1. setsize - 1 \in Int /\ ~(0 > setsize - 1) /\ setsize - 1 - 0 + 1 = setsize
    BY <1>1
  <2> QED BY <2>1, FS_Interval
<1>4. IsFiniteSet(Registered)
  BY RegisteredFinite
<1> HIDE DEF T
<1>5. PICK c, d \in Registered : c # d /\ slot[c] = slot[d]
  <2> HIDE DEF slot
  <2> QED BY <1>2, <1>3, <1>4, FS_PigeonHole
<1> QED BY <1>5 DEF TableInv, Addressable, ctxMgrGetContext

\* When a search from a positive id that does not wrap finds no slot, the slots
\* hold as many different contexts as there are slots.
LEMMA FailedSearchMeetsFullTable ==
    ASSUME TableInv, allocId # 0, allocId + NewSize <= Word,
           \A k \in 0 .. NewSize - 1 : ~Free(k)
    PROVE  NewSize <= contextNum
<1> DEFINE n == NewSize
           t == NewTable
           S == 0 .. n - 1
<1>1. /\ n \in Nat /\ n >= 1 /\ t \in [S -> Contexts \cup {None}]
      /\ \A s \in S : t[s] # None => t[s] \in Registered /\ id[t[s]] % n = s
  BY GrowthKeepsTable DEF TableOf
<1>2. TypeOK /\ allocId \in Nat
  BY CtxMgrAssumption DEF TableInv, TypeOK
<1>3. ASSUME NEW s \in S PROVE t[s] # None
  <2>1. PICK k \in S : (allocId + k) % n = s
    BY <1>1, <1>2, RowMeetsSlots
  <2>2. Attempt(k) = allocId + k
    BY <1>1, <1>2, AttemptInRow
  <2>3. t[Attempt(k) % n] # None
    BY DEF Free
  <2> QED BY <2>1, <2>2, <2>3
<1>4. IsFiniteSet(S) /\ Cardinality(S) = n
  BY <1>1, FS_Interval
<1> HIDE DEF n, t, S
<1>5. t \in [S -> Registered]
  BY <1>1, <1>3
<1>6. \A x, y \in S : t[x] = t[y] => x = y
  BY <1>1, <1>3
<1>7. ~(Cardinality(Registered) < Cardinality(S))
  BY <1>4, <1>5, <1>6, RegisteredFinite, FS_PigeonHole
<1>8. contextNum = Cardinality(Registered)
  BY DEF TableInv, CountExact
<1> QED BY <1>1, <1>4, <1>7, <1>8, RegisteredFinite DEF n

\* ctxMgrAddContext finds an id for a new context whenever the ids that it tries
\* neither start at 0 nor wrap around: the table was grown before it was full.
THEOREM AddFailsOnlyAtWrap == Spec => FailsOnlyAtWrap
<1>1. ASSUME TableInv, NEW c \in Contexts, AddFails(c)
      PROVE  allocId = 0 \/ allocId + NewSize > Word
  <2>1. setsize \in Nat /\ setsize >= 1 /\ contextNum \in Nat /\ contextNum <= setsize
    BY <1>1, NumWithinSize DEF TableInv, TypeOK
  <2>2. contextNum < NewSize /\ NewSize \in Nat
    BY <2>1 DEF NewSize, Grows
  <2>3. allocId \in Nat /\ Word \in Nat
    BY <1>1, CtxMgrAssumption DEF TableInv, TypeOK
  <2>4. \A k \in 0 .. NewSize - 1 : ~Free(k)
    BY <1>1 DEF AddFails
  <2>5. allocId # 0 /\ allocId + NewSize <= Word => NewSize <= contextNum
    BY <1>1, <2>4, FailedSearchMeetsFullTable
  <2> QED BY <2>1, <2>2, <2>3, <2>5
<1>2. TableInv => [\A c \in Contexts :
                      AddFails(c) => allocId = 0 \/ allocId + NewSize > Word]_vars
  BY <1>1
<1> QED BY <1>2, TableInvariant, PTL DEF FailsOnlyAtWrap
==============================================================================
