--------------------------- MODULE WordArithmetic ---------------------------
(***************************************************************************)
(* Facts about counters that are machine words, for the proofs of the      *)
(* modules whose code counts with AtomicAdd and AtomicSub                  *)
(* (src/atomic_ops.h).                                                     *)
(***************************************************************************)
EXTENDS Integers, TLAPS

\* A remainder is determined by any way to divide.
LEMMA RemainderUnique ==
    ASSUME NEW W \in Nat, W >= 2, NEW q \in Int, NEW r \in 0 .. W - 1
    PROVE  (q * W + r) % W = r
<1> DEFINE a == q * W + r
           p == a \div W
           s == a % W
<1>1. a \in Int
  OBVIOUS
<1>2. p \in Int /\ s \in 0 .. W - 1 /\ a = p * W + s
  BY <1>1
<1>3. CASE p = q
  BY <1>1, <1>2, <1>3
<1>4. CASE p >= q + 1
  <2>1. p * W >= (q + 1) * W
    BY <1>1, <1>2, <1>4
  <2> QED BY <1>1, <1>2, <2>1
<1>5. CASE p + 1 <= q
  <2>1. (p + 1) * W <= q * W
    BY <1>1, <1>2, <1>5
  <2> QED BY <1>1, <1>2, <2>1
<1> QED BY <1>2, <1>3, <1>4, <1>5

\* AtomicAdd and AtomicSub commute with the reduction to a machine word.
LEMMA WordStep ==
    ASSUME NEW W \in Nat, W >= 2, NEW a \in Int
    PROVE  /\ ((a % W) + 1) % W = (a + 1) % W
           /\ ((a % W) - 1) % W = (a - 1) % W
<1>1. PICK q \in Int, r \in 0 .. W - 1 : a = q * W + r /\ a % W = r
  OBVIOUS
<1>2. (r + 1) % W = (a + 1) % W
  <2>1. CASE r + 1 < W
    <3>1. a + 1 = q * W + (r + 1) /\ r + 1 = 0 * W + (r + 1)
      BY <1>1
    <3>2. 0 \in Int /\ r + 1 \in 0 .. W - 1
      BY <2>1
    <3>3. (q * W + (r + 1)) % W = r + 1 /\ (0 * W + (r + 1)) % W = r + 1
      BY <3>2, RemainderUnique
    <3> QED BY <3>1, <3>3
  <2>2. CASE r + 1 = W
    <3>1. a + 1 = (q + 1) * W + 0 /\ r + 1 = 1 * W + 0
      BY <1>1, <2>2
    <3>2. ((q + 1) * W + 0) % W = 0 /\ (1 * W + 0) % W = 0
      BY RemainderUnique
    <3> QED BY <3>1, <3>2
  <2> QED BY <2>1, <2>2
<1>3. (r - 1) % W = (a - 1) % W
  <2>1. CASE r >= 1
    <3>1. a - 1 = q * W + (r - 1) /\ r - 1 = 0 * W + (r - 1)
      BY <1>1
    <3>2. 0 \in Int /\ r - 1 \in 0 .. W - 1
      BY <2>1
    <3>3. (q * W + (r - 1)) % W = r - 1 /\ (0 * W + (r - 1)) % W = r - 1
      BY <3>2, RemainderUnique
    <3> QED BY <3>1, <3>3
  <2>2. CASE r = 0
    <3>1. a - 1 = (q - 1) * W + (W - 1) /\ r - 1 = (0 - 1) * W + (W - 1)
      BY <1>1, <2>2
    <3> QED BY <3>1, RemainderUnique
  <2> QED BY <2>1, <2>2
<1> QED BY <1>1, <1>2, <1>3
==============================================================================
