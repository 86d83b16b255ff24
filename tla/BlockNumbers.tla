---------------------------- MODULE BlockNumbers ----------------------------
(***************************************************************************)
(* Block numbers that are cut to the width of a field of a datagram: what  *)
(* two of them that look the same say of the numbers themselves.           *)
(***************************************************************************)
EXTENDS Integers, TLAPS

(* A quotient that is not larger leaves a whole turn or nothing. *)
LEMMA Turns ==
    ASSUME NEW M \in Nat, M > 0, NEW p \in Nat, NEW q \in Nat
    PROVE  /\ p =< q => M * p =< M * q
           /\ p > q => M * p >= M * q + M
<1>1. M * (q + 1) = M * q + M
  OBVIOUS
<1>2. p > q => M * p >= M * (q + 1)
  OBVIOUS
<1>3. QED
  BY <1>1, <1>2

LEMMA Division ==
    ASSUME NEW M \in Nat, M > 0, NEW a \in Nat
    PROVE  /\ a = M * (a \div M) + (a % M)
           /\ (a \div M) \in Nat
           /\ (a % M) \in 0..M - 1
  OBVIOUS

(* Block numbers that look the same, and are less than a turn apart, are   *)
(* in order.                                                               *)
LEMMA SameNumber ==
    ASSUME NEW M \in Nat, M > 0, NEW a \in Nat, NEW b \in Nat,
           a % M = b % M, a < b + M
    PROVE  a =< b
<1>1. PICK p \in Nat : p = (a \div M)
  BY Division
<1>2. PICK q \in Nat : q = (b \div M)
  BY Division
<1>3. PICK r \in Nat : r = (a % M)
  BY Division
<1>4. a = M * p + r /\ b = M * q + r
  BY <1>1, <1>2, <1>3, Division
<1>5. PICK x \in Nat, y \in Nat : x = M * p /\ y = M * q
  OBVIOUS
<1>6. (p =< q => x =< y) /\ (p > q => x >= y + M)
  BY <1>5, Turns
<1>7. a = x + r /\ b = y + r
  BY <1>4, <1>5
<1>8. QED
  BY <1>6, <1>7

(* The remainder is the only one. *)
LEMMA Remainder ==
    ASSUME NEW M \in Nat, M > 0, NEW q \in Nat, NEW r \in 0..M - 1
    PROVE  (M * q + r) % M = r
<1>1. PICK y \in Nat : y = M * q
  OBVIOUS
<1>2. y + r \in Nat
  OBVIOUS
<1>3. PICK p \in Nat : p = ((y + r) \div M)
  BY <1>2, Division
<1>4. PICK t \in 0..M - 1 : t = ((y + r) % M)
  BY <1>2, Division
<1>5. PICK x \in Nat : x = M * p
  OBVIOUS
<1>6. y + r = x + t
  BY <1>2, <1>3, <1>4, <1>5, Division
<1>7. (p =< q => x =< y) /\ (p > q => x >= y + M)
  BY <1>1, <1>5, Turns
<1>8. (q =< p => y =< x) /\ (q > p => y >= x + M)
  BY <1>1, <1>5, Turns
<1>9. r = t
  BY <1>6, <1>7, <1>8
<1>10. QED
  BY <1>1, <1>4, <1>9

(* The number after a number that has been cut to its width. *)
LEMMA NextNumber ==
    ASSUME NEW M \in Nat, M > 1, NEW a \in Nat
    PROVE  ((a % M) + 1) % M = (a + 1) % M
<1>1. PICK q \in Nat : q = (a \div M)
  BY Division
<1>2. PICK r \in 0..M - 1 : r = (a % M)
  BY Division
<1>3. a = M * q + r
  BY <1>1, <1>2, Division
<1>4. CASE r + 1 < M
  <2>1. (M * q + (r + 1)) % M = r + 1
    BY <1>4, Remainder
  <2>2. (M * 0 + (r + 1)) % M = r + 1
    BY <1>4, Remainder
  <2>3. a + 1 = M * q + (r + 1) /\ M * 0 + (r + 1) = r + 1
    BY <1>3
  <2>4. QED
    BY <1>2, <2>1, <2>2, <2>3
<1>5. CASE r + 1 = M
  <2>1. (M * (q + 1) + 0) % M = 0
    BY Remainder
  <2>2. (M * 1 + 0) % M = 0
    BY Remainder
  <2>3. a + 1 = M * (q + 1) + 0 /\ M * 1 + 0 = r + 1
    BY <1>3, <1>5
  <2>4. QED
    BY <1>2, <2>1, <2>2, <2>3
<1>6. QED
  BY <1>4, <1>5
=============================================================================
