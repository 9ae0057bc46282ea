--------------------------- MODULE ChallengeProofs ---------------------------
(***************************************************************************)
(* What _latest_active returns: a row of the table, or none.  Shared by    *)
(* the proofs about the handlers that check a code.                        *)
(***************************************************************************)
EXTENDS OtpChallenges, SequenceTheorems, WellFoundedInduction, TLAPS

(***************************************************************************)
(* A nonempty set of sequence positions has a greatest element, which is   *)
(* what SelectLastInSeq picks for _active_for and _latest_active.          *)
(***************************************************************************)
LEMMA MaxIsMember ==
  ASSUME NEW n \in Nat, NEW I \in SUBSET (1..n), I # {}
  PROVE  Max(I) \in I /\ \A i \in I : Max(I) >= i
<1> DEFINE T == {n - i : i \in I}
<1>1. T \subseteq Nat /\ T # {}
  <2>1. \A i \in I : n - i \in Nat
    OBVIOUS
  <2>2. PICK i \in I : TRUE
    OBVIOUS
  <2>3. n - i \in T
    BY <2>2
  <2> QED
    BY <2>1, <2>3
<1>2. PICK x \in T : \A y \in T : ~ (<<y, x>> \in OpToRel(<, Nat))
  BY <1>1, NatLessThanWellFounded, WFMin, Zenon
<1>3. \A y \in T : ~ (y < x)
  BY <1>1, <1>2 DEF OpToRel
<1>4. PICK m \in I : x = n - m
  OBVIOUS
<1>5. \A i \in I : m >= i
  <2> SUFFICES ASSUME NEW i \in I PROVE m >= i
    OBVIOUS
  <2>1. n - i \in T
    OBVIOUS
  <2>2. ~ (n - i < n - m)
    BY <1>3, <1>4, <2>1
  <2> QED
    BY <2>2
<1> QED
  BY <1>5 DEF Max

\* The row check_code is given is one of the table.
LEMMA LatestActiveInRange ==
  ASSUME NEW S, NEW tbl \in Seq(S), NEW phone, NEW purpose, NEW now, NEW hour
  PROVE  LatestActive(tbl, phone, purpose, now, hour) \in 0..Len(tbl)
<1> DEFINE I == {i \in 1..Len(tbl) : /\ tbl[i].phone = phone
                                     /\ tbl[i].purpose = purpose
                                     /\ tbl[i].created > now - hour}
<1>1. Len(tbl) \in Nat
  BY LenProperties
<1>2. I # {} => Max(I) \in 1..Len(tbl)
  BY <1>1, MaxIsMember
<1>3. LatestActive(tbl, phone, purpose, now, hour) = IF I # {} THEN Max(I) ELSE 0
  BY Zenon DEF LatestActive, SelectLastInSeq
<1> HIDE DEF I
<1> QED
  BY <1>1, <1>2, <1>3

(***************************************************************************)
(* LastSend is the newest row of the phone and purpose, and LatestActive   *)
(* the newest of those created within the hour.                            *)
(***************************************************************************)
LEMMA LastSendIsNewest ==
  ASSUME NEW S, NEW tbl \in Seq(S), NEW phone, NEW purpose
  PROVE  LET last == LastSend(tbl, phone, purpose) IN
         /\ last \in 0..Len(tbl)
         /\ last # 0 => tbl[last].phone = phone /\ tbl[last].purpose = purpose
         /\ \A i \in 1..Len(tbl) :
              tbl[i].phone = phone /\ tbl[i].purpose = purpose => i <= last
<1> DEFINE I == {i \in 1..Len(tbl) : tbl[i].phone = phone /\ tbl[i].purpose = purpose}
<1>1. Len(tbl) \in Nat
  BY LenProperties
<1>2. I # {} => Max(I) \in I /\ \A i \in I : Max(I) >= i
  BY <1>1, MaxIsMember
<1>3. LastSend(tbl, phone, purpose) = IF I # {} THEN Max(I) ELSE 0
  BY Zenon DEF LastSend, SelectLastInSeq
<1>4. CASE I = {}
  BY <1>1, <1>3, <1>4
<1>5. CASE I # {}
  <2>1. LastSend(tbl, phone, purpose) \in I
        /\ \A i \in I : LastSend(tbl, phone, purpose) >= i
    BY <1>2, <1>3, <1>5
  <2> QED
    BY <1>1, <2>1
<1> QED
  BY <1>4, <1>5

LEMMA LatestActiveIsNewest ==
  ASSUME NEW S, NEW tbl \in Seq(S), NEW phone, NEW purpose, NEW now, NEW hour,
         LatestActive(tbl, phone, purpose, now, hour) # 0
  PROVE  LET id == LatestActive(tbl, phone, purpose, now, hour) IN
         /\ id \in 1..Len(tbl)
         /\ tbl[id].phone = phone /\ tbl[id].purpose = purpose /\ tbl[id].created > now - hour
         /\ \A i \in 1..Len(tbl) :
              tbl[i].phone = phone /\ tbl[i].purpose = purpose /\ tbl[i].created > now - hour
                => i <= id
<1> DEFINE I == {i \in 1..Len(tbl) : /\ tbl[i].phone = phone
                                     /\ tbl[i].purpose = purpose
                                     /\ tbl[i].created > now - hour}
           id == LatestActive(tbl, phone, purpose, now, hour)
<1>1. Len(tbl) \in Nat
  BY LenProperties
<1>2. I # {} => Max(I) \in I /\ \A i \in I : Max(I) >= i
  BY <1>1, MaxIsMember
<1>3. id = IF I # {} THEN Max(I) ELSE 0
  BY Zenon DEF LatestActive, SelectLastInSeq
<1>4. id \in I /\ \A i \in I : id >= i
  BY <1>2, <1>3
<1> HIDE DEF id
<1> QED
  BY <1>1, <1>4 DEF id
=============================================================================
