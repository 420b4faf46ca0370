------------------------- MODULE TrsLogicQueueProofs -------------------------
(***************************************************************************)
(* The ring of TrsLogicCq implements the queue of TrsLogicQueue, for every *)
(* depth: wrapping, copying out of the middle and closing holes lose,      *)
(* duplicate and reorder nothing.                                          *)
(***************************************************************************)
EXTENDS TrsLogicCqProofs, WellFoundedInduction, SequenceTheorems

-----------------------------------------------------------------------------
(* Which run a receive takes. *)

(* A set of natural numbers has a least element. *)
LEMMA LeastOf ==
    ASSUME NEW S \in SUBSET Nat, S # {}
    PROVE  \E x \in S : \A y \in S : x <= y
<1>1. PICK x \in S : \A y \in S : ~(<<y, x>> \in OpToRel(<, Nat))
  BY NatLessThanWellFounded, WFMin
<1>2. ASSUME NEW y \in S PROVE x <= y
  <2>1. x \in Nat /\ y \in Nat /\ ~(y < x)
    BY <1>1 DEF OpToRel
  <2>. QED
    BY <2>1
<1>. QED
  BY <1>2

(* Min is that least element. *)
LEMMA MinOf ==
    ASSUME NEW S \in SUBSET Nat, S # {}
    PROVE  Min(S) \in S /\ \A y \in S : Min(S) <= y
  BY LeastOf DEF Min

(* The minimum of two numbers. *)
LEMMA MinOfTwo ==
    ASSUME NEW a \in Nat, NEW b \in Nat
    PROVE  Min({a, b}) = IF a <= b THEN a ELSE b
<1>1. Min({a, b}) \in {a, b} /\ \A y \in {a, b} : Min({a, b}) <= y
  BY MinOf
<1>. QED
  BY <1>1

(* A set of numbers from a on that has with each number those below it is an  *)
(* interval.                                                                  *)
LEMMA RunIsInterval ==
    ASSUME NEW a \in Nat, NEW c \in Nat, NEW S \in SUBSET (a .. a + c - 1),
           \A i \in S : \A j \in a .. i : j \in S
    PROVE  Cardinality(S) \in 0 .. c /\ S = a .. a + Cardinality(S) - 1
<1>. DEFINE T == {i \in Nat : a <= i /\ i \notin S}
<1>1. a + c \in T
  OBVIOUS
<1>2. PICK e \in T : \A y \in T : e <= y
  BY <1>1, LeastOf
<1>3. S = a .. e - 1
  <2>1. ASSUME NEW i \in S PROVE i \in a .. e - 1
    <3>1. i \in a .. a + c - 1
      OBVIOUS
    <3>2. e \notin a .. i
      BY <1>2
    <3>. QED
      BY <1>2, <3>1, <3>2
  <2>2. ASSUME NEW i \in a .. e - 1 PROVE i \in S
    BY <1>2, <2>2
  <2>. QED
    BY <2>1, <2>2
<1>4. e <= a + c /\ a <= e /\ e \in Nat
  BY <1>1, <1>2
<1>5. Cardinality(a .. e - 1) = e - a
  <2>. DEFINE b == e - 1
  <2>1. a \in Int /\ b \in Int /\ b = e - 1
    BY <1>4
  <2>. HIDE DEF b
  <2>2. Cardinality(a .. b) = IF a > b THEN 0 ELSE b - a + 1
    BY <2>1, FS_Interval
  <2>. QED
    BY <1>4, <2>1, <2>2
<1>. QED
  BY <1>3, <1>4, <1>5

Other(r, i) == ring[i].match /\ ring[i].task # r.task

(* What is found in ring[from .. to-1]: nothing, when all is for other tasks, *)
(* or the first run that r may take.                                          *)
RunFound(r, from, to, x) ==
    /\ x.num \in Nat
    /\ x.num = 0 => r.num = 0 \/ \A i \in from .. to - 1 : Other(r, i)
    /\ x.num # 0 =>
          /\ x.start \in from .. to - 1 /\ x.start + x.num <= to /\ x.num <= r.num
          /\ \A i \in from .. x.start - 1 : Other(r, i)
          /\ \A i \in x.start .. x.start + x.num - 1 : ~Other(r, i)
          /\ \A i \in x.start .. x.start + x.num - 2 : ~ring[i].match

(* MatchCopyRange finds it. *)
LEMMA MatchRange ==
    ASSUME NEW r, r.num \in Nat, NEW from \in Nat, NEW to \in Nat, from <= to
    PROVE  RunFound(r, from, to, MatchCopyRange(r, from, to))
<1>. DEFINE free  == {i \in from .. to - 1 : ~Other(r, i)}
            start == Min(free)
            cnt   == Min({to - from, r.num})
            run   == {i \in free : /\ i \in start .. start + cnt - 1
                                  /\ \A j \in start .. i - 1 : ~ring[j].match}
            x     == MatchCopyRange(r, from, to)
<1>0. x = IF free = {} THEN [start |-> 0, num |-> 0] ELSE [start |-> start, num |-> Cardinality(run)]
  BY DEF MatchCopyRange, Other
<1>1. free \in SUBSET Nat /\ \A i \in from .. to - 1 : i \notin free => Other(r, i)
  OBVIOUS
<1>2. CASE free = {}
  BY <1>0, <1>1, <1>2 DEF RunFound
<1>3. CASE free # {}
  <2>1. start \in free /\ \A y \in free : start <= y
    BY <1>1, <1>3, MinOf
  <2>2. start \in from .. to - 1 /\ \A i \in from .. start - 1 : Other(r, i)
    BY <1>1, <2>1
  <2>3. to - from \in Nat /\ cnt \in Nat /\ cnt <= to - from /\ cnt <= r.num /\ (cnt = 0 => r.num = 0)
    <3>1. to - from \in Nat /\ to - from # 0
      BY <2>2
    <3>. QED
      BY <3>1, MinOfTwo
  <2>. HIDE DEF cnt, start
  <2>4. run \in SUBSET (start .. start + cnt - 1)
    OBVIOUS
  <2>5. ASSUME NEW i \in run, NEW j \in start .. i PROVE j \in run
    <3>1. /\ i \in from .. to - 1 /\ i \in start .. start + cnt - 1 /\ i \in free
          /\ \A k \in start .. i - 1 : ~ring[k].match
      OBVIOUS
    <3>2. j \in from .. to - 1 /\ j \in start .. start + cnt - 1 /\ \A k \in start .. j - 1 : k \in start .. i - 1
      BY <2>2, <2>3, <3>1
    <3>3. j \in free
      <4>1. CASE j = i
        BY <3>1, <4>1
      <4>2. CASE j # i
        <5>1. j \in start .. i - 1
          BY <2>2, <3>1, <4>2
        <5>2. ~Other(r, j)
          BY <3>1, <5>1 DEF Other
        <5>. QED
          BY <3>2, <5>2
      <4>. QED
        BY <4>1, <4>2
    <3>. QED
      BY <3>1, <3>2, <3>3
  <2>6. start \in Nat
    BY <2>2
  <2>7. Cardinality(run) \in 0 .. cnt /\ run = start .. start + Cardinality(run) - 1
    <3>. HIDE DEF run
    <3>. QED
      BY <2>3, <2>4, <2>5, <2>6, RunIsInterval
  <2>8. cnt # 0 => start \in run
    BY <2>1, <2>2, <2>3
  <2>9. x.start = start /\ x.num = Cardinality(run)
    BY <1>0, <1>3
  <2>13. \A i \in run : i \in from .. to - 1 /\ ~Other(r, i) /\ \A j \in start .. i - 1 : ~ring[j].match
    OBVIOUS
  <2>. HIDE DEF run, x, free
  <2>. DEFINE m == Cardinality(run)
  <2>10. m \in Nat /\ m <= cnt
    BY <2>3, <2>7
  <2>11. m = 0 => r.num = 0
    BY <2>3, <2>6, <2>7, <2>8
  <2>12. ASSUME m # 0
         PROVE  /\ start + m <= to
                /\ \A i \in start .. start + m - 1 : ~Other(r, i)
                /\ \A i \in start .. start + m - 2 : ~ring[i].match
    <3>1. start + m - 1 \in run /\ \A i \in start .. start + m - 1 : i \in run
      BY <2>6, <2>7, <2>10, <2>12
    <3>2. start + m - 1 \in from .. to - 1 /\ \A j \in start .. start + m - 1 - 1 : ~ring[j].match
      <4>1. PICK e \in run : e = start + m - 1
        BY <3>1
      <4>2. e \in from .. to - 1 /\ \A j \in start .. e - 1 : ~ring[j].match
        BY <2>13, <4>1
      <4>. QED
        BY <2>6, <2>10, <4>1, <4>2
    <3>3. \A i \in start .. start + m - 1 : ~Other(r, i)
      BY <2>13, <3>1
    <3>. HIDE DEF m
    <3>. QED
      BY <2>6, <2>10, <3>1, <3>2, <3>3
  <2>14. x.start = start /\ x.num = m
    BY <2>9
  <2>. HIDE DEF m
  <2>15. /\ x.num \in Nat
         /\ x.num = 0 => r.num = 0
         /\ x.num # 0 => x.start \in from .. to - 1 /\ x.start + x.num <= to /\ x.num <= r.num
    BY <2>2, <2>3, <2>10, <2>11, <2>12, <2>14
  <2>16. x.num # 0 => /\ \A i \in from .. x.start - 1 : Other(r, i)
                      /\ \A i \in x.start .. x.start + x.num - 1 : ~Other(r, i)
                      /\ \A i \in x.start .. x.start + x.num - 2 : ~ring[i].match
    BY <2>2, <2>12, <2>14
  <2>. QED
    BY <2>11, <2>14, <2>15, <2>16 DEF x, RunFound
<1>. QED
  BY <1>2, <1>3

-----------------------------------------------------------------------------
(* The ring seen from its head. *)

(* The slot k places behind head, how far a slot is behind head, and how many *)
(* slots are in use.                                                          *)
Nth(k) == IF head + k < Depth THEN head + k ELSE head + k - Depth
Off(i) == IF head <= i THEN i - head ELSE i - head + Depth
Used   == Off(tail)

(* The slots are the numbers below a positive depth. *)
LEMMA DepthFacts ==
    /\ Depth \in Nat /\ Depth # 0
    /\ \A i \in Slots : i \in Nat /\ i < Depth
    /\ \A i \in Int : 0 <= i /\ i < Depth => i \in Slots
  BY LogicCqAssumption DEF LogicCqAssumption, Slots

(* Reducing an index that is off by at most one lap. *)
LEMMA ModFacts ==
    ASSUME NEW a \in Int
    PROVE  /\ 0 <= a /\ a < Depth => a % Depth = a
           /\ Depth <= a /\ a < 2 * Depth => a % Depth = a - Depth
           /\ -Depth <= a /\ a < 0 => a % Depth = a + Depth
  BY DepthFacts

(* Nth and Off are inverse to each other. *)
LEMMA NthFacts ==
    ASSUME head \in Slots
    PROVE  /\ \A k \in 0 .. Depth - 1 : Nth(k) \in Slots /\ Off(Nth(k)) = k
           /\ \A i \in Slots : Off(i) \in 0 .. Depth - 1 /\ Nth(Off(i)) = i
  BY DepthFacts DEF Nth, Off

(* The start of the run x, counted from head. *)
Skipped(x) == IF x.rollback THEN Depth - head + x.start ELSE x.start - head

Reserves(r, i) == r.version = 1 /\ Other(r, i)

(* The run that CopyRange chooses is the first one r may take, whether it is  *)
(* before or behind the end of the memory.                                    *)
GoodRun(r, x) ==
    /\ x.num \in Nat /\ x.start \in Slots /\ x.start + x.num <= Depth /\ x.rollback \in BOOLEAN
    /\ Skipped(x) \in Nat /\ Skipped(x) + x.num <= Used
    /\ \A k \in 0 .. Skipped(x) - 1 : Reserves(r, Nth(k))
    /\ \A k \in Skipped(x) .. Skipped(x) + x.num - 1 : ~Reserves(r, Nth(k))
    /\ r.version = 1 => /\ x.num <= r.num
                        /\ \A k \in Skipped(x) .. Skipped(x) + x.num - 2 : ~ring[Nth(k)].match
    /\ x.rollback => tail < head /\ x.start + x.num <= tail
    /\ ~x.rollback => head <= x.start

(* A receive that finds something to copy has found such a run. *)
LEMMA CopyRangeFinds ==
    ASSUME head \in Slots, tail \in Slots, tail # head, NEW r \in Requests
    PROVE  CopyRange(r).num # 0 => GoodRun(r, CopyRange(r))
<1>. DEFINE end == IF tail > head THEN tail ELSE Depth
            up  == MatchCopyRange(r, head, end)
            low == MatchCopyRange(r, 0, tail)
            x   == CopyRange(r)
<1>0. /\ head \in Nat /\ tail \in Nat /\ head < Depth /\ tail < Depth /\ Depth \in Nat
      /\ end \in Nat /\ head < end /\ end <= Depth /\ r.num \in Nat
  BY DepthFacts, LogicCqAssumption DEF LogicCqAssumption
<1>1. x = IF r.version # 1
          THEN [start |-> head, rollback |-> FALSE,
                num |-> IF tail > head THEN tail - head ELSE Depth - head]
          ELSE IF tail > head \/ up.num # 0
               THEN [start |-> up.start, num |-> up.num, rollback |-> FALSE]
               ELSE [start |-> low.start, num |-> low.num, rollback |-> TRUE]
  BY DEF CopyRange
<1>2. RunFound(r, head, end, up)
  <2>. HIDE DEF end
  <2>. QED
    BY <1>0, MatchRange
<1>3. RunFound(r, 0, tail, low)
  <2>1. 0 \in Nat /\ 0 <= tail
    BY <1>0
  <2>. QED
    BY <1>0, <2>1, MatchRange
<1>. USE DEF RunFound
<1>. HIDE DEF up, low, x
<1>4. CASE r.version # 1
  <2>1. x.start = head /\ x.rollback = FALSE /\ x.num = IF tail > head THEN tail - head ELSE Depth - head
    BY <1>1, <1>4
  <2>2. Skipped(x) = 0
    BY <1>0, <2>1 DEF Skipped
  <2>3. x.num <= Used /\ x.num \in Nat /\ x.start + x.num <= Depth
    BY <1>0, <2>1 DEF Used, Off
  <2>. QED
    <3>1. x.start \in Slots /\ x.rollback \in BOOLEAN /\ ~x.rollback
      BY <2>1, Zenon
    <3>5. Skipped(x) \in Nat /\ Skipped(x) + x.num <= Used /\ head <= x.start
      <4>1. Used \in Int
        BY <1>0 DEF Used, Off
      <4>. QED
        BY <1>0, <2>1, <2>2, <2>3, <4>1
    <3>2. \A i : ~Reserves(r, i)
      BY <1>4 DEF Reserves
    <3>3. \A k \in 0 .. Skipped(x) - 1 : FALSE
      BY <2>2
    <3>4. GoodRun(r, x)
      BY <1>4, <2>3, <3>1, <3>2, <3>3, <3>5 DEF GoodRun
    <3>. QED
      BY <3>4 DEF x
<1>5. CASE r.version = 1 /\ (tail > head \/ up.num # 0)
  <2>1. x.start = up.start /\ x.rollback = FALSE /\ x.num = up.num
    BY <1>1, <1>5
  <2>. SUFFICES ASSUME x.num # 0 PROVE GoodRun(r, x)
    BY DEF x
  <2>2. Skipped(x) = up.start - head /\ Skipped(x) \in Nat
    BY <1>0, <1>2, <2>1 DEF Skipped
  <2>3. Skipped(x) + x.num <= Used
    BY <1>0, <1>2, <2>1, <2>2 DEF Used, Off
  <2>4. \A k \in 0 .. Skipped(x) + x.num - 1 : Nth(k) = head + k
    BY <1>0, <1>2, <2>1, <2>2 DEF Nth
  <2>5. \A k \in 0 .. Skipped(x) - 1 : Reserves(r, Nth(k))
    BY <1>0, <1>2, <1>5, <2>1, <2>2, <2>4 DEF Reserves
  <2>6. \A k \in Skipped(x) .. Skipped(x) + x.num - 1 : ~Reserves(r, Nth(k))
    BY <1>0, <1>2, <2>1, <2>2, <2>4 DEF Reserves
  <2>7. ASSUME NEW k \in Skipped(x) .. Skipped(x) + x.num - 2 PROVE ~ring[Nth(k)].match
    <3>1. k \in 0 .. Skipped(x) + x.num - 1 /\ head + k \in up.start .. up.start + up.num - 2
      BY <1>0, <1>2, <2>1, <2>2
    <3>2. ~ring[head + k].match
      BY <1>2, <2>1, <3>1
    <3>. QED
      BY <2>4, <3>1, <3>2
  <2>8. x.start \in Slots /\ x.start + x.num <= Depth /\ head <= x.start /\ x.num \in Nat /\ x.num <= r.num
    BY <1>0, <1>2, <2>1, DepthFacts
  <2>. QED
    BY <2>1, <2>2, <2>3, <2>5, <2>6, <2>7, <2>8 DEF GoodRun
<1>6. CASE r.version = 1 /\ ~(tail > head \/ up.num # 0)
  <2>1. x.start = low.start /\ x.rollback = TRUE /\ x.num = low.num
    BY <1>1, <1>6
  <2>. SUFFICES ASSUME x.num # 0 PROVE GoodRun(r, x)
    BY DEF x
  <2>2. Skipped(x) = Depth - head + low.start /\ Skipped(x) \in Nat
    BY <1>0, <1>3, <2>1 DEF Skipped
  <2>3. tail < head /\ Used = tail - head + Depth /\ end = Depth
    BY <1>0, <1>6 DEF Used, Off
  <2>4. \A i \in head .. Depth - 1 : Other(r, i)
    BY <1>0, <1>2, <1>3, <1>6, <2>1, <2>3
  <2>5. ASSUME NEW k \in 0 .. Skipped(x) - 1 PROVE Reserves(r, Nth(k))
    <3>1. CASE head + k < Depth
      BY <1>0, <1>6, <2>4, <3>1 DEF Reserves, Nth
    <3>2. CASE ~(head + k < Depth)
      <4>1. Nth(k) \in 0 .. low.start - 1
        BY <1>0, <1>3, <2>1, <2>2, <3>2 DEF Nth
      <4>. QED
        BY <1>3, <1>6, <2>1, <4>1 DEF Reserves
    <3>. QED
      BY <3>1, <3>2
  <2>6. \A k \in Skipped(x) .. Skipped(x) + x.num - 1 : Nth(k) = k - Depth + head
    BY <1>0, <1>3, <2>1, <2>2 DEF Nth
  <2>7. \A k \in Skipped(x) .. Skipped(x) + x.num - 1 : ~Reserves(r, Nth(k))
    BY <1>0, <1>3, <2>1, <2>2, <2>6 DEF Reserves
  <2>8. \A k \in Skipped(x) .. Skipped(x) + x.num - 2 : ~ring[Nth(k)].match
    BY <1>0, <1>3, <2>1, <2>2, <2>6
  <2>9. /\ x.start \in Slots /\ x.start + x.num <= Depth /\ x.num \in Nat /\ x.num <= r.num
        /\ x.start + x.num <= tail /\ Skipped(x) + x.num <= Used
    BY <1>0, <1>3, <2>1, <2>2, <2>3, DepthFacts
  <2>. QED
    BY <2>1, <2>2, <2>3, <2>5, <2>7, <2>8, <2>9 DEF GoodRun
<1>. QED
  BY <1>4, <1>5, <1>6 DEF x

(* MoveCqes is a plain copy when no slot is read after it was written. *)
LEMMA MoveIs ==
    ASSUME NEW m, NEW src \in Int, NEW dst \in Int, NEW num \in Int, src <= dst \/ dst + num <= src
    PROVE  MoveCqes(m, src, dst, num) =
             [i \in Slots |-> IF i \notin dst .. dst + num - 1 THEN m[i] ELSE m[i + src - dst]]
<1>. DEFINE body(f, i) == IF i \notin dst .. dst + num - 1 THEN m[i]
                          ELSE LET s == i + src - dst
                               IN  IF s > i /\ s < dst + num THEN f[s] ELSE m[s]
            plain == [i \in Slots |-> IF i \notin dst .. dst + num - 1 THEN m[i] ELSE m[i + src - dst]]
<1>1. MoveCqes(m, src, dst, num) = CHOOSE f : f = [i \in Slots |-> body(f, i)]
  BY DEF MoveCqes
<1>2. ASSUME NEW f, NEW i \in Slots
      PROVE  body(f, i) = IF i \notin dst .. dst + num - 1 THEN m[i] ELSE m[i + src - dst]
  <2>1. i \in Int
    BY DepthFacts
  <2>2. i \in dst .. dst + num - 1 => ~(i + src - dst > i /\ i + src - dst < dst + num)
    BY <2>1
  <2>. QED
    BY <2>2
<1>3. \A f : [i \in Slots |-> body(f, i)] = plain
  BY <1>2
<1>. HIDE DEF body, plain
<1>4. plain = [i \in Slots |-> body(plain, i)]
  BY <1>3
<1>. QED
  BY <1>1, <1>3, <1>4 DEF plain


(* The ring after a copy of the run x was closed up. *)
Closed(x) == IF x.start = head THEN ring ELSE EliminateHoles(x)

(* Seen from head, closing up moves the CQEs in front of the run x behind it  *)
(* and leaves all others where they are.                                      *)
ClosedUp(x) ==
    /\ Closed(x) \in [Slots -> Cqes \cup {NoCqe}]
    /\ \A k \in 0 .. Depth - 1 :
          Closed(x)[Nth(k)] = IF x.num <= k /\ k < x.num + Skipped(x)
                              THEN ring[Nth(k - x.num)] ELSE ring[Nth(k)]

(* trs_logic_cq_eliminate_holes does so on either side of the wrap. *)
LEMMA HolesClosed ==
    ASSUME head \in Slots, tail \in Slots, ring \in [Slots -> Cqes \cup {NoCqe}],
           NEW r, NEW x, GoodRun(r, x)
    PROVE  ClosedUp(x)
<1>. DEFINE V    == Cqes \cup {NoCqe}
            num  == x.num
            s    == x.start
            skip == Skipped(x)
<1>0. /\ head \in Nat /\ tail \in Nat /\ head < Depth /\ tail < Depth /\ Depth \in Nat
      /\ num \in Nat /\ s \in Nat /\ s + num <= Depth /\ skip \in Nat
  BY DepthFacts DEF GoodRun
<1>1. \A i \in Slots : i \in Nat /\ i < Depth
  BY DepthFacts
<1>2. CASE ~x.rollback
  <2>1. skip = s - head /\ head <= s
    BY <1>2 DEF Skipped, GoodRun
  <2>2. ASSUME NEW m, m \in [Slots -> V],
               \A i \in Slots : m[i] = IF head + num <= i /\ i < s + num THEN ring[i - num] ELSE ring[i]
        PROVE  \A k \in 0 .. Depth - 1 :
                  m[Nth(k)] = IF num <= k /\ k < num + skip THEN ring[Nth(k - num)] ELSE ring[Nth(k)]
    <3>1. SUFFICES ASSUME NEW k \in 0 .. Depth - 1
                   PROVE  m[Nth(k)] = IF num <= k /\ k < num + skip THEN ring[Nth(k - num)] ELSE ring[Nth(k)]
      OBVIOUS
    <3>2. Nth(k) \in Slots
      BY NthFacts
    <3>3. CASE num <= k /\ k < num + skip
      <4>1. Nth(k) = head + k /\ Nth(k - num) = head + k - num
        BY <1>0, <2>1, <3>3 DEF Nth
      <4>2. head + num <= Nth(k) /\ Nth(k) < s + num /\ Nth(k) - num = Nth(k - num)
        BY <1>0, <2>1, <3>3, <4>1
      <4>. QED
        BY <2>2, <3>2, <3>3, <4>2
    <3>4. CASE ~(num <= k /\ k < num + skip)
      <4>1. ~(head + num <= Nth(k) /\ Nth(k) < s + num)
        BY <1>0, <2>1, <3>4 DEF Nth
      <4>. QED
        BY <2>2, <3>2, <3>4, <4>1
    <3>. QED
      BY <3>3, <3>4
  <2>3. CASE s = head
    <3>1. Closed(x) = ring
      BY <2>3 DEF Closed
    <3>2. \A k \in Nat : ~(num <= k /\ k < num + skip)
      BY <1>0, <2>1, <2>3
    <3>. QED
      BY <3>1, <3>2, <1>0 DEF ClosedUp
  <2>4. CASE s # head
    <3>1. Closed(x) = MoveCqes(ring, head, head + num, s - head)
      BY <1>2, <2>4 DEF Closed, EliminateHoles
    <3>. DEFINE dst == head + num
                cnt == s - head
                mv  == [i \in Slots |-> IF i \notin dst .. dst + cnt - 1 THEN ring[i] ELSE ring[i + head - dst]]
    <3>2. dst \in Int /\ cnt \in Int /\ head \in Int /\ head <= dst
      BY <1>0
    <3>3. Closed(x) = mv
      <4>. HIDE DEF dst, cnt
      <4>1. Closed(x) = MoveCqes(ring, head, dst, cnt)
        BY <3>1 DEF dst, cnt
      <4>. QED
        BY <3>2, <4>1, MoveIs
    <3>4. ASSUME NEW i \in Slots
          PROVE  /\ mv[i] = IF head + num <= i /\ i < s + num THEN ring[i - num] ELSE ring[i]
                 /\ mv[i] \in V
      <4>1. i \in dst .. dst + cnt - 1 <=> head + num <= i /\ i < s + num
        BY <1>0, <1>1, <2>1
      <4>2. i + head - dst = i - num
        BY <1>0, <1>1
      <4>3. mv[i] = IF head + num <= i /\ i < s + num THEN ring[i - num] ELSE ring[i]
        BY <4>1, <4>2
      <4>4. head + num <= i => i - num \in Slots
        BY <1>0, <1>1, DepthFacts
      <4>. QED
        BY <4>3, <4>4
    <3>5. mv \in [Slots -> V]
      BY <3>4
    <3>6. \A k \in 0 .. Depth - 1 :
             mv[Nth(k)] = IF num <= k /\ k < num + skip THEN ring[Nth(k - num)] ELSE ring[Nth(k)]
      <4>. HIDE DEF mv
      <4>. QED
        BY <2>2, <3>4, <3>5
    <3>. QED
      BY <3>3, <3>5, <3>6 DEF ClosedUp
  <2>. QED
    BY <2>3, <2>4
<1>3. CASE x.rollback
  <2>1. skip = Depth - head + s /\ tail < head /\ s + num <= tail
    BY <1>3 DEF Skipped, GoodRun
  <2>. DEFINE n    == Min({x.num, Depth - head})
              rest == Depth - head - n
              m1   == MoveCqes(ring, 0, x.num, x.start)
              m2   == MoveCqes(m1, Depth - n, x.num - n, n)
              m3   == MoveCqes(m2, head, Depth - rest, rest)
  <2>2. /\ n \in Nat /\ n <= num /\ n <= Depth - head /\ (n = num \/ n = Depth - head)
        /\ rest \in Nat /\ Depth - rest = head + n /\ n + rest = Depth - head
    <3>1. Depth - head \in Nat
      BY <1>0
    <3>. QED
      BY <1>0, <3>1, MinOfTwo
  <2>3. Closed(x) = m3
    <3>1. x.start # head
      BY <1>0, <2>1
    <3>. QED
      BY <1>3, <3>1 DEF Closed, EliminateHoles
  <2>. HIDE DEF n
  <2>4. m1 = [i \in Slots |-> IF i \notin num .. num + s - 1 THEN ring[i] ELSE ring[i + 0 - num]]
    <3>1. num \in Int /\ s \in Int /\ 0 \in Int /\ 0 <= num
      BY <1>0
    <3>. QED
      BY <3>1, MoveIs
  <2>. HIDE DEF m1
  <2>5. m2 = [i \in Slots |-> IF i \notin num - n .. num - n + n - 1 THEN m1[i] ELSE m1[i + (Depth - n) - (num - n)]]
    <3>. DEFINE a == Depth - n
                b == num - n
    <3>1. a \in Int /\ b \in Int /\ n \in Int /\ b + n <= a
      BY <1>0, <2>1, <2>2
    <3>2. m2 = MoveCqes(m1, a, b, n)
      OBVIOUS
    <3>3. m2 = [i \in Slots |-> IF i \notin b .. b + n - 1 THEN m1[i] ELSE m1[i + a - b]]
      <4>. HIDE DEF a, b, m2
      <4>. QED
        BY <3>1, <3>2, MoveIs
    <3>. QED
      BY <3>3
  <2>. HIDE DEF m2
  <2>6. m3 = [i \in Slots |-> IF i \notin Depth - rest .. Depth - rest + rest - 1 THEN m2[i] ELSE m2[i + head - (Depth - rest)]]
    <3>. DEFINE b == Depth - rest
    <3>1. b \in Int /\ rest \in Int /\ head \in Int /\ head <= b
      BY <1>0, <2>1, <2>2
    <3>2. m3 = MoveCqes(m2, head, b, rest)
      OBVIOUS
    <3>3. m3 = [i \in Slots |-> IF i \notin b .. b + rest - 1 THEN m2[i] ELSE m2[i + head - b]]
      <4>. HIDE DEF b, m3, rest
      <4>. QED
        BY <3>1, <3>2, MoveIs
    <3>. QED
      BY <3>3
  <2>. HIDE DEF m3
  <2>7. \A i \in Slots : m1[i] = IF num <= i /\ i < num + s THEN ring[i - num] ELSE ring[i]
    <3>1. ASSUME NEW i \in Slots
          PROVE  i \in num .. num + s - 1 <=> num <= i /\ i < num + s
      BY <1>0, <1>1
    <3>2. ASSUME NEW i \in Slots PROVE i + 0 - num = i - num
      BY <1>0, <1>1
    <3>. QED
      BY <2>4, <3>1, <3>2
  <2>8. \A i \in Slots : m2[i] = IF num - n <= i /\ i < num THEN m1[i + Depth - num] ELSE m1[i]
    <3>1. ASSUME NEW i \in Slots
          PROVE  i \in num - n .. num - n + n - 1 <=> num - n <= i /\ i < num
      BY <1>0, <1>1, <2>2
    <3>2. ASSUME NEW i \in Slots PROVE i + (Depth - n) - (num - n) = i + Depth - num
      BY <1>0, <1>1, <2>2
    <3>. QED
      BY <2>5, <3>1, <3>2
  <2>9. \A i \in Slots : m3[i] = IF head + n <= i THEN m2[i - n] ELSE m2[i]
    <3>1. ASSUME NEW i \in Slots
          PROVE  i \in Depth - rest .. Depth - rest + rest - 1 <=> head + n <= i
      BY <1>0, <1>1, <2>2
    <3>2. ASSUME NEW i \in Slots PROVE i + head - (Depth - rest) = i - n
      BY <1>0, <1>1, <2>2
    <3>. QED
      BY <2>6, <3>1, <3>2
  <2>. HIDE DEF rest
  <2>10. ASSUME NEW i \in Slots
         PROVE  /\ head + n <= i => m3[i] = ring[i - n] /\ i - n \in Slots
                /\ head <= i /\ i < head + n => m3[i] = ring[i]
                /\ num + s <= i /\ i < head => m3[i] = ring[i]
                /\ num <= i /\ i < num + s => m3[i] = ring[i - num] /\ i - num \in Slots
                /\ num - n <= i /\ i < num => m3[i] = ring[i + Depth - num] /\ i + Depth - num \in Slots
                /\ i < num - n => m3[i] = ring[i]
    <3>0. i \in Nat /\ i < Depth
      BY <1>1
    <3>1. ASSUME head + n <= i PROVE m3[i] = ring[i - n] /\ i - n \in Slots
      <4>1. i - n \in Slots
        BY <1>0, <2>2, <3>0, <3>1, DepthFacts
      <4>2. ~(i - n < num) /\ ~(i - n < num + s)
        BY <1>0, <2>1, <2>2, <3>0, <3>1
      <4>3. m2[i - n] = ring[i - n]
        BY <2>7, <2>8, <4>1, <4>2
      <4>. QED
        BY <2>9, <3>1, <4>1, <4>3
    <3>2. ASSUME ~(head + n <= i) PROVE m3[i] = m2[i]
      BY <2>9, <3>2
    <3>3. ASSUME head <= i /\ i < head + n PROVE m3[i] = ring[i]
      <4>1. ~(head + n <= i) /\ ~(i < num) /\ ~(i < num + s)
        BY <1>0, <2>1, <2>2, <3>0, <3>3
      <4>. QED
        BY <2>7, <2>8, <3>2, <4>1
    <3>4. ASSUME num + s <= i /\ i < head PROVE m3[i] = ring[i]
      <4>1. ~(head + n <= i) /\ ~(i < num) /\ ~(i < num + s)
        BY <1>0, <2>1, <2>2, <3>0, <3>4
      <4>. QED
        BY <2>7, <2>8, <3>2, <4>1
    <3>5. ASSUME num <= i /\ i < num + s PROVE m3[i] = ring[i - num] /\ i - num \in Slots
      <4>1. ~(head + n <= i) /\ ~(i < num)
        BY <1>0, <2>1, <2>2, <3>0, <3>5
      <4>2. i - num \in Slots
        BY <1>0, <3>0, <3>5, DepthFacts
      <4>. QED
        BY <2>7, <2>8, <3>2, <3>5, <4>1, <4>2
    <3>6. ASSUME num - n <= i /\ i < num
          PROVE  m3[i] = ring[i + Depth - num] /\ i + Depth - num \in Slots
      <4>1. ~(head + n <= i) /\ ~(i + Depth - num < num + s)
        BY <1>0, <2>1, <2>2, <3>0, <3>6
      <4>2. i + Depth - num \in Slots
        BY <1>0, <2>2, <3>0, <3>6, DepthFacts
      <4>3. m1[i + Depth - num] = ring[i + Depth - num]
        BY <2>7, <4>1, <4>2
      <4>. QED
        BY <2>8, <3>2, <3>6, <4>1, <4>2, <4>3
    <3>7. ASSUME i < num - n PROVE m3[i] = ring[i]
      <4>1. ~(head + n <= i) /\ ~(num - n <= i) /\ ~(num <= i)
        BY <1>0, <2>1, <2>2, <3>0, <3>7
      <4>. QED
        BY <2>7, <2>8, <3>2, <4>1
    <3>. QED
      BY <3>1, <3>3, <3>4, <3>5, <3>6, <3>7
  <2>11. m3 \in [Slots -> V]
    <3>1. ASSUME NEW i \in Slots PROVE m3[i] \in V
      <4>1. \/ head + n <= i \/ (head <= i /\ i < head + n) \/ (num + s <= i /\ i < head)
            \/ (num <= i /\ i < num + s) \/ (num - n <= i /\ i < num) \/ i < num - n
        BY <1>0, <1>1, <2>1, <2>2
      <4>. QED
        BY <2>10, <4>1
    <3>2. m3 = [i \in Slots |-> m3[i]]
      BY <2>6
    <3>. QED
      BY <3>1, <3>2
  <2>12. ASSUME NEW k \in 0 .. Depth - 1
         PROVE  m3[Nth(k)] = IF num <= k /\ k < num + skip THEN ring[Nth(k - num)] ELSE ring[Nth(k)]
    <3>. DEFINE i == Nth(k)
    <3>1. i \in Slots /\ i \in Nat /\ i < Depth /\ i = IF head + k < Depth THEN head + k ELSE head + k - Depth
      BY <1>1, NthFacts DEF Nth
    <3>2. num <= k => Nth(k - num) = IF head + k - num < Depth THEN head + k - num ELSE head + k - num - Depth
      BY <1>0 DEF Nth
    <3>. HIDE DEF i
    <3>3. CASE head + n <= i
      <4>1. num <= k /\ k < num + skip /\ Nth(k - num) = i - n
        BY <1>0, <2>1, <2>2, <3>1, <3>2, <3>3
      <4>. QED
        BY <2>10, <3>1, <3>3, <4>1 DEF i
    <3>4. CASE head <= i /\ i < head + n
      <4>1. ~(num <= k)
        BY <1>0, <2>1, <2>2, <3>1, <3>4
      <4>. QED
        BY <2>10, <3>1, <3>4, <4>1 DEF i
    <3>5. CASE num + s <= i /\ i < head
      <4>1. ~(k < num + skip)
        BY <1>0, <2>1, <2>2, <3>1, <3>5
      <4>. QED
        BY <2>10, <3>1, <3>5, <4>1 DEF i
    <3>6. CASE num <= i /\ i < num + s
      <4>1. num <= k /\ k < num + skip /\ Nth(k - num) = i - num
        BY <1>0, <2>1, <2>2, <3>1, <3>2, <3>6
      <4>. QED
        BY <2>10, <3>1, <3>6, <4>1 DEF i
    <3>7. CASE num - n <= i /\ i < num
      <4>1. num <= k /\ k < num + skip /\ Nth(k - num) = i + Depth - num
        BY <1>0, <2>1, <2>2, <3>1, <3>2, <3>7
      <4>. QED
        BY <2>10, <3>1, <3>7, <4>1 DEF i
    <3>8. CASE i < num - n
      <4>1. ~(num <= k)
        BY <1>0, <2>1, <2>2, <3>1, <3>8
      <4>. QED
        BY <2>10, <3>1, <3>8, <4>1 DEF i
    <3>. QED
      BY <1>0, <2>1, <2>2, <3>1, <3>3, <3>4, <3>5, <3>6, <3>7, <3>8
  <2>. QED
    BY <2>3, <2>11, <2>12 DEF ClosedUp
<1>. QED
  BY <1>2, <1>3 DEF GoodRun


-----------------------------------------------------------------------------
(* The inductive invariant of the ring and of the receives. *)

(* Every slot in use holds a CQE. *)
RingInv ==
    /\ ring \in [Slots -> Cqes \cup {NoCqe}]
    /\ valid => \A k \in 0 .. Used - 1 : ring[Nth(k)] \in Cqes

(* A thread has a request while it is in trs_logic_cq_recv, and has copied    *)
(* something only between the two halves of a copy; then it has copied no     *)
(* more than is in use.                                                       *)
RecvOf(t) ==
    /\ req[t] # NoReq <=> pc[t] \in RecvPcs
    /\ pc[t] # "done" => got[t] = 0 /\ report[t] = <<>>
    /\ pc[t] = "range" => tail # head
    /\ pc[t] = "done" => got[t] \in 1 .. Used

RecvInv == \A t \in Threads : RecvOf(t)

ReportInv == report \in [Threads -> Seq(Cqes)]

(* The CQEs in use behind the first g. *)
Content(g) == [i \in 1 .. Used - g |-> ring[Nth(g + i - 1)]]

(* What a receiver sees of the queue: all that is in use, or, between the two *)
(* halves of a copy, what is left.                                            *)
QueueShape ==
    /\ ~valid => Queue = <<>>
    /\ valid /\ (\A t \in Threads : pc[t] # "done") => Queue = Content(0)
    /\ valid => \A t \in Threads : pc[t] = "done" => Queue = Content(got[t])

(* The slots in use are a proper part of the ring and end at tail. *)
LEMMA UsedFacts ==
    ASSUME head \in Slots, tail \in Slots
    PROVE  /\ Used \in 0 .. Depth - 1 /\ Nth(Used) = tail
           /\ \A k \in 0 .. Depth - 1 : Nth(k) \in Slots /\ (Nth(k) = tail <=> k = Used)
           /\ Used = 0 <=> tail = head
  BY DepthFacts, NthFacts DEF Used, Off

(* Unrolling the ring with indices modulo the depth gives its content. *)
LEMMA ContentIs ==
    ASSUME head \in Slots, tail \in Slots, NEW g \in 0 .. Used
    PROVE  [i \in 1 .. (tail - (head + g)) % Depth |-> ring[(head + g + i - 1) % Depth]] = Content(g)
<1>0. head \in Nat /\ tail \in Nat /\ head < Depth /\ tail < Depth /\ Depth \in Nat /\ g \in Nat /\ g <= Used
  BY DepthFacts, UsedFacts
<1>1. (tail - (head + g)) % Depth = Used - g
  <2>1. CASE head <= tail
    <3>1. tail - (head + g) = Used - g /\ Used - g \in Int /\ 0 <= Used - g /\ Used - g < Depth
      BY <1>0, <2>1 DEF Used, Off
    <3>. QED
      BY <3>1, ModFacts
  <2>2. CASE tail < head
    <3>1. Used = tail - head + Depth
      BY <1>0, <2>2 DEF Used, Off
    <3>2. CASE tail - (head + g) < 0
      <4>1. tail - (head + g) \in Int /\ -Depth <= tail - (head + g)
        BY <1>0, <3>1
      <4>2. (tail - (head + g)) % Depth = tail - (head + g) + Depth
        BY <3>2, <4>1, ModFacts
      <4>. QED
        BY <1>0, <3>1, <4>2
    <3>. QED
      BY <1>0, <2>2, <3>2
  <2>. QED
    BY <1>0, <2>1, <2>2
<1>2. ASSUME NEW i \in 1 .. Used - g PROVE (head + g + i - 1) % Depth = Nth(g + i - 1)
  <2>0. Used \in Nat /\ Used < Depth
    BY UsedFacts, <1>0
  <2>. DEFINE a == head + g + i - 1
  <2>1. a \in Int /\ 0 <= a /\ a < 2 * Depth /\ a = head + (g + i - 1)
    BY <1>0, <2>0
  <2>2. a % Depth = IF a < Depth THEN a ELSE a - Depth
    <3>. HIDE DEF a
    <3>1. CASE a < Depth
      BY <2>1, <3>1, ModFacts
    <3>2. CASE ~(a < Depth)
      <4>1. Depth <= a
        BY <1>0, <2>1, <3>2
      <4>. QED
        BY <2>1, <3>2, <4>1, ModFacts
    <3>. QED
      BY <3>1, <3>2
  <2>3. Nth(g + i - 1) = IF a < Depth THEN a ELSE a - Depth
    BY <1>0, <2>0, <2>1 DEF Nth
  <2>. QED
    BY <2>2, <2>3
<1>. QED
  BY <1>1, <1>2 DEF Content

(* The invariant tells what the receivers see. *)
LEMMA QueueIs == ControlTypeOK /\ MutexInv /\ RecvInv => QueueShape
<1>. SUFFICES ASSUME ControlTypeOK, MutexInv, RecvInv PROVE QueueShape
  OBVIOUS
<1>. DEFINE copier == {t \in Threads : pc[t] = "done"}
            first  == IF copier = {} THEN head ELSE head + got[CHOOSE t \in copier : TRUE]
            All(f) == [i \in 1 .. (tail - f) % Depth |-> ring[(f + i - 1) % Depth]]
<1>0. head \in Slots /\ tail \in Slots /\ head \in Int
  BY DepthFacts DEF ControlTypeOK
<1>1. Queue = IF valid THEN All(first) ELSE <<>>
  BY DEF Queue
<1>2. ASSUME valid, NEW t \in Threads, pc[t] = "done" PROVE Queue = Content(got[t])
  <2>1. \A s \in copier : s = t
    BY <1>2 DEF MutexInv
  <2>2. (CHOOSE s \in copier : TRUE) = t
    BY <1>2, <2>1
  <2>3. first = head + got[t]
    BY <1>2, <2>2
  <2>4. got[t] \in 0 .. Used
    BY <1>0, <1>2, UsedFacts DEF RecvInv, RecvOf
  <2>5. All(head + got[t]) = Content(got[t])
    BY <1>0, <2>4, ContentIs
  <2>. HIDE DEF first, All
  <2>. QED
    BY <1>1, <1>2, <2>3, <2>5
<1>3. ASSUME valid, \A t \in Threads : pc[t] # "done" PROVE Queue = Content(0)
  <2>1. first = head + 0
    BY <1>0, <1>3
  <2>2. 0 \in 0 .. Used
    BY <1>0, UsedFacts
  <2>3. All(head + 0) = Content(0)
    BY <1>0, <2>2, ContentIs
  <2>. HIDE DEF first, All
  <2>. QED
    BY <1>1, <1>3, <2>1, <2>3
<1>. QED
  BY <1>1, <1>2, <1>3 DEF QueueShape

(* A step that touches neither the ring nor what was copied of it. *)
LEMMA SameQueue ==
    ASSUME UNCHANGED <<valid, ring, head, tail, got>>,
           \A s \in Threads : pc'[s] = "done" <=> pc[s] = "done"
    PROVE  Queue' = Queue
<1>1. {s \in Threads : pc'[s] = "done"} = {s \in Threads : pc[s] = "done"}
  OBVIOUS
<1>. QED
  BY <1>1 DEF Queue

(* Used slots after trs_logic_cq_enque. *)
LEMMA EnqueUsed ==
    ASSUME head \in Slots, tail \in Slots, ~IsFull,
           head' = head, tail' = (tail + 1) % Depth
    PROVE  /\ Used' = Used + 1 /\ Used' \in 0 .. Depth - 1 /\ tail' # head'
           /\ \A k : Nth(k)' = Nth(k)
<1>0. head \in Nat /\ tail \in Nat /\ head < Depth /\ tail < Depth /\ Depth \in Nat
  BY DepthFacts
<1>1. tail' = IF tail + 1 < Depth THEN tail + 1 ELSE 0
  BY <1>0, ModFacts
<1>2. tail' # head
  BY DEF IsFull
<1>3. \A k : Nth(k)' = Nth(k)
  BY DEF Nth
<1>. QED
  BY <1>0, <1>1, <1>2, <1>3 DEF Used, Off

(* How CopyDone finds the place of a slot. *)
LEMMA NthMod ==
    ASSUME head \in Slots, NEW k \in 0 .. Depth - 1
    PROVE  (Nth(k) - head) % Depth = k /\ Nth(k) \in Slots
<1>0. head \in Nat /\ head < Depth /\ Depth \in Nat /\ k \in Nat /\ k < Depth
  BY DepthFacts
<1>1. CASE head + k < Depth
  <2>1. Nth(k) - head = k /\ k \in Int /\ 0 <= k
    BY <1>0, <1>1 DEF Nth
  <2>. QED
    BY <1>0, <2>1, ModFacts, NthFacts
<1>2. CASE ~(head + k < Depth)
  <2>. DEFINE a == Nth(k) - head
  <2>1. a = k - Depth /\ a \in Int /\ -Depth <= a /\ a < 0
    BY <1>0, <1>2 DEF Nth
  <2>2. a % Depth = a + Depth
    <3>. HIDE DEF a
    <3>. QED
      BY <2>1, ModFacts
  <2>3. a + Depth = k
    BY <1>0, <2>1
  <2>. QED
    BY <2>2, <2>3, NthFacts
<1>. QED
  BY <1>1, <1>2

(* Used slots after the head has moved over the g CQEs that were copied. *)
LEMMA DoneUsed ==
    ASSUME head \in Slots, tail \in Slots, NEW g \in 0 .. Used,
           head' = (head + g) % Depth, tail' = tail
    PROVE  /\ Used' = Used - g
           /\ \A k \in 0 .. Used - g - 1 : Nth(k)' = Nth(g + k)
<1>0. /\ head \in Nat /\ tail \in Nat /\ head < Depth /\ tail < Depth /\ Depth \in Nat
      /\ g \in Nat /\ g <= Used /\ Used \in Nat /\ Used < Depth
  BY DepthFacts, UsedFacts
<1>1. head' = IF head + g < Depth THEN head + g ELSE head + g - Depth
  <2>1. head + g \in Int /\ 0 <= head + g /\ head + g < 2 * Depth
    BY <1>0
  <2>. QED
    BY <1>0, <2>1, ModFacts
<1>2. Used' = Used - g
  BY <1>0, <1>1 DEF Used, Off
<1>3. \A k \in 0 .. Used - g - 1 : Nth(k)' = Nth(g + k)
  BY <1>0, <1>1 DEF Nth
<1>. QED
  BY <1>2, <1>3


-----------------------------------------------------------------------------
(* The invariant is inductive. *)

(* Initially the ring is unused and nobody receives. *)
LEMMA RefInit == Init => RingInv /\ RecvInv /\ ReportInv
<1>. SUFFICES ASSUME Init PROVE RingInv /\ RecvInv /\ ReportInv
  OBVIOUS
<1>1. RingInv
  BY DEF Init, RingInv
<1>2. RecvInv
  BY DEF Init, RecvInv, RecvOf, RecvPcs, Wakers
<1>3. ReportInv
  <2>1. <<>> \in Seq(Cqes)
    OBVIOUS
  <2>. QED
    BY <2>1 DEF Init, ReportInv
<1>. QED
  BY <1>1, <1>2, <1>3

(* A step that moves no receive into or out of a copy. *)
LEMMA RecvQuiet ==
    ASSUME NEW s \in Threads, RecvOf(s), head' = head, tail' = tail,
           req'[s] = req[s], got'[s] = got[s], report'[s] = report[s],
           pc'[s] \in RecvPcs <=> pc[s] \in RecvPcs,
           pc'[s] = "done" <=> pc[s] = "done",
           pc'[s] = "range" => pc[s] = "range"
    PROVE  RecvOf(s)'
  BY DEF RecvOf, Used, Off

(* Every step keeps what is said of the receives. *)
LEMMA RecvStep ==
    ControlTypeOK /\ MutexInv /\ RecvInv /\ ReportInv /\ [Next]_vars => RecvInv'
<1>. SUFFICES ASSUME ControlTypeOK, MutexInv, RecvInv, ReportInv, [Next]_vars, NEW s \in Threads
              PROVE  RecvOf(s)'
  BY DEF RecvInv
<1>0. /\ DOMAIN pc = Wakers /\ DOMAIN req = Threads /\ DOMAIN got = Threads /\ DOMAIN report = Threads
      /\ s \in Wakers /\ s \notin Producers /\ RecvOf(s)
      /\ head \in Slots /\ tail \in Slots /\ s # NoThread
  BY LogicCqAssumption DEF LogicCqAssumption, ControlTypeOK, RecvInv, ReportInv, Wakers
<1>. USE DEF Goto
<1>1. ASSUME NEW p \in Producers, NEW c \in Cqes, Enque(p, c) PROVE RecvOf(s)'
  <2>1. /\ pc'[s] = pc[s] /\ UNCHANGED <<req, got, report, head>>
        /\ ~IsFull /\ tail' = (tail + 1) % Depth
    BY <1>0, <1>1 DEF Enque, callVars
  <2>2. Used' = Used + 1 /\ tail' # head' /\ Used \in 0 .. Depth - 1
    BY <1>0, <2>1, EnqueUsed, UsedFacts
  <2>. QED
    BY <1>0, <2>1, <2>2, DepthFacts DEF RecvOf
<1>2. ASSUME NEW x \in Wakers,
             WakeupRead(x) \/ WakeupSet(x) \/ WakeupWake(x) \/ WakeupReordered(x) \/ WakeupLate(x)
      PROVE  RecvOf(s)'
  <2>1. /\ UNCHANGED <<req, got, report, head, tail>>
        /\ pc'[s] = pc[s] \/ (pc[s] \in WakeupPcs /\ pc'[s] \in WakeupPcs \cup {"idle", "f_fin"})
    BY <1>0, <1>2 DEF WakeupRead, WakeupSet, WakeupWake, WakeupReordered, WakeupLate,
                      AfterWakeup, WakeupPcs, ringVars, callVars
  <2>. QED
    BY <1>0, <2>1, RecvQuiet DEF RecvPcs, WakeupPcs
<1>3. ASSUME NEW t \in Receivers, NEW r \in Requests, Recv(t, r) PROVE RecvOf(s)'
  <2>1. UNCHANGED <<got, report, head, tail>> /\ (s # t => pc'[s] = pc[s] /\ req'[s] = req[s])
    BY <1>0, <1>3 DEF Recv, ringVars
  <2>2. s = t => pc[s] = "idle" /\ pc'[s] = "copy" /\ req'[s] # NoReq
    BY <1>0, <1>3, LogicCqAssumption DEF Recv, LogicCqAssumption
  <2>. QED
    BY <1>0, <2>1, <2>2 DEF RecvOf, RecvPcs, Used, Off
<1>4. ASSUME NEW t \in Receivers, Expired(t) \/ Interrupted(t) PROVE RecvOf(s)'
  <2>1. /\ UNCHANGED <<req, got, report, head, tail>>
        /\ pc'[s] = pc[s] \/ (pc[s] = "asleep" /\ pc'[s] = "leave")
    BY <1>0, <1>4 DEF Expired, Interrupted, ringVars, callVars
  <2>. QED
    BY <1>0, <2>1, RecvQuiet DEF RecvPcs
<1>5. ASSUME NEW t \in Threads,
             \/ AllocId(t) \/ InitFails(t) \/ Free(t) \/ UninitLock(t) \/ UninitDone(t) \/ FreeId(t)
      PROVE  RecvOf(s)'
  <2>1. /\ UNCHANGED <<req, got, report, head, tail>>
        /\ pc'[s] = pc[s] \/ (/\ pc[s] \in {"idle", "a_init", "f_lock", "f_fin", "f_id"}
                              /\ pc'[s] \in {"idle", "a_init", "f_lock", "w_read", "f_id"})
    BY <1>0, <1>5 DEF AllocId, InitFails, Free, UninitLock, UninitDone, FreeId, ringVars, callVars
  <2>. QED
    BY <1>0, <2>1, RecvQuiet DEF RecvPcs
<1>6. ASSUME NEW t \in Threads, CopyReport(t) PROVE RecvOf(s)'
  <2>1. UNCHANGED <<got, report, head, tail>> /\ (s # t => pc'[s] = pc[s] /\ req'[s] = req[s])
    BY <1>0, <1>6 DEF CopyReport, Return, TryAgain, ringVars
  <2>2. s = t => /\ pc[s] = "copy"
                 /\ \/ pc'[s] = "idle" /\ req'[s] = NoReq
                    \/ pc'[s] = "wait" /\ req'[s] = req[s]
                    \/ pc'[s] = "range" /\ req'[s] = req[s] /\ tail # head
    BY <1>0, <1>6 DEF CopyReport, Return, TryAgain, IsEmpty
  <2>. QED
    BY <1>0, <2>1, <2>2 DEF RecvOf, RecvPcs, Used, Off
<1>7. ASSUME NEW t \in Threads, CopyCqes(t) PROVE RecvOf(s)'
  <2>0. head' = head /\ tail' = tail
    BY <1>7 DEF CopyCqes, ringVars
  <2>1. s # t => pc'[s] = pc[s] /\ req'[s] = req[s] /\ got'[s] = got[s] /\ report'[s] = report[s]
    BY <1>0, <1>7 DEF CopyCqes, Return, TryAgain
  <2>2. CASE s # t
    BY <1>0, <2>0, <2>1, <2>2, RecvQuiet
  <2>3. CASE s = t
    <3>1. pc[s] = "range" /\ tail # head /\ req[s] # NoReq /\ req[s] \in Requests
      BY <1>0, <1>7, <2>3 DEF CopyCqes, RecvOf, RecvPcs, ControlTypeOK
    <3>. DEFINE x == CopyRange(req[s])
    <3>2. \/ pc'[s] = "idle" /\ req'[s] = NoReq /\ got' = got /\ report' = report
          \/ pc'[s] \in {"wait", "copy"} /\ req' = req /\ got' = got /\ report' = report
          \/ pc'[s] = "done" /\ req' = req /\ x.num # 0 /\ got'[s] = x.num
      <4>. HIDE DEF x
      <4>. QED
        BY <1>0, <1>7, <2>3 DEF CopyCqes, Return, TryAgain, x
    <3>3. x.num # 0 => x.num \in Nat /\ x.num <= Used
      <4>. SUFFICES ASSUME x.num # 0 PROVE x.num \in Nat /\ x.num <= Used
        OBVIOUS
      <4>1. GoodRun(req[s], x)
        BY <1>0, <3>1, CopyRangeFinds
      <4>. HIDE DEF x
      <4>2. x.num \in Nat /\ Skipped(x) \in Nat /\ Skipped(x) + x.num <= Used
        BY <4>1 DEF GoodRun
      <4>3. Used \in Int
        BY <1>0, UsedFacts
      <4>. QED
        BY <4>2, <4>3
    <3>4. Used' = Used /\ Used \in Int
      BY <1>0, <2>0, UsedFacts DEF Used, Off
    <3>. HIDE DEF x
    <3>. QED
      BY <1>0, <2>0, <3>1, <3>2, <3>3, <3>4 DEF RecvOf, RecvPcs
  <2>. QED
    BY <2>2, <2>3
<1>8. ASSUME NEW t \in Threads, CopyDone(t) PROVE RecvOf(s)'
  <2>1. /\ s # t => pc'[s] = pc[s] /\ req'[s] = req[s] /\ got'[s] = got[s] /\ report'[s] = report[s]
        /\ s = t => pc'[s] = "idle" /\ req'[s] = NoReq /\ got'[s] = 0
    BY <1>0, <1>8 DEF CopyDone, Return
  <2>2. s # t => pc[s] \notin {"range", "done"}
    BY <1>8 DEF CopyDone, MutexInv
  <2>3. s = t => report'[s] = <<>>
    BY <1>0, <1>8 DEF CopyDone
  <2>. QED
    BY <1>0, <2>1, <2>2, <2>3 DEF RecvOf, RecvPcs
<1>9. ASSUME NEW t \in Threads, Wait(t) PROVE RecvOf(s)'
  <2>1. UNCHANGED <<got, report, head, tail>> /\ (s # t => pc'[s] = pc[s] /\ req'[s] = req[s])
    BY <1>0, <1>9 DEF Wait, WaitCount, PrepareToWait, WaitCheck, WaitTake, Awakened, FinishWait,
                      WaitUncount, Return, ringVars, callVars
  <2>2. s = t => \/ /\ req'[s] = req[s]
                    /\ pc[s] \in RecvPcs \ {"range", "done"} /\ pc'[s] \in RecvPcs \ {"range", "done"}
                 \/ pc'[s] = "idle" /\ req'[s] = NoReq /\ pc[s] # "done"
    BY <1>0, <1>9 DEF Wait, WaitCount, PrepareToWait, WaitCheck, WaitTake, Awakened, FinishWait,
                      WaitUncount, Return, callVars, RecvPcs
  <2>. QED
    BY <1>0, <2>1, <2>2 DEF RecvOf, RecvPcs, Used, Off
<1>10. ASSUME NEW t \in Threads, InitQueue(t) PROVE RecvOf(s)'
  <2>1. /\ UNCHANGED <<req, got, report>>
        /\ pc'[s] = pc[s] \/ (pc[s] = "a_init" /\ pc'[s] \in {"idle", "f_lock"})
    BY <1>0, <1>10 DEF InitQueue, callVars
  <2>2. pc[s] \notin {"range", "done"}
    BY <1>0, <1>10 DEF InitQueue, MutexInv
  <2>. QED
    BY <1>0, <2>1, <2>2 DEF RecvOf, RecvPcs
<1>11. CASE UNCHANGED vars
  BY <1>0, <1>11, RecvQuiet DEF vars, ringVars, callVars
<1>. QED
  BY <1>1, <1>2, <1>3, <1>4, <1>5, <1>6, <1>7, <1>8, <1>9, <1>10, <1>11, NextCases DEF Threads, Wait


(* The run that a receive in the middle of its copy takes. *)
LEMMA CopyTakes ==
    ASSUME ControlTypeOK, MutexInv, RingInv, RecvInv,
           NEW t \in Threads, pc[t] = "range", CopyRange(req[t]).num # 0
    PROVE  /\ GoodRun(req[t], CopyRange(req[t])) /\ ClosedUp(CopyRange(req[t]))
           /\ valid /\ req[t] # NoReq /\ req[t] \in Requests
           /\ \A s \in Threads : pc[s] # "done"
<1>0. head \in Slots /\ tail \in Slots
  BY DEF ControlTypeOK
<1>1. valid /\ tail # head /\ req[t] # NoReq /\ req[t] \in Requests
  BY DEF ControlTypeOK, MutexInv, RecvInv, RecvOf, RecvPcs
<1>2. \A s \in Threads : pc[s] # "done"
  BY DEF MutexInv
<1>3. GoodRun(req[t], CopyRange(req[t]))
  BY <1>0, <1>1, CopyRangeFinds
<1>4. ClosedUp(CopyRange(req[t]))
  BY <1>0, <1>3, HolesClosed DEF RingInv
<1>. QED
  BY <1>1, <1>2, <1>3, <1>4

(* The slots of a run, counted from head. *)
LEMMA RunSlots ==
    ASSUME head \in Slots, tail \in Slots, NEW r, NEW x, GoodRun(r, x)
    PROVE  \A j \in 1 .. x.num : x.start + j - 1 = Nth(Skipped(x) + j - 1)
<1>0. /\ head \in Nat /\ tail \in Nat /\ head < Depth /\ tail < Depth /\ Depth \in Nat
      /\ x.num \in Nat /\ x.start \in Nat /\ x.start + x.num <= Depth /\ Skipped(x) \in Nat
  BY DepthFacts DEF GoodRun
<1>1. CASE x.rollback
  <2>1. Skipped(x) = Depth - head + x.start /\ tail < head /\ x.start + x.num <= tail
    BY <1>1 DEF Skipped, GoodRun
  <2>. QED
    BY <1>0, <2>1 DEF Nth
<1>2. CASE ~x.rollback
  <2>1. Skipped(x) = x.start - head
    BY <1>2 DEF Skipped
  <2>. QED
    BY <1>0, <2>1 DEF Nth
<1>. QED
  BY <1>1, <1>2 DEF GoodRun

(* Every step keeps CQEs in the slots in use and in the reports. *)
LEMMA RingStep ==
    /\ ControlTypeOK /\ MutexInv /\ OwnerInv /\ RingInv /\ RecvInv /\ ReportInv
    /\ [Next]_vars
    => RingInv' /\ ReportInv'
<1>. SUFFICES ASSUME ControlTypeOK, MutexInv, OwnerInv, RingInv, RecvInv, ReportInv, [Next]_vars
              PROVE  RingInv' /\ ReportInv'
  OBVIOUS
<1>0. head \in Slots /\ tail \in Slots /\ DOMAIN report = Threads
  BY DEF ControlTypeOK, ReportInv
<1>a. ASSUME UNCHANGED <<valid, ring, head, tail, report>> PROVE RingInv' /\ ReportInv'
  BY <1>a DEF RingInv, ReportInv, Used, Off, Nth
<1>1. ASSUME NEW p \in Producers, NEW c \in Cqes, Enque(p, c) PROVE RingInv' /\ ReportInv'
  <2>1. /\ valid /\ valid' = valid /\ ~IsFull /\ head' = head /\ tail' = (tail + 1) % Depth
        /\ ring' = [ring EXCEPT ![tail] = c] /\ report' = report
    BY <1>1 DEF Enque, callVars
  <2>2. Used' = Used + 1 /\ (\A k : Nth(k)' = Nth(k)) /\ Used' \in 0 .. Depth - 1
    BY <1>0, <2>1, EnqueUsed
  <2>3. /\ Used \in 0 .. Depth - 1
        /\ \A k \in 0 .. Depth - 1 : Nth(k) \in Slots /\ (Nth(k) = tail <=> k = Used)
    BY <1>0, UsedFacts
  <2>4. ring' \in [Slots -> Cqes \cup {NoCqe}]
    BY <2>1 DEF RingInv
  <2>5. ASSUME NEW k \in 0 .. Used PROVE ring'[Nth(k)] \in Cqes
    <3>1. k \in 0 .. Depth - 1 /\ (k # Used => k \in 0 .. Used - 1)
      BY <2>3, DepthFacts
    <3>2. CASE k = Used
      BY <2>1, <2>3, <3>1, <3>2 DEF RingInv
    <3>3. CASE k # Used
      <4>1. ring[Nth(k)] \in Cqes
        BY <2>1, <3>1, <3>3 DEF RingInv
      <4>. QED
        BY <2>1, <2>3, <3>1, <3>3, <4>1 DEF RingInv
    <3>. QED
      BY <3>2, <3>3
  <2>6. ASSUME NEW k \in 0 .. Used' - 1 PROVE ring'[Nth(k)'] \in Cqes
    <3>1. k \in 0 .. Used
      BY <2>2, <2>3
    <3>. QED
      BY <2>2, <2>5, <3>1
  <2>. QED
    BY <2>1, <2>4, <2>6 DEF RingInv, ReportInv
<1>2. ASSUME NEW x \in Wakers,
             WakeupRead(x) \/ WakeupSet(x) \/ WakeupWake(x) \/ WakeupReordered(x) \/ WakeupLate(x)
      PROVE  RingInv' /\ ReportInv'
  BY <1>a, <1>2 DEF WakeupRead, WakeupSet, WakeupWake, WakeupReordered, WakeupLate, ringVars, callVars
<1>3. ASSUME NEW t \in Threads,
             \/ \E r \in Requests : Recv(t, r)
             \/ Expired(t) \/ Interrupted(t) \/ AllocId(t) \/ InitFails(t) \/ Free(t) \/ FreeId(t)
             \/ CopyReport(t)
      PROVE  RingInv' /\ ReportInv'
  BY <1>a, <1>3 DEF Recv, Expired, Interrupted, AllocId, InitFails, Free, FreeId, CopyReport,
                    ringVars, callVars
<1>4. ASSUME NEW t \in Threads, Wait(t) PROVE RingInv' /\ ReportInv'
  BY <1>a, <1>4 DEF Wait, WaitCount, PrepareToWait, WaitCheck, WaitTake, Awakened, FinishWait,
                    WaitUncount, ringVars, callVars
<1>5. ASSUME NEW t \in Threads, CopyCqes(t) PROVE RingInv' /\ ReportInv'
  <2>. DEFINE x == CopyRange(req[t])
  <2>1. pc[t] = "range" /\ UNCHANGED <<valid, head, tail>>
    BY <1>5 DEF CopyCqes, ringVars
  <2>2. \/ UNCHANGED <<ring, report>>
        \/ /\ x.num # 0
           /\ ring' = Closed(x)
           /\ report' = [report EXCEPT ![t] = [i \in 1 .. x.num |-> ring[x.start + i - 1]]]
    BY <1>5 DEF CopyCqes, ringVars, Closed
  <2>3. CASE UNCHANGED <<ring, report>>
    BY <1>a, <2>1, <2>3
  <2>4. CASE /\ x.num # 0
             /\ ring' = Closed(x)
             /\ report' = [report EXCEPT ![t] = [i \in 1 .. x.num |-> ring[x.start + i - 1]]]
    <3>1. GoodRun(req[t], x) /\ ClosedUp(x) /\ valid
      BY <2>1, <2>4, CopyTakes
    <3>. HIDE DEF x
    <3>2. /\ Depth \in Nat /\ Used \in Nat /\ Used < Depth
          /\ x.num \in Nat /\ Skipped(x) \in Nat /\ Skipped(x) + x.num <= Used
      BY <1>0, <3>1, UsedFacts, DepthFacts DEF GoodRun
    <3>3. ring' \in [Slots -> Cqes \cup {NoCqe}]
      BY <2>4, <3>1 DEF ClosedUp
    <3>4. Used' = Used /\ \A k : Nth(k)' = Nth(k)
      BY <2>1 DEF Used, Off, Nth
    <3>5. ASSUME NEW k \in 0 .. Used - 1 PROVE ring'[Nth(k)] \in Cqes
      <4>1. ring'[Nth(k)] = IF x.num <= k /\ k < x.num + Skipped(x)
                            THEN ring[Nth(k - x.num)] ELSE ring[Nth(k)]
        BY <2>4, <3>1, <3>2 DEF ClosedUp
      <4>2. x.num <= k => k - x.num \in 0 .. Used - 1
        BY <3>2
      <4>. QED
        BY <3>1, <4>1, <4>2 DEF RingInv
    <3>6. ASSUME NEW i \in 1 .. x.num PROVE ring[x.start + i - 1] \in Cqes
      <4>1. x.start + i - 1 = Nth(Skipped(x) + i - 1)
        BY <1>0, <3>1, RunSlots
      <4>2. Skipped(x) + i - 1 \in 0 .. Used - 1
        BY <3>2
      <4>. QED
        BY <3>1, <4>1, <4>2 DEF RingInv
    <3>7. [i \in 1 .. x.num |-> ring[x.start + i - 1]] \in Seq(Cqes)
      BY <3>2, <3>6
    <3>8. ReportInv'
      BY <2>4, <3>7 DEF ReportInv
    <3>. QED
      BY <3>3, <3>4, <3>5, <3>8 DEF RingInv
  <2>. QED
    BY <2>2, <2>3, <2>4
<1>6. ASSUME NEW t \in Threads, CopyDone(t) PROVE RingInv' /\ ReportInv'
  <2>. DEFINE g == got[t]
  <2>1. /\ pc[t] = "done" /\ head' = (head + g) % Depth /\ tail' = tail /\ valid' = valid
        /\ ring' = [i \in Slots |-> IF (i - head) % Depth < g THEN NoCqe ELSE ring[i]]
        /\ report' = [report EXCEPT ![t] = <<>>]
    BY <1>6 DEF CopyDone
  <2>2. g \in 1 .. Used /\ g \in 0 .. Used
    BY <1>0, <2>1, UsedFacts DEF RecvInv, RecvOf
  <2>3. Used' = Used - g /\ \A k \in 0 .. Used - g - 1 : Nth(k)' = Nth(g + k)
    BY <1>0, <2>1, <2>2, DoneUsed
  <2>4. ring' \in [Slots -> Cqes \cup {NoCqe}]
    BY <2>1 DEF RingInv
  <2>. HIDE DEF g
  <2>0. Depth \in Nat /\ Used \in Nat /\ Used < Depth /\ g \in Nat
    BY <1>0, <2>2, UsedFacts, DepthFacts
  <2>5. ASSUME valid, NEW k \in 0 .. Used' - 1 PROVE ring'[Nth(k)'] \in Cqes
    <3>1. Nth(k)' = Nth(g + k) /\ g + k \in 0 .. Used - 1 /\ g + k \in 0 .. Depth - 1 /\ ~(g + k < g)
      BY <2>0, <2>3
    <3>2. (Nth(g + k) - head) % Depth = g + k /\ Nth(g + k) \in Slots
      BY <1>0, <3>1, NthMod
    <3>3. ring'[Nth(g + k)] = ring[Nth(g + k)]
      BY <2>1, <3>1, <3>2
    <3>. QED
      BY <2>5, <3>1, <3>3 DEF RingInv
  <2>6. ReportInv'
    <3>1. <<>> \in Seq(Cqes)
      OBVIOUS
    <3>. QED
      BY <2>1, <3>1 DEF ReportInv
  <2>. QED
    BY <2>1, <2>4, <2>5, <2>6 DEF RingInv
<1>7. ASSUME NEW t \in Threads, InitQueue(t) PROVE RingInv' /\ ReportInv'
  <2>1. head' = 0 /\ tail' = 0 /\ ring' = [i \in Slots |-> NoCqe] /\ report' = report
    BY <1>7 DEF InitQueue, callVars
  <2>2. \A k \in 0 .. Used' - 1 : FALSE
    BY <2>1 DEF Used, Off
  <2>. QED
    BY <2>1, <2>2 DEF RingInv, ReportInv
<1>8. ASSUME NEW t \in Threads, UninitLock(t) PROVE RingInv' /\ ReportInv'
  BY <1>8 DEF UninitLock, ringVars, callVars, RingInv, ReportInv
<1>9. ASSUME NEW t \in Threads, UninitDone(t) PROVE RingInv' /\ ReportInv'
  <2>1. ~valid' /\ ring' = [i \in Slots |-> NoCqe] /\ report' = report
    BY <1>9 DEF UninitDone, MutexInv, callVars
  <2>. QED
    BY <2>1 DEF RingInv, ReportInv
<1>10. CASE UNCHANGED vars
  BY <1>a, <1>10 DEF vars, ringVars, callVars
<1>. QED
  BY <1>1, <1>2, <1>3, <1>4, <1>5, <1>6, <1>7, <1>8, <1>9, <1>10, NextCases DEF Threads, Wait


RefInv == ControlTypeOK /\ MutexInv /\ OwnerInv /\ RingInv /\ RecvInv /\ ReportInv

(* The invariant holds in every reachable state. *)
LEMMA RefInvariant == Spec => []RefInv
<1>1. Init => RefInv
  BY InitType, MutexInit, OwnerInit, RefInit DEF RefInv
<1>2. RefInv /\ [Next]_vars => RefInv'
  BY TypeStep, MutexStep, OwnerStep, RecvStep, RingStep DEF RefInv
<1>. QED
  BY <1>1, <1>2, PTL DEF Spec

(* Every variable keeps its type: the slots hold CQEs or are unused, and no   *)
(* receive is given more than the ring holds.                                 *)
THEOREM RingTyped == Spec => []TypeOK
<1>1. RefInv => TypeOK
  <2>. SUFFICES ASSUME RefInv PROVE TypeOK
    OBVIOUS
  <2>1. got \in [Threads -> 0 .. Depth]
    <3>1. ASSUME NEW t \in Threads PROVE got[t] \in 0 .. Depth
      <4>1. Used \in 0 .. Depth - 1 /\ Depth \in Nat
        BY UsedFacts, DepthFacts DEF RefInv, ControlTypeOK
      <4>2. got[t] = 0 \/ got[t] \in 1 .. Used
        BY DEF RefInv, RecvInv, RecvOf
      <4>. QED
        BY <4>1, <4>2
    <3>. QED
      BY <3>1 DEF RefInv, ControlTypeOK
  <2>. QED
    BY <2>1 DEF TypeOK, RefInv, RingInv, ReportInv
<1>. QED
  BY <1>1, RefInvariant, PTL

-----------------------------------------------------------------------------
(* Every step of the ring is a step of the queue. *)

(* trs_logic_cq_enque appends its CQE. *)
LEMMA EnqueAppends ==
    ASSUME RefInv, QueueShape, QueueShape', NEW p \in Producers, NEW c \in Cqes, Enque(p, c)
    PROVE  Abstract!Enque(c)
<1>0. head \in Slots /\ tail \in Slots /\ DOMAIN pc = Wakers /\ ring \in [Slots -> Cqes \cup {NoCqe}]
  BY DEF RefInv, ControlTypeOK, RingInv
<1>1. /\ valid /\ valid' = valid /\ ~IsFull /\ head' = head /\ tail' = (tail + 1) % Depth
      /\ ring' = [ring EXCEPT ![tail] = c] /\ UNCHANGED <<req, got, report>>
  BY DEF Enque, callVars
<1>2. Used' = Used + 1 /\ (\A k : Nth(k)' = Nth(k)) /\ Used' \in 0 .. Depth - 1
  BY <1>0, <1>1, EnqueUsed
<1>3. /\ Used \in 0 .. Depth - 1 /\ Depth \in Nat
      /\ \A k \in 0 .. Depth - 1 : Nth(k) \in Slots /\ (Nth(k) = tail <=> k = Used)
  BY <1>0, UsedFacts, DepthFacts
<1>4. \A s \in Threads : pc'[s] = pc[s]
  BY <1>0, LogicCqAssumption DEF Enque, Goto, LogicCqAssumption, Wakers
<1>5. ASSUME NEW g \in 0 .. Used
      PROVE  /\ Content(g)' = Append(Content(g), c)
             /\ Len(Content(g)) < Depth - 1
  <2>. DEFINE f == [i \in 1 .. Used - g |-> ring[Nth(g + i - 1)]]
              h == [i \in 1 .. Used + 1 - g |-> ring'[Nth(g + i - 1)]]
  <2>1. Content(g) = f /\ Content(g)' = h
    <3>1. Content(g)' = [i \in 1 .. Used' - g |-> ring'[Nth(g + i - 1)']]
      BY DEF Content
    <3>2. \A i : Nth(g + i - 1)' = Nth(g + i - 1)
      BY <1>2
    <3>3. Content(g)' = [i \in 1 .. Used' - g |-> ring'[Nth(g + i - 1)]]
      BY <3>1, <3>2, Zenon
    <3>4. 1 .. Used' - g = 1 .. Used + 1 - g
      BY <1>2, <1>3
    <3>5. Content(g)' = h
      BY <3>3, <3>4, Zenon
    <3>6. Content(g) = f
      BY Zenon DEF Content
    <3>. QED
      BY <3>5, <3>6
  <2>2. Used - g \in Nat /\ g \in Nat /\ Used + 1 - g = (Used - g) + 1 /\ Used - g < Depth - 1
    BY <1>2, <1>3
  <2>3. f \in Seq(Cqes \cup {NoCqe}) /\ Len(f) = Used - g
    <3>1. ASSUME NEW i \in 1 .. Used - g PROVE ring[Nth(g + i - 1)] \in Cqes \cup {NoCqe}
      <4>1. g + i - 1 \in 0 .. Depth - 1
        BY <1>3, <2>2
      <4>. QED
        BY <1>0, <1>3, <4>1
    <3>. QED
      BY <2>2, <3>1
  <2>4. ASSUME NEW i \in 1 .. (Used - g) + 1
        PROVE  h[i] = IF i = (Used - g) + 1 THEN c ELSE f[i]
    <3>1. g + i - 1 \in 0 .. Depth - 1 /\ (g + i - 1 = Used <=> i = (Used - g) + 1)
      BY <1>3, <2>2
    <3>2. h[i] = ring'[Nth(g + i - 1)]
      BY <2>2
    <3>3. ring'[Nth(g + i - 1)] = IF i = (Used - g) + 1 THEN c ELSE ring[Nth(g + i - 1)]
      BY <1>0, <1>1, <1>3, <3>1
    <3>4. i # (Used - g) + 1 => i \in 1 .. Used - g
      BY <2>2
    <3>. QED
      BY <3>2, <3>3, <3>4
  <2>5. h = Append(f, c)
    <3>1. /\ Append(f, c) \in Seq(Cqes \cup {NoCqe}) /\ Len(Append(f, c)) = (Used - g) + 1
          /\ \A i \in 1 .. (Used - g) : Append(f, c)[i] = f[i]
          /\ Append(f, c)[(Used - g) + 1] = c
      <4>. HIDE DEF f
      <4>. QED
        BY <2>3, AppendProperties
    <3>2. h = [i \in 1 .. (Used - g) + 1 |-> h[i]]
      BY <2>2
    <3>3. Append(f, c) = [i \in 1 .. (Used - g) + 1 |-> Append(f, c)[i]]
      <4>. DEFINE y == Append(f, c)
      <4>1. y \in Seq(Cqes \cup {NoCqe}) /\ Len(y) = (Used - g) + 1
        BY <3>1
      <4>. HIDE DEF y
      <4>2. y = [i \in 1 .. Len(y) |-> y[i]]
        BY <4>1, LenProperties
      <4>. QED
        BY <4>1, <4>2 DEF y
    <3>. DEFINE z == Append(f, c)
    <3>. HIDE DEF h, f, z
    <3>4. ASSUME NEW i \in 1 .. (Used - g) + 1 PROVE h[i] = z[i]
      <4>1. i # (Used - g) + 1 => i \in 1 .. Used - g
        BY <2>2
      <4>. QED
        BY <2>4, <3>1, <4>1 DEF z
    <3>. QED
      BY <3>2, <3>3, <3>4 DEF z
  <2>. QED
    BY <2>1, <2>2, <2>3, <2>5
<1>6. Queue' = Append(Queue, c) /\ Len(Queue) < Depth - 1
  <2>1. CASE \A s \in Threads : pc[s] # "done"
    <3>1. Queue = Content(0) /\ Queue' = Content(0)'
      BY <1>1, <1>4, <2>1 DEF QueueShape
    <3>. QED
      BY <1>3, <1>5, <3>1
  <2>2. ASSUME NEW s \in Threads, pc[s] = "done" PROVE Queue' = Append(Queue, c) /\ Len(Queue) < Depth - 1
    <3>1. Queue = Content(got[s]) /\ Queue' = Content(got[s])'
      BY <1>1, <1>4, <2>2 DEF QueueShape
    <3>2. got[s] \in 0 .. Used /\ got'[s] = got[s]
      BY <1>1, <1>3, <2>2 DEF RefInv, RecvInv, RecvOf
    <3>3. Content(got[s])' = Append(Content(got[s]), c)
      BY <1>5, <3>2 DEF Content
    <3>. QED
      BY <1>5, <3>1, <3>2, <3>3
  <2>. QED
    BY <2>1, <2>2
<1>. QED
  BY <1>1, <1>6 DEF Abstract!Enque


(* A copy takes the first run that the receive may have out of the queue. *)
LEMMA CopyTakesRun ==
    ASSUME RefInv, RefInv', QueueShape, QueueShape',
           NEW t \in Threads, pc[t] = "range", CopyRange(req[t]).num # 0,
           UNCHANGED <<valid, req, head, tail>>,
           ring' = Closed(CopyRange(req[t])),
           report' = [report EXCEPT ![t] =
                        [i \in 1 .. CopyRange(req[t]).num |-> ring[CopyRange(req[t]).start + i - 1]]],
           got'[t] = CopyRange(req[t]).num, pc'[t] = "done"
    PROVE  Abstract!Take(t)
<1>. DEFINE x    == CopyRange(req[t])
            r    == req[t]
            V    == Cqes \cup {NoCqe}
<1>1. GoodRun(r, x) /\ ClosedUp(x) /\ valid /\ r # NoReq /\ \A s \in Threads : pc[s] # "done"
  <2>1. ControlTypeOK /\ MutexInv /\ RingInv /\ RecvInv
    BY DEF RefInv
  <2>. QED
    BY <2>1, CopyTakes
<1>2. /\ head \in Slots /\ tail \in Slots /\ x.num # 0 /\ ring' = Closed(x) /\ ring \in [Slots -> V]
      /\ report' = [report EXCEPT ![t] = [i \in 1 .. x.num |-> ring[x.start + i - 1]]]
      /\ got'[t] = x.num
  BY DEF RefInv, ControlTypeOK, RingInv
<1>. HIDE DEF x
<1>. DEFINE skip == Skipped(x)
            num  == x.num
            i    == skip + 1
            k    == skip + num
<1>3. /\ Depth \in Nat /\ Used \in Nat /\ Used < Depth
      /\ num \in Nat /\ num # 0 /\ skip \in Nat /\ skip + num <= Used
  <2>1. x.num \in Nat /\ Skipped(x) \in Nat /\ Skipped(x) + x.num <= Used
    BY <1>1 DEF GoodRun
  <2>2. Used \in 0 .. Depth - 1 /\ Depth \in Nat
    BY <1>2, UsedFacts, DepthFacts
  <2>. QED
    BY <1>2, <2>1, <2>2
<1>. HIDE DEF skip, num
<1>4. Queue = Content(0) /\ Queue' = [j \in 1 .. Used - num |-> ring'[Nth(num + j - 1)]]
  <2>1. Queue = Content(0)
    BY <1>1 DEF QueueShape
  <2>2. valid' /\ pc'[t] = "done" /\ head' = head /\ tail' = tail /\ got'[t] = num
    BY <1>1, <1>2 DEF num
  <2>3. Queue' = Content(got[t])'
    BY <2>2 DEF QueueShape
  <2>4. Queue' = [j \in 1 .. Used' - got'[t] |-> ring'[Nth(got[t] + j - 1)']]
    BY <2>3 DEF Content
  <2>5. Used' = Used
    BY <2>2 DEF Used, Off
  <2>6. \A j : Nth(got[t] + j - 1)' = Nth(num + j - 1)
    BY <2>2, Zenon DEF Nth
  <2>7. Queue' = [j \in 1 .. Used' - got'[t] |-> ring'[Nth(num + j - 1)]]
    BY <2>4, <2>6, Zenon
  <2>. QED
    BY <2>1, <2>2, <2>5, <2>7, Zenon
<1>5. /\ Queue \in Seq(V) /\ Len(Queue) = Used
      /\ \A j \in 1 .. Used : Queue[j] = ring[Nth(j - 1)] /\ Queue[j] \in V
  <2>. DEFINE f == [j \in 1 .. Used |-> ring[Nth(j - 1)]]
  <2>1. Queue = f
    <3>1. Used - 0 = Used /\ \A j \in 1 .. Used : 0 + j - 1 = j - 1
      BY <1>3
    <3>. QED
      BY <1>4, <3>1 DEF Content
  <2>2. ASSUME NEW j \in 1 .. Used PROVE ring[Nth(j - 1)] \in V
    <3>1. j - 1 \in 0 .. Depth - 1
      BY <1>3
    <3>. QED
      BY <1>2, <3>1, NthFacts
  <2>3. f \in Seq(V) /\ Len(f) = Used
    BY <1>3, <2>2
  <2>. QED
    BY <2>1, <2>2, <2>3
<1>6. \A j \in 1 .. Used : Abstract!Reserved(r, Queue[j]) <=> Reserves(r, Nth(j - 1))
  BY <1>5 DEF Abstract!Reserved, Reserves, Other
<1>7. i \in 1 .. Used /\ k \in 1 .. Used /\ k \in i .. Used /\ k - i + 1 = num
  BY <1>3
<1>8. Abstract!IsFirst(r, i)
  <2>1. ASSUME NEW j \in 1 .. i - 1 PROVE Abstract!Reserved(r, Queue[j])
    <3>1. j \in 1 .. Used /\ j - 1 \in 0 .. skip - 1
      BY <1>3
    <3>2. Reserves(r, Nth(j - 1))
      BY <1>1, <3>1 DEF GoodRun, skip
    <3>. QED
      BY <1>6, <3>1, <3>2
  <2>2. ~Abstract!Reserved(r, Queue[i])
    <3>1. i - 1 = skip /\ skip \in skip .. skip + num - 1
      BY <1>3
    <3>2. ~Reserves(r, Nth(skip))
      BY <1>1, <3>1 DEF GoodRun, skip, num
    <3>. QED
      BY <1>6, <1>7, <3>1, <3>2
  <2>. HIDE DEF i
  <2>. QED
    BY <1>5, <1>7, <2>1, <2>2 DEF Abstract!IsFirst
<1>9. Abstract!IsRun(r, i, k)
  <2>1. ASSUME NEW j \in i .. k PROVE ~Abstract!Reserved(r, Queue[j])
    <3>1. j \in 1 .. Used /\ j - 1 \in skip .. skip + num - 1
      BY <1>3
    <3>2. ~Reserves(r, Nth(j - 1))
      BY <1>1, <3>1 DEF GoodRun, skip, num
    <3>. QED
      BY <1>6, <3>1, <3>2
  <2>2. ASSUME r.version = 1, NEW j \in i .. k - 1 PROVE ~Queue[j].match
    <3>1. j \in 1 .. Used /\ j - 1 \in skip .. skip + num - 2
      BY <1>3
    <3>2. ~ring[Nth(j - 1)].match
      BY <1>1, <2>2, <3>1 DEF GoodRun, skip, num
    <3>. QED
      BY <1>5, <3>1, <3>2
  <2>3. ASSUME r.version = 1 PROVE k - i < r.num
    <3>1. num <= r.num
      BY <1>1, <2>3 DEF GoodRun, num
    <3>2. r \in Requests
      BY <1>1 DEF RefInv, ControlTypeOK
    <3>3. r.num \in Nat
      BY <3>2, LogicCqAssumption DEF LogicCqAssumption
    <3>. HIDE DEF r
    <3>. QED
      BY <1>3, <3>1, <3>3
  <2>. HIDE DEF i, k
  <2>. QED
    BY <1>5, <1>7, <2>1, <2>2, <2>3 DEF Abstract!IsRun
<1>10. SubSeq(Queue, i, k) = [j \in 1 .. num |-> ring[x.start + j - 1]]
  <2>. DEFINE z == SubSeq(Queue, i, k)
              y == [j \in 1 .. num |-> ring[x.start + j - 1]]
  <2>1. \A j \in i .. k : Queue[j] \in V
    BY <1>3, <1>5
  <2>2. i \in Int /\ k \in Int /\ i <= k
    BY <1>3
  <2>3. z \in Seq(V) /\ Len(z) = k - i + 1 /\ \A j \in 1 .. k - i + 1 : z[j] = Queue[i + j - 1]
    <3>. HIDE DEF i, k
    <3>. QED
      BY <2>1, <2>2, SubSeqProperties
  <2>4. ASSUME NEW j \in 1 .. num PROVE z[j] = y[j]
    <3>1. j \in 1 .. k - i + 1 /\ i + j - 1 \in 1 .. Used /\ (i + j - 1) - 1 = skip + j - 1
      BY <1>3
    <3>2. z[j] = Queue[i + j - 1]
      BY <2>3, <3>1
    <3>3. Queue[i + j - 1] = ring[Nth(skip + j - 1)]
      <4>1. Queue[i + j - 1] = ring[Nth((i + j - 1) - 1)]
        BY <1>5, <3>1
      <4>. QED
        BY <3>1, <4>1
    <3>4. x.start + j - 1 = Nth(skip + j - 1)
      BY <1>1, <1>2, RunSlots DEF skip, num
    <3>. QED
      BY <3>2, <3>3, <3>4
  <2>5. z = [j \in 1 .. num |-> z[j]]
    <3>1. Len(z) = num
      BY <1>7, <2>3
    <3>. HIDE DEF z
    <3>. QED
      BY <2>3, <3>1, LenProperties
  <2>. HIDE DEF z
  <2>. QED
    BY <2>4, <2>5 DEF z
<1>11. Queue' = SubSeq(Queue, 1, i - 1) \o SubSeq(Queue, k + 1, Len(Queue))
  <2>. DEFINE lo  == SubSeq(Queue, 1, i - 1)
              hi  == SubSeq(Queue, k + 1, Used)
              n   == Used - num
              w   == [j \in 1 .. n |-> ring'[Nth(num + j - 1)]]
  <2>0. n \in Nat /\ n = skip + (Used - k)
    BY <1>3
  <2>1. Queue' = w
    BY <1>4, Zenon
  <2>2. /\ lo \in Seq(V) /\ Len(lo) = skip
        /\ \A j \in 1 .. skip : lo[j] = Queue[j]
    <3>1. \A j \in 1 .. i - 1 : Queue[j] \in V
      BY <1>3, <1>5
    <3>2. i - 1 \in Int /\ 1 \in Int
      BY <1>3
    <3>3. /\ lo \in Seq(V) /\ Len(lo) = (IF 1 <= i - 1 THEN (i - 1) - 1 + 1 ELSE 0)
          /\ \A j \in 1 .. (i - 1) - 1 + 1 : lo[j] = Queue[1 + j - 1]
      <4>. HIDE DEF i
      <4>. QED
        BY <3>1, <3>2, SubSeqProperties
    <3>4. \A j \in 1 .. skip : j \in 1 .. (i - 1) - 1 + 1 /\ 1 + j - 1 = j
      BY <1>3
    <3>5. Len(lo) = skip
      <4>. HIDE DEF lo
      <4>. QED
        BY <1>3, <3>3
    <3>. HIDE DEF lo
    <3>. QED
      BY <3>3, <3>4, <3>5
  <2>3. /\ hi \in Seq(V) /\ Len(hi) = Used - k
        /\ \A j \in 1 .. Used - k : hi[j] = Queue[k + j]
    <3>1. \A j \in k + 1 .. Used : Queue[j] \in V
      BY <1>3, <1>5
    <3>2. k + 1 \in Int /\ Used \in Int
      BY <1>3
    <3>3. /\ hi \in Seq(V) /\ Len(hi) = (IF k + 1 <= Used THEN Used - (k + 1) + 1 ELSE 0)
          /\ \A j \in 1 .. Used - (k + 1) + 1 : hi[j] = Queue[(k + 1) + j - 1]
      <4>. DEFINE kk == k + 1
      <4>1. /\ \A j \in kk .. Used : Queue[j] \in V
            /\ kk \in Int /\ Used \in Int /\ hi = SubSeq(Queue, kk, Used)
        BY <3>1, <3>2
      <4>. HIDE DEF kk, hi
      <4>2. /\ hi \in Seq(V) /\ Len(hi) = (IF kk <= Used THEN Used - kk + 1 ELSE 0)
            /\ \A j \in 1 .. Used - kk + 1 : hi[j] = Queue[kk + j - 1]
        BY <4>1, SubSeqProperties
      <4>. QED
        BY <4>2 DEF kk
    <3>4. \A j \in 1 .. Used - k : j \in 1 .. Used - (k + 1) + 1 /\ (k + 1) + j - 1 = k + j
      BY <1>3
    <3>5. Len(hi) = Used - k
      <4>. HIDE DEF hi
      <4>. QED
        BY <1>3, <3>3
    <3>. HIDE DEF hi
    <3>. QED
      BY <3>3, <3>4, <3>5
  <2>4. ASSUME NEW j \in 1 .. n
        PROVE  w[j] = (IF j <= skip THEN lo[j] ELSE hi[j - skip]) /\ w[j] \in V
    <3>0. j \in Nat /\ 1 <= j /\ j <= n
      BY <2>0
    <3>1. num + j - 1 \in 0 .. Depth - 1
      BY <1>3, <3>0
    <3>2. w[j] = ring'[Nth(num + j - 1)]
      OBVIOUS
    <3>3. ring'[Nth(num + j - 1)] = IF num <= num + j - 1 /\ num + j - 1 < num + skip
                                    THEN ring[Nth((num + j - 1) - num)] ELSE ring[Nth(num + j - 1)]
      BY <1>1, <1>2, <3>1 DEF ClosedUp, skip, num
    <3>4. CASE j <= skip
      <4>1. /\ num <= num + j - 1 /\ num + j - 1 < num + skip /\ (num + j - 1) - num = j - 1
            /\ j \in 1 .. skip /\ j \in 1 .. Used
        BY <1>3, <3>0, <3>4
      <4>2. w[j] = ring[Nth(j - 1)]
        BY <3>2, <3>3, <4>1
      <4>. HIDE DEF w, lo, hi
      <4>. QED
        BY <1>5, <2>2, <3>4, <4>1, <4>2
    <3>5. CASE ~(j <= skip)
      <4>1. /\ ~(num + j - 1 < num + skip) /\ j - skip \in 1 .. Used - k
            /\ k + (j - skip) = num + j /\ num + j \in 1 .. Used
        BY <1>3, <2>0, <3>0, <3>5
      <4>2. w[j] = ring[Nth(num + j - 1)]
        BY <3>2, <3>3, <4>1
      <4>3. hi[j - skip] = Queue[num + j]
        <5>. HIDE DEF hi
        <5>. QED
          BY <2>3, <4>1
      <4>4. Queue[num + j] = ring[Nth(num + j - 1)] /\ Queue[num + j] \in V
        <5>1. Queue[num + j] = ring[Nth((num + j) - 1)] /\ Queue[num + j] \in V
          BY <1>5, <4>1
        <5>2. (num + j) - 1 = num + j - 1
          BY <1>3, <3>0
        <5>. QED
          BY <5>1, <5>2
      <4>. HIDE DEF w, lo, hi
      <4>. QED
        BY <3>5, <4>2, <4>3, <4>4
    <3>. QED
      BY <3>4, <3>5
  <2>5. w \in Seq(V) /\ Len(w) = n
    <3>1. \A j \in 1 .. n : ring'[Nth(num + j - 1)] \in V
      BY <2>4
    <3>. QED
      BY <2>0, <3>1
  <2>. HIDE DEF lo, hi, w
  <2>6. /\ lo \o hi \in Seq(V) /\ Len(lo \o hi) = n
        /\ \A j \in 1 .. n : (lo \o hi)[j] = IF j <= skip THEN lo[j] ELSE hi[j - skip]
    <3>1. Len(lo) + Len(hi) = n
      BY <2>0, <2>2, <2>3
    <3>. HIDE DEF V, n, k
    <3>2. /\ lo \o hi \in Seq(V) /\ Len(lo \o hi) = Len(lo) + Len(hi)
          /\ \A j \in 1 .. Len(lo) + Len(hi) : (lo \o hi)[j] = IF j <= Len(lo) THEN lo[j] ELSE hi[j - Len(lo)]
      BY <2>2, <2>3, ConcatProperties
    <3>3. Len(lo) = skip
      BY <2>2
    <3>. QED
      BY <3>1, <3>2, <3>3
  <2>7. w = lo \o hi
    <3>. DEFINE z == lo \o hi
    <3>. HIDE DEF z
    <3>1. \A j \in 1 .. Len(w) : w[j] = z[j]
      BY <2>4, <2>5, <2>6 DEF z
    <3>. QED
      BY <2>5, <2>6, <3>1, SeqEqual DEF z
  <2>. QED
    BY <1>5, <2>1, <2>7 DEF lo, hi
<1>12. report[t] = <<>>
  BY DEF RefInv, RecvInv, RecvOf
<1>13. report' = [report EXCEPT ![t] = SubSeq(Queue, i, k)]
  BY <1>2, <1>10 DEF num
<1>14. i \in 1 .. Len(Queue) /\ k \in 1 .. Len(Queue)
  BY <1>5, <1>7
<1>. HIDE DEF i, k
<1>. QED
  BY <1>1, <1>8, <1>9, <1>11, <1>12, <1>13, <1>14 DEF Abstract!Take


(* Moving head over what was copied shows the receivers nothing new. *)
LEMMA DoneKeepsQueue ==
    ASSUME RefInv, QueueShape, QueueShape', NEW t \in Threads, CopyDone(t)
    PROVE  Queue' = Queue
<1>. DEFINE g == got[t]
<1>0. head \in Slots /\ tail \in Slots /\ DOMAIN pc = Wakers /\ t \in Wakers
  BY DEF RefInv, ControlTypeOK, Wakers
<1>1. /\ pc[t] = "done" /\ head' = (head + g) % Depth /\ tail' = tail /\ valid' = valid
      /\ ring' = [i \in Slots |-> IF (i - head) % Depth < g THEN NoCqe ELSE ring[i]]
      /\ pc' = [pc EXCEPT ![t] = "idle"]
  BY DEF CopyDone, Return, Goto
<1>2. valid /\ \A s \in Threads : pc'[s] # "done"
  BY <1>0, <1>1 DEF RefInv, MutexInv, Wakers
<1>3. g \in 0 .. Used /\ Used \in Nat /\ Used < Depth /\ Depth \in Nat
  <2>1. Used \in 0 .. Depth - 1 /\ Depth \in Nat
    BY <1>0, UsedFacts, DepthFacts
  <2>2. g \in 1 .. Used
    BY <1>1 DEF RefInv, RecvInv, RecvOf
  <2>. QED
    BY <2>1, <2>2
<1>4. Queue = Content(g)
  BY <1>1, <1>2 DEF QueueShape
<1>5. Queue' = Content(0)'
  BY <1>1, <1>2 DEF QueueShape
<1>. HIDE DEF g
<1>6. Used' = Used - g /\ \A k \in 0 .. Used - g - 1 : Nth(k)' = Nth(g + k)
  BY <1>0, <1>1, <1>3, DoneUsed
<1>7. Content(0)' = [i \in 1 .. Used' - 0 |-> ring'[Nth(0 + i - 1)']]
  BY DEF Content
<1>8. Used' - 0 = Used - g
  BY <1>3, <1>6
<1>9. ASSUME NEW i \in 1 .. Used - g PROVE ring'[Nth(0 + i - 1)'] = ring[Nth(g + i - 1)]
  <2>1. 0 + i - 1 \in 0 .. Used - g - 1 /\ g + (0 + i - 1) = g + i - 1
    BY <1>3
  <2>2. Nth(0 + i - 1)' = Nth(g + i - 1)
    BY <1>6, <2>1
  <2>3. g + i - 1 \in 0 .. Depth - 1 /\ ~(g + i - 1 < g)
    BY <1>3
  <2>4. (Nth(g + i - 1) - head) % Depth = g + i - 1 /\ Nth(g + i - 1) \in Slots
    BY <1>0, <2>3, NthMod
  <2>5. ring'[Nth(g + i - 1)] = ring[Nth(g + i - 1)]
    BY <1>1, <2>3, <2>4
  <2>. QED
    BY <2>2, <2>5
<1>. QED
  BY <1>4, <1>5, <1>7, <1>8, <1>9 DEF Content

(* Every step is one of the queue, or changes nothing its users see. *)
LEMMA StepIsQueueStep ==
    ASSUME RefInv, RefInv', QueueShape, QueueShape', [Next]_vars
    PROVE  [Abstract!Next]_(Abstract!vars)
<1>0. /\ DOMAIN pc = Wakers /\ DOMAIN req = Threads /\ DOMAIN got = Threads /\ DOMAIN report = Threads
      /\ \A t \in Threads : t \in Wakers /\ t \notin Producers /\ t # NoThread
  BY LogicCqAssumption DEF LogicCqAssumption, RefInv, ControlTypeOK, ReportInv, Wakers
<1>a. ASSUME UNCHANGED <<valid, ring, head, tail, got, req, report>>,
             \A s \in Threads : pc'[s] = "done" <=> pc[s] = "done"
      PROVE  UNCHANGED Abstract!vars
  <2>1. Queue' = Queue
    BY <1>a, SameQueue
  <2>. QED
    BY <1>a, <2>1 DEF Abstract!vars
(* A receive that ends without a copy in progress. *)
<1>b. ASSUME NEW t \in Threads, UNCHANGED <<valid, ring, head, tail, got, report>>,
             pc[t] \in RecvPcs \ {"done"}, pc' = [pc EXCEPT ![t] = "idle"],
             req' = [req EXCEPT ![t] = NoReq]
      PROVE  Abstract!Return(t)
  <2>1. \A s \in Threads : pc'[s] = "done" <=> pc[s] = "done"
    BY <1>0, <1>b
  <2>2. Queue' = Queue
    BY <1>b, <2>1, SameQueue
  <2>3. req[t] # NoReq /\ report[t] = <<>>
    BY <1>b DEF RefInv, RecvInv, RecvOf
  <2>4. report' = [report EXCEPT ![t] = <<>>]
    BY <1>b, <2>3, <1>0 DEF RefInv, ReportInv
  <2>. QED
    BY <1>b, <2>2, <2>3, <2>4 DEF Abstract!Return
<1>. USE DEF Goto
<1>1. ASSUME NEW p \in Producers, NEW c \in Cqes, Enque(p, c) PROVE Abstract!Next
  BY <1>1, EnqueAppends DEF Abstract!Next
<1>2. ASSUME NEW x \in Wakers,
             WakeupRead(x) \/ WakeupSet(x) \/ WakeupWake(x) \/ WakeupReordered(x) \/ WakeupLate(x)
      PROVE  UNCHANGED Abstract!vars
  <2>1. /\ UNCHANGED <<valid, ring, head, tail, got, req, report>>
        /\ \A s \in Threads : pc'[s] = "done" <=> pc[s] = "done"
    BY <1>0, <1>2 DEF WakeupRead, WakeupSet, WakeupWake, WakeupReordered, WakeupLate,
                      AfterWakeup, ringVars, callVars
  <2>. QED
    BY <1>a, <2>1
<1>3. ASSUME NEW t \in Threads, NEW r \in Requests, Recv(t, r) PROVE Abstract!Next
  <2>1. /\ UNCHANGED <<valid, ring, head, tail, got, report>> /\ req' = [req EXCEPT ![t] = r]
        /\ pc[t] = "idle" /\ \A s \in Threads : pc'[s] = "done" <=> pc[s] = "done"
    BY <1>0, <1>3 DEF Recv, ringVars
  <2>2. Queue' = Queue
    BY <2>1, SameQueue
  <2>3. req[t] = NoReq
    BY <2>1 DEF RefInv, RecvInv, RecvOf, RecvPcs
  <2>4. Abstract!Call(t, r)
    BY <2>1, <2>2, <2>3 DEF Abstract!Call
  <2>. QED
    BY <2>4 DEF Abstract!Next
<1>4. ASSUME NEW t \in Threads,
             Expired(t) \/ Interrupted(t) \/ AllocId(t) \/ InitFails(t) \/ Free(t) \/ FreeId(t)
      PROVE  UNCHANGED Abstract!vars
  <2>1. /\ UNCHANGED <<valid, ring, head, tail, got, req, report>>
        /\ \A s \in Threads : pc'[s] = "done" <=> pc[s] = "done"
    BY <1>0, <1>4 DEF Expired, Interrupted, AllocId, InitFails, Free, FreeId, ringVars, callVars
  <2>. QED
    BY <1>a, <2>1
<1>5. ASSUME NEW t \in Threads, CopyReport(t) PROVE Abstract!Next \/ UNCHANGED Abstract!vars
  <2>1. pc[t] = "copy" /\ UNCHANGED <<valid, ring, head, tail, got, report>>
    BY <1>5 DEF CopyReport, ringVars
  <2>2. \/ pc' = [pc EXCEPT ![t] = "idle"] /\ req' = [req EXCEPT ![t] = NoReq]
        \/ req' = req /\ \E l \in {"wait", "range"} : pc' = [pc EXCEPT ![t] = l]
    BY <1>5 DEF CopyReport, TryAgain, Return
  <2>3. CASE pc' = [pc EXCEPT ![t] = "idle"] /\ req' = [req EXCEPT ![t] = NoReq]
    <3>1. Abstract!Return(t)
      BY <1>b, <2>1, <2>3 DEF RecvPcs
    <3>. QED
      BY <3>1 DEF Abstract!Next
  <2>4. CASE req' = req /\ \E l \in {"wait", "range"} : pc' = [pc EXCEPT ![t] = l]
    <3>1. \A s \in Threads : pc'[s] = "done" <=> pc[s] = "done"
      BY <1>0, <2>1, <2>4
    <3>. QED
      BY <1>a, <2>1, <2>4, <3>1
  <2>. QED
    BY <2>2, <2>3, <2>4
<1>6. ASSUME NEW t \in Threads, CopyCqes(t) PROVE Abstract!Next \/ UNCHANGED Abstract!vars
  <2>. DEFINE x == CopyRange(req[t])
  <2>1. pc[t] = "range" /\ UNCHANGED <<valid, head, tail>>
    BY <1>6 DEF CopyCqes, ringVars
  <2>2. \/ /\ UNCHANGED <<ring, got, report>>
           /\ pc' = [pc EXCEPT ![t] = "idle"] /\ req' = [req EXCEPT ![t] = NoReq]
        \/ /\ UNCHANGED <<ring, got, report, req>>
           /\ \E l \in {"wait", "copy"} : pc' = [pc EXCEPT ![t] = l]
        \/ /\ x.num # 0 /\ ring' = Closed(x) /\ req' = req
           /\ report' = [report EXCEPT ![t] = [i \in 1 .. x.num |-> ring[x.start + i - 1]]]
           /\ got' = [got EXCEPT ![t] = x.num] /\ pc' = [pc EXCEPT ![t] = "done"]
    <3>. HIDE DEF x
    <3>. QED
      BY <1>6 DEF CopyCqes, TryAgain, Return, ringVars, Closed, x
  <2>3. CASE /\ UNCHANGED <<ring, got, report>>
             /\ pc' = [pc EXCEPT ![t] = "idle"] /\ req' = [req EXCEPT ![t] = NoReq]
    <3>1. Abstract!Return(t)
      BY <1>b, <2>1, <2>3 DEF RecvPcs
    <3>. QED
      BY <3>1 DEF Abstract!Next
  <2>4. CASE /\ UNCHANGED <<ring, got, report, req>>
             /\ \E l \in {"wait", "copy"} : pc' = [pc EXCEPT ![t] = l]
    <3>1. \A s \in Threads : pc'[s] = "done" <=> pc[s] = "done"
      BY <1>0, <2>1, <2>4
    <3>. QED
      BY <1>a, <2>1, <2>4, <3>1
  <2>5. CASE /\ x.num # 0 /\ ring' = Closed(x) /\ req' = req
             /\ report' = [report EXCEPT ![t] = [i \in 1 .. x.num |-> ring[x.start + i - 1]]]
             /\ got' = [got EXCEPT ![t] = x.num] /\ pc' = [pc EXCEPT ![t] = "done"]
    <3>1. got'[t] = x.num /\ pc'[t] = "done"
      BY <1>0, <2>5
    <3>2. Abstract!Take(t)
      BY <2>1, <2>5, <3>1, CopyTakesRun
    <3>. QED
      BY <3>2 DEF Abstract!Next
  <2>. HIDE DEF x
  <2>. QED
    BY <2>2, <2>3, <2>4, <2>5
<1>7. ASSUME NEW t \in Threads, CopyDone(t) PROVE Abstract!Next
  <2>1. Queue' = Queue
    BY <1>7, DoneKeepsQueue
  <2>2. /\ pc[t] = "done" /\ valid' = valid /\ req' = [req EXCEPT ![t] = NoReq]
        /\ report' = [report EXCEPT ![t] = <<>>]
    BY <1>7 DEF CopyDone, Return
  <2>3. req[t] # NoReq
    BY <2>2 DEF RefInv, RecvInv, RecvOf, RecvPcs
  <2>4. Abstract!Return(t)
    BY <2>1, <2>2, <2>3 DEF Abstract!Return
  <2>. QED
    BY <2>4 DEF Abstract!Next
<1>8. ASSUME NEW t \in Threads, Wait(t) PROVE Abstract!Next \/ UNCHANGED Abstract!vars
  <2>1. UNCHANGED <<valid, ring, head, tail, got, report>>
    BY <1>8 DEF Wait, WaitCount, PrepareToWait, WaitCheck, WaitTake, Awakened, FinishWait,
                WaitUncount, ringVars, callVars
  <2>2. \/ /\ pc[t] = "gone" /\ pc' = [pc EXCEPT ![t] = "idle"] /\ req' = [req EXCEPT ![t] = NoReq]
        \/ /\ req' = req /\ pc[t] # "done"
           /\ \E l \in RecvPcs \ {"done"} : pc' = [pc EXCEPT ![t] = l]
    BY <1>8 DEF Wait, WaitCount, PrepareToWait, WaitCheck, WaitTake, Awakened, FinishWait,
                WaitUncount, Return, callVars, RecvPcs
  <2>3. CASE pc[t] = "gone" /\ pc' = [pc EXCEPT ![t] = "idle"] /\ req' = [req EXCEPT ![t] = NoReq]
    <3>1. Abstract!Return(t)
      BY <1>b, <2>1, <2>3 DEF RecvPcs
    <3>. QED
      BY <3>1 DEF Abstract!Next
  <2>4. CASE /\ req' = req /\ pc[t] # "done"
             /\ \E l \in RecvPcs \ {"done"} : pc' = [pc EXCEPT ![t] = l]
    <3>1. \A s \in Threads : pc'[s] = "done" <=> pc[s] = "done"
      BY <1>0, <2>4
    <3>. QED
      BY <1>a, <2>1, <2>4, <3>1
  <2>. QED
    BY <2>2, <2>3, <2>4
<1>9. ASSUME NEW t \in Threads, InitQueue(t) PROVE Abstract!Next
  <2>1. ~valid /\ Queue = <<>>
    BY <1>9 DEF InitQueue, RefInv, OwnerInv, QueueShape
  <2>2. /\ valid' /\ UNCHANGED <<req, report>> /\ head' = 0 /\ tail' = 0
        /\ \A s \in Threads : pc'[s] # "done"
    BY <1>0, <1>9 DEF InitQueue, callVars, RefInv, MutexInv
  <2>3. Queue' = Content(0)'
    BY <2>2 DEF QueueShape
  <2>4. Content(0)' = [i \in 1 .. Used' - 0 |-> ring'[Nth(0 + i - 1)']] /\ Used' = 0
    BY <2>2 DEF Content, Used, Off
  <2>5. Queue' = <<>>
    <3>1. 1 .. Used' - 0 = {}
      BY <2>4
    <3>. QED
      BY <2>3, <2>4, <3>1
  <2>6. valid' = TRUE /\ valid = FALSE
    BY <1>9, <2>1 DEF InitQueue, RefInv, ControlTypeOK
  <2>7. Abstract!Open
    BY <2>1, <2>2, <2>5, <2>6 DEF Abstract!Open
  <2>. QED
    BY <2>7 DEF Abstract!Next
<1>10. ASSUME NEW t \in Threads, UninitLock(t) PROVE Abstract!Next \/ UNCHANGED Abstract!vars
  <2>1. valid' = FALSE /\ UNCHANGED <<req, report>> /\ valid \in BOOLEAN
    BY <1>10 DEF UninitLock, callVars, RefInv, ControlTypeOK
  <2>2. Queue' = <<>>
    BY <2>1 DEF QueueShape
  <2>3. CASE valid
    <3>1. Abstract!Close
      BY <2>1, <2>2, <2>3 DEF Abstract!Close
    <3>. QED
      BY <3>1 DEF Abstract!Next
  <2>4. CASE ~valid
    <3>1. Queue = <<>> /\ valid' = valid
      BY <2>1, <2>4 DEF QueueShape
    <3>. QED
      BY <2>1, <2>2, <3>1 DEF Abstract!vars
  <2>. QED
    BY <2>3, <2>4
<1>11. ASSUME NEW t \in Threads, UninitDone(t) PROVE UNCHANGED Abstract!vars
  <2>1. ~valid /\ valid' = valid /\ UNCHANGED <<req, report>>
    BY <1>11 DEF UninitDone, callVars, RefInv, MutexInv
  <2>2. Queue = <<>> /\ Queue' = <<>>
    BY <2>1 DEF QueueShape
  <2>. QED
    BY <2>1, <2>2 DEF Abstract!vars
<1>12. CASE UNCHANGED vars
  BY <1>a, <1>12 DEF vars, ringVars, callVars
<1>. QED
  <2>1. CASE Next
    BY <1>1, <1>2, <1>3, <1>4, <1>5, <1>6, <1>7, <1>8, <1>9, <1>10, <1>11, <2>1, NextCases DEF Threads, Wait
  <2>. QED
    BY <1>12, <2>1

(* For every depth, number of receivers, controllers and dispatchers and      *)
(* every mix of requests: the ring of trs_logic_cq.c, wrapped or not, copied  *)
(* from in the middle and closed up again while dispatchers append, behaves   *)
(* like the queue of TrsLogicQueue.                                           *)
THEOREM RingIsQueue == Spec => ImplementsQueue
<1>1. Init => Abstract!Init
  <2>. SUFFICES ASSUME Init PROVE Abstract!Init
    OBVIOUS
  <2>1. Queue = <<>>
    BY DEF Init, Queue
  <2>. QED
    BY <2>1 DEF Init, Abstract!Init
<1>2. RefInv => QueueShape
  BY QueueIs DEF RefInv
<1>3. RefInv /\ RefInv' /\ QueueShape /\ QueueShape' /\ [Next]_vars => [Abstract!Next]_(Abstract!vars)
  BY StepIsQueueStep
<1>. QED
  BY <1>1, <1>2, <1>3, RefInvariant, PTL DEF Spec, ImplementsQueue, Abstract!Spec


-----------------------------------------------------------------------------
(* What wakes the receivers. *)

(* The receive r may take the CQE c. *)
Takes(r, c) == r.version # 1 \/ (r.num # 0 /\ ~(c.match /\ c.task # r.task))

(* CopyRange finds something exactly when a slot in use holds a CQE that the  *)
(* receive may take.                                                          *)
ReadyShape ==
    \A r \in Requests :
        tail # head => (CopyRange(r).num # 0 <=> \E k \in 0 .. Used - 1 : Takes(r, ring[Nth(k)]))

(* It does. *)
LEMMA ReadyIs == head \in Slots /\ tail \in Slots => ReadyShape
<1>. SUFFICES ASSUME head \in Slots, tail \in Slots, NEW r \in Requests, tail # head
              PROVE  CopyRange(r).num # 0 <=> \E k \in 0 .. Used - 1 : Takes(r, ring[Nth(k)])
  BY DEF ReadyShape
<1>. DEFINE end == IF tail > head THEN tail ELSE Depth
            up  == MatchCopyRange(r, head, end)
            low == MatchCopyRange(r, 0, tail)
            x   == CopyRange(r)
<1>0. /\ head \in Nat /\ tail \in Nat /\ head < Depth /\ tail < Depth /\ Depth \in Nat
      /\ end \in Nat /\ head < end /\ end <= Depth /\ r.num \in Nat
  BY DepthFacts, LogicCqAssumption DEF LogicCqAssumption
<1>1. x = IF r.version # 1
          THEN [start |-> head, rollback |-> FALSE,
                num |-> IF tail > head THEN tail - head ELSE Depth - head]
          ELSE IF tail > head \/ up.num # 0
               THEN [start |-> up.start, num |-> up.num, rollback |-> FALSE]
               ELSE [start |-> low.start, num |-> low.num, rollback |-> TRUE]
  BY DEF CopyRange
<1>2. Used \in Nat /\ Used # 0
  BY <1>0 DEF Used, Off
<1>3. ASSUME x.num # 0 PROVE \E k \in 0 .. Used - 1 : Takes(r, ring[Nth(k)])
  <2>1. GoodRun(r, x)
    BY <1>3, CopyRangeFinds
  <2>. HIDE DEF x
  <2>2. /\ x.num \in Nat /\ Skipped(x) \in Nat /\ Skipped(x) + x.num <= Used
        /\ ~Reserves(r, Nth(Skipped(x)))
        /\ r.version = 1 => r.num # 0
    <3>1. /\ x.num \in Nat /\ Skipped(x) \in Nat /\ Skipped(x) + x.num <= Used
          /\ \A k \in Skipped(x) .. Skipped(x) + x.num - 1 : ~Reserves(r, Nth(k))
          /\ r.version = 1 => x.num <= r.num
      BY <2>1 DEF GoodRun
    <3>2. Skipped(x) \in Skipped(x) .. Skipped(x) + x.num - 1
      BY <1>3, <3>1
    <3>. QED
      BY <1>0, <1>3, <3>1, <3>2
  <2>3. Skipped(x) \in 0 .. Used - 1
    BY <1>2, <1>3, <2>2
  <2>4. Takes(r, ring[Nth(Skipped(x))])
    BY <2>2 DEF Takes, Reserves, Other
  <2>. QED
    BY <2>3, <2>4
<1>4. ASSUME x.num = 0, NEW k \in 0 .. Used - 1 PROVE ~Takes(r, ring[Nth(k)])
  <2>1. RunFound(r, head, end, up)
    <3>. HIDE DEF end
    <3>. QED
      BY <1>0, MatchRange
  <2>2. RunFound(r, 0, tail, low)
    <3>1. 0 \in Nat /\ 0 <= tail
      BY <1>0
    <3>. QED
      BY <1>0, <3>1, MatchRange
  <2>. HIDE DEF up, low
  <2>3. r.version = 1
    BY <1>0, <1>1, <1>4
  <2>4. up.num = 0 /\ (tail > head \/ low.num = 0)
    BY <1>0, <1>1, <1>4, <2>3
  <2>5. /\ r.num = 0 \/ \A i \in head .. end - 1 : Other(r, i)
        /\ tail > head \/ r.num = 0 \/ \A i \in 0 .. tail - 1 : Other(r, i)
    BY <2>1, <2>2, <2>4 DEF RunFound
  <2>6. Nth(k) \in head .. end - 1 \/ (~(tail > head) /\ Nth(k) \in 0 .. tail - 1)
    BY <1>0 DEF Nth, Used, Off
  <2>7. r.num = 0 \/ Other(r, Nth(k))
    BY <2>5, <2>6
  <2>. QED
    BY <2>3, <2>7 DEF Takes, Other
<1>. QED
  BY <1>3, <1>4

(* What a receive may copy depends on the ring and on its own parameters. *)
LEMMA ReadyUnchanged ==
    ASSUME NEW t, UNCHANGED <<valid, ring, head, tail>>, req'[t] = req[t]
    PROVE  Ready(t)' = Ready(t)
  BY DEF Ready, CopyRange, MatchCopyRange, IsEmpty

(* A copy by one receiver, with its holes closed up, gives no other receiver  *)
(* anything to take.                                                          *)
LEMMA CopyGivesNothing ==
    ASSUME RefInv, ReadyShape, ReadyShape',
           NEW s \in Threads, CopyCqes(s) \/ CopyDone(s),
           NEW t \in Threads, t # s, pc[t] \in RecvPcs, Ready(t)'
    PROVE  Ready(t)
<1>0. /\ head \in Slots /\ tail \in Slots /\ req[t] \in Requests /\ req'[t] = req[t]
      /\ Used \in Nat /\ Used < Depth /\ Depth \in Nat
  <2>1. head \in Slots /\ tail \in Slots /\ DOMAIN req = Threads
    BY DEF RefInv, ControlTypeOK
  <2>2. req[t] \in Requests
    BY DEF RefInv, ControlTypeOK, RecvInv, RecvOf
  <2>3. req'[t] = req[t]
    BY <2>1 DEF CopyCqes, CopyDone, TryAgain, Return
  <2>. QED
    BY <2>1, <2>2, <2>3, UsedFacts, DepthFacts
<1>. DEFINE r == req[t]
<1>1. ASSUME valid, tail # head, NEW k \in 0 .. Used - 1, Takes(r, ring[Nth(k)]) PROVE Ready(t)
  BY <1>0, <1>1 DEF ReadyShape, Ready, IsEmpty
<1>2. CASE ~valid
  BY <1>2 DEF Ready
<1>3. ASSUME valid, CopyCqes(s) PROVE Ready(t)
  <2>. DEFINE x == CopyRange(req[s])
  <2>1. CASE ring' = ring
    <3>1. UNCHANGED <<valid, ring, head, tail>>
      BY <1>3, <2>1 DEF CopyCqes, ringVars
    <3>. QED
      BY <1>0, <3>1, ReadyUnchanged
  <2>2. CASE ring' # ring
    <3>1. pc[s] = "range" /\ x.num # 0 /\ ring' = Closed(x) /\ UNCHANGED <<valid, head, tail>>
      BY <1>3, <2>2 DEF CopyCqes, ringVars, Closed
    <3>2. GoodRun(req[s], x) /\ ClosedUp(x)
      BY <3>1, CopyTakes DEF RefInv
    <3>. HIDE DEF x
    <3>3. x.num \in Nat /\ Skipped(x) \in Nat /\ Skipped(x) + x.num <= Used
      BY <3>2 DEF GoodRun
    <3>4. Used' = Used /\ \A k : Nth(k)' = Nth(k)
      BY <3>1 DEF Used, Off, Nth
    <3>5. tail # head /\ \E k \in 0 .. Used - 1 : Takes(r, ring'[Nth(k)])
      <4>1. tail' # head' /\ CopyRange(r)'.num # 0
        BY <1>0, <1>3, <3>1 DEF Ready, IsEmpty
      <4>2. \E k \in 0 .. Used' - 1 : Takes(r, ring'[Nth(k)'])
        BY <1>0, <4>1 DEF ReadyShape
      <4>. QED
        BY <3>1, <3>4, <4>1, <4>2
    <3>6. PICK k \in 0 .. Used - 1 : Takes(r, ring'[Nth(k)])
      BY <3>5
    <3>7. ring'[Nth(k)] = IF x.num <= k /\ k < x.num + Skipped(x) THEN ring[Nth(k - x.num)] ELSE ring[Nth(k)]
      <4>1. k \in 0 .. Depth - 1
        BY <1>0
      <4>. QED
        BY <3>1, <3>2, <4>1 DEF ClosedUp
    <3>8. CASE x.num <= k /\ k < x.num + Skipped(x)
      <4>1. k - x.num \in 0 .. Used - 1
        BY <1>0, <3>3, <3>8
      <4>. QED
        BY <1>1, <1>3, <3>5, <3>6, <3>7, <3>8, <4>1
    <3>9. CASE ~(x.num <= k /\ k < x.num + Skipped(x))
      BY <1>1, <1>3, <3>5, <3>6, <3>7, <3>9
    <3>. QED
      BY <3>8, <3>9
  <2>. QED
    BY <2>1, <2>2
<1>4. ASSUME valid, CopyDone(s) PROVE Ready(t)
  <2>. DEFINE g == got[s]
  <2>1. /\ g \in 1 .. Used /\ head' = (head + g) % Depth /\ UNCHANGED <<valid, tail>>
        /\ ring' = [i \in Slots |-> IF (i - head) % Depth < g THEN NoCqe ELSE ring[i]]
    BY <1>4 DEF CopyDone, RefInv, RecvInv, RecvOf
  <2>2. g \in 0 .. Used
    BY <2>1
  <2>. HIDE DEF g
  <2>3. /\ Used' = Used - g
        /\ \A k \in 0 .. Used - g - 1 : Nth(k)' = Nth(g + k)
    BY <1>0, <2>1, <2>2, DoneUsed
  <2>4. PICK k \in 0 .. Used' - 1 : Takes(r, ring'[Nth(k)'])
    <3>1. tail' # head' /\ CopyRange(r)'.num # 0
      BY <1>0, <1>4, <2>1 DEF Ready, IsEmpty
    <3>. QED
      BY <1>0, <3>1 DEF ReadyShape
  <2>5. k \in 0 .. Used - g - 1 /\ g + k \in 0 .. Used - 1 /\ g + k \in 0 .. Depth - 1 /\ g <= g + k
        /\ Used # 0
    BY <1>0, <2>1, <2>3, <2>4
  <2>6. (Nth(g + k) - head) % Depth = g + k /\ Nth(g + k) \in Slots
    BY <1>0, <2>5, NthMod
  <2>7. ring'[Nth(k)'] = ring[Nth(g + k)]
    BY <2>1, <2>3, <2>5, <2>6
  <2>8. tail # head
    BY <1>0, <2>5, DepthFacts DEF Used, Off
  <2>. QED
    BY <1>1, <1>4, <2>4, <2>5, <2>7, <2>8
<1>. QED
  BY <1>2, <1>3, <1>4


(* Initially nobody waits. *)
LEMMA WaitInit == Init => WaitInv /\ NoStrandedReceiver
  BY DEF Init, WaitInv, WaitShape, NeedsToken, WillFind, WillBeFound, NoStrandedReceiver, RecvPcs, Wakers, Threads

(* Only receivers are queued to sleep, and a waker has at least one thread to *)
(* wake.                                                                      *)
LEMMA WaitShapeStep == ControlTypeOK /\ WaitShape /\ [Next]_vars => WaitShape'
<1>. SUFFICES ASSUME ControlTypeOK, WaitShape, [Next]_vars PROVE WaitShape'
  OBVIOUS
<1>0. /\ DOMAIN pc = Wakers /\ DOMAIN wnum = Wakers
      /\ Threads \cap Producers = {}
      /\ Threads \subseteq Wakers /\ Controllers \subseteq Threads
      /\ Receivers \subseteq Threads /\ Producers \subseteq Wakers
  BY LogicCqAssumption DEF LogicCqAssumption, ControlTypeOK, Wakers, Threads
<1>. DEFINE Keeps == /\ waitq' \subseteq waitq \cup Receivers
                     /\ \A s \in Threads : pc'[s] \in RecvPcs => pc[s] \in RecvPcs \/ s \in Receivers
                     /\ \A x \in Wakers :
                          \/ pc'[x] = pc[x] /\ wnum'[x] = wnum[x]
                          \/ pc'[x] \notin {"w_set", "w_wake", "w_late"}
                          \/ /\ pc[x] = "w_set" /\ pc'[x] \in {"w_wake", "w_late"}
                             /\ wnum'[x] = wnum[x]
                          \/ pc'[x] = "w_set" /\ wnum'[x] >= 1
<1>. USE DEF RecvPcs, Goto
<1>1. ASSUME NEW p \in Producers, NEW c \in Cqes, Enque(p, c) PROVE Keeps
  BY <1>0, <1>1 DEF Enque, waitVars
<1>2. ASSUME NEW x \in Wakers, WakeupRead(x) PROVE Keeps
  <2>1. wnum'[x] >= 1 /\ pc'[x] = "w_set"
    BY <1>0, <1>2 DEF WakeupRead, ControlTypeOK
  <2>2. \A y \in Wakers \ {x} : pc'[y] = pc[y] /\ wnum'[y] = wnum[y]
    BY <1>0, <1>2 DEF WakeupRead
  <2>3. waitq' = waitq
    BY <1>2 DEF WakeupRead, waitVars
  <2>. QED
    BY <1>0, <2>1, <2>2, <2>3
<1>3. ASSUME NEW x \in Wakers, WakeupSet(x) \/ WakeupWake(x) PROVE Keeps
  BY <1>0, <1>3 DEF WakeupSet, WakeupWake, AfterWakeup
<1>4. ASSUME NEW x \in Wakers, WakeupReordered(x) \/ WakeupLate(x) PROVE Keeps
  BY <1>0, <1>4 DEF WakeupReordered, WakeupLate, AfterWakeup, waitVars
<1>5. ASSUME NEW t \in Receivers,
             \/ \E r \in Requests : Recv(t, r)
             \/ Expired(t) \/ Interrupted(t)
      PROVE  Keeps
  BY <1>0, <1>5 DEF Recv, Expired, Interrupted, waitVars
<1>6. ASSUME NEW t \in Threads, CopyReport(t) \/ CopyCqes(t) \/ CopyDone(t) PROVE Keeps
  BY <1>0, <1>6 DEF CopyReport, CopyCqes, CopyDone, TryAgain, Return, waitVars
<1>7. ASSUME NEW t \in Threads,
             \/ WaitCount(t) \/ PrepareToWait(t) \/ WaitCheck(t) \/ WaitTake(t)
             \/ Awakened(t) \/ FinishWait(t) \/ WaitUncount(t)
      PROVE  Keeps
  <2>1. t \in Receivers
    BY <1>7 DEF WaitCount, PrepareToWait, WaitCheck, WaitTake, Awakened, FinishWait,
                WaitUncount, WaitShape
  <2>. QED
    BY <1>0, <1>7, <2>1 DEF WaitCount, PrepareToWait, WaitCheck, WaitTake, Awakened,
                            FinishWait, WaitUncount, Return, waitVars
<1>8. ASSUME NEW t \in Controllers, AllocId(t) \/ InitFails(t) \/ Free(t) PROVE Keeps
  BY <1>0, <1>8 DEF AllocId, InitFails, Free, waitVars
<1>9. ASSUME NEW t \in Threads,
             InitQueue(t) \/ UninitLock(t) \/ UninitDone(t) \/ FreeId(t)
      PROVE  Keeps
  BY <1>0, <1>9 DEF InitQueue, UninitLock, UninitDone, FreeId, waitVars
<1>10. ASSUME UNCHANGED vars PROVE Keeps
  BY <1>10 DEF vars, waitVars
<1>11. Keeps => WaitShape'
  <2>. SUFFICES ASSUME Keeps PROVE WaitShape'
    OBVIOUS
  <2>1. waitq' \subseteq Receivers
    BY DEF WaitShape
  <2>2. \A t \in Threads : pc'[t] \in RecvPcs => t \in Receivers
    BY DEF WaitShape
  <2>3. \A x \in Wakers : pc'[x] \in {"w_set", "w_wake", "w_late"} => wnum'[x] >= 1
    BY DEF WaitShape
  <2>. QED
    BY <2>1, <2>2, <2>3 DEF WaitShape
<1>. HIDE DEF Keeps
<1>. QED
  BY <1>1, <1>2, <1>3, <1>4, <1>5, <1>6, <1>7, <1>8, <1>9, <1>10, <1>11, NextCases

(* A step that changes neither what receiver t waits for nor who wakes it. *)
LEMMA WaitQuiet ==
    ASSUME NEW t \in Receivers, WillFind(t), WillBeFound(t),
           wakeup_num' = wakeup_num, pc'[t] = pc[t],
           t \in waitq' => t \in waitq,
           pc[t] \in RecvPcs /\ Ready(t)' => Ready(t),
           \A x \in Wakers : pc[x] \in {"w_read", "w_set", "w_wake"} => pc'[x] = pc[x]
    PROVE  WillFind(t)' /\ WillBeFound(t)'
  BY DEF WillFind, NeedsToken, TokenComes, WillBeFound, RecvPcs

(* Every step but those of NotMissed keeps a wakeup on its way to a receiver  *)
(* that could return: before the receiver sleeps as a token or as a waker     *)
(* that will leave one, and while it sleeps as a waker that will look at the  *)
(* wait queue.                                                                *)
LEMMA WaitStep ==
    ASSUME RefInv, ReadyShape, ReadyShape', WaitInv, NoStrandedReceiver, Next, NotMissed
    PROVE  WaitInv' /\ NoStrandedReceiver'
<1>. SUFFICES ASSUME NEW t \in Receivers PROVE WillFind(t)' /\ WillBeFound(t)'
  BY WaitShapeStep DEF RefInv, WaitInv, NoStrandedReceiver
<1>0. /\ DOMAIN pc = Wakers /\ DOMAIN req = Threads
      /\ Threads \cap Producers = {}
      /\ Threads \subseteq Wakers /\ Controllers \subseteq Threads
      /\ Receivers \subseteq Threads /\ Producers \subseteq Wakers
      /\ t \in Threads /\ t \in Wakers
  BY LogicCqAssumption DEF LogicCqAssumption, RefInv, ControlTypeOK, Wakers, Threads
<1>01. WillFind(t) /\ WillBeFound(t) /\ WaitShape /\ wakeup_num \in Int
  BY DEF WaitInv, NoStrandedReceiver, RefInv, ControlTypeOK
<1>. USE DEF Goto
<1>1. ASSUME NEW p \in Producers, NEW c \in Cqes, Enque(p, c)
      PROVE  WillFind(t)' /\ WillBeFound(t)'
  <2>1. pc'[p] = "w_read"
    BY <1>0, <1>1 DEF Enque
  <2>. QED
    BY <1>0, <2>1 DEF WillFind, TokenComes, WillBeFound
<1>2. ASSUME NEW x \in Wakers, WakeupRead(x) PROVE WillFind(t)' /\ WillBeFound(t)'
  <2>1. pc'[x] = "w_set"
    BY <1>0, <1>2 DEF WakeupRead
  <2>. QED
    BY <1>0, <2>1 DEF WillFind, TokenComes, WillBeFound
<1>3. ASSUME NEW x \in Wakers, WakeupSet(x) PROVE WillFind(t)' /\ WillBeFound(t)'
  <2>1. pc'[x] = "w_wake" /\ wakeup_num' >= 1
    BY <1>0, <1>01, <1>3 DEF WakeupSet, WaitShape
  <2>. QED
    BY <1>0, <2>1 DEF WillFind, WillBeFound
<1>4. ASSUME NEW x \in Wakers, WakeupWake(x) PROVE WillFind(t)' /\ WillBeFound(t)'
  <2>1. /\ pc[x] = "w_wake"
        /\ \A y \in Wakers \ {x} : pc'[y] = pc[y]
        /\ pc'[x] \in {"f_fin", "idle"}
        /\ UNCHANGED <<valid, ring, head, tail, wakeup_num, req>>
    BY <1>0, <1>4 DEF WakeupWake, AfterWakeup, ringVars, callVars
  <2>2. Ready(t)' = Ready(t)
    BY <2>1, ReadyUnchanged
  <2>3. WillFind(t)'
    BY <1>0, <1>01, <2>1, <2>2 DEF WillFind, NeedsToken, TokenComes
  <2>4. ~(pc'[t] = "asleep" /\ t \in waitq' /\ Ready(t)')
    <3>1. ~(pc[t] = "asleep" /\ t \in waitq' /\ Ready(t))
      BY <1>4 DEF NotMissed, TooFewWoken
    <3>. QED
      BY <1>0, <2>1, <2>2, <3>1
  <2>. QED
    BY <2>3, <2>4 DEF WillBeFound
<1>5. ASSUME NEW x \in Wakers, WakeupReordered(x) PROVE WillFind(t)' /\ WillBeFound(t)'
  <2>1. /\ waitq' = {} /\ pc'[x] = "w_late"
        /\ \A y \in Wakers \ {x} : pc'[y] = pc[y]
        /\ UNCHANGED <<valid, ring, head, tail, wakeup_num, req>>
    BY <1>0, <1>5 DEF WakeupReordered, ringVars, callVars, waitVars
  <2>2. Ready(t)' = Ready(t)
    BY <2>1, ReadyUnchanged
  <2>3. ASSUME NeedsToken(t)' PROVE wakeup_num' >= 1
    <3>1. NeedsToken(t)
      BY <1>0, <2>1, <2>2, <2>3 DEF NeedsToken
    <3>2. ~(wakeup_num < 1)
      BY <1>5, <3>1 DEF NotMissed, LooksTooEarly
    <3>. QED
      BY <1>01, <2>1, <3>2
  <2>. QED
    BY <2>1, <2>3 DEF WillFind, WillBeFound
<1>6. ASSUME NEW x \in Wakers, WakeupLate(x) PROVE WillFind(t)' /\ WillBeFound(t)'
  <2>1. /\ pc[x] = "w_late" /\ pc'[x] \in {"f_fin", "idle"}
        /\ \A y \in Wakers \ {x} : pc'[y] = pc[y]
        /\ UNCHANGED <<valid, ring, head, tail, waitq, req>>
        /\ wakeup_num' >= 1
    BY <1>0, <1>01, <1>6 DEF WakeupLate, AfterWakeup, WaitShape, ringVars, callVars
  <2>2. Ready(t)' = Ready(t)
    BY <2>1, ReadyUnchanged
  <2>3. pc'[t] = "asleep" => pc[t] = "asleep"
    BY <1>0, <2>1
  <2>4. \A y \in Wakers : pc[y] \in {"w_read", "w_set", "w_wake"} => pc'[y] = pc[y]
    BY <2>1
  <2>. QED
    BY <1>01, <2>1, <2>2, <2>3, <2>4 DEF WillFind, WillBeFound
<1>7. ASSUME NEW s \in Threads, s # t,
             \/ s \in Receivers /\ \E r \in Requests : Recv(s, r)
             \/ s \in Receivers /\ (Expired(s) \/ Interrupted(s))
             \/ CopyReport(s) \/ CopyCqes(s) \/ CopyDone(s)
             \/ WaitCount(s) \/ PrepareToWait(s) \/ WaitCheck(s)
             \/ Awakened(s) \/ FinishWait(s) \/ WaitUncount(s)
      PROVE  WillFind(t)' /\ WillBeFound(t)'
  <2>1. /\ \A x \in Wakers \ {s} : pc'[x] = pc[x]
        /\ pc[s] \notin {"w_read", "w_set", "w_wake"}
        /\ wakeup_num' = wakeup_num
        /\ t \in waitq' => t \in waitq
    BY <1>0, <1>7 DEF Recv, Expired, Interrupted, CopyReport, CopyCqes, CopyDone, WaitCount,
       PrepareToWait, WaitCheck, Awakened, FinishWait, WaitUncount, TryAgain, Return, waitVars
  <2>2. pc[t] \in RecvPcs /\ Ready(t)' => Ready(t)
    <3>1. CASE CopyCqes(s) \/ CopyDone(s)
      BY <1>0, <1>7, <3>1, CopyGivesNothing
    <3>2. CASE ~(CopyCqes(s) \/ CopyDone(s))
      <4>1. UNCHANGED <<valid, ring, head, tail>> /\ req'[t] = req[t]
        BY <1>0, <1>7, <3>2 DEF Recv, Expired, Interrupted, CopyReport, WaitCount,
           PrepareToWait, WaitCheck, Awakened, FinishWait, WaitUncount, TryAgain, Return,
           ringVars, callVars
      <4>. QED
        BY <4>1, ReadyUnchanged
    <3>. QED
      BY <3>1, <3>2
  <2>3. pc'[t] = pc[t] /\ \A x \in Wakers : pc[x] \in {"w_read", "w_set", "w_wake"} => pc'[x] = pc[x]
    BY <1>0, <1>7, <2>1
  <2>. QED
    BY <1>01, <2>1, <2>2, <2>3, WaitQuiet
<1>8. ASSUME NEW s \in Threads, s # t, WaitTake(s) PROVE WillFind(t)' /\ WillBeFound(t)'
  <2>1. /\ \A x \in Wakers \ {s} : pc'[x] = pc[x]
        /\ pc[s] \notin {"w_read", "w_set", "w_wake"}
        /\ waitq' = waitq /\ wakeup_num' = wakeup_num - 1
        /\ UNCHANGED <<valid, ring, head, tail, req>>
    BY <1>0, <1>8 DEF WaitTake, ringVars, callVars
  <2>2. Ready(t)' = Ready(t)
    BY <2>1, ReadyUnchanged
  <2>3. \A x \in Wakers : pc[x] \in {"w_read", "w_set", "w_wake"} => pc'[x] = pc[x]
    BY <2>1
  <2>4. pc'[t] = pc[t]
    BY <1>0, <1>8, <2>1
  <2>5. ASSUME NeedsToken(t)' PROVE wakeup_num' >= 1 \/ TokenComes'
    <3>1. NeedsToken(t)
      BY <2>2, <2>4, <2>5 DEF NeedsToken
    <3>2. ~(wakeup_num' < 1) \/ TokenComes
      BY <1>8, <3>1 DEF NotMissed, TokenUsedUp
    <3>. QED
      BY <1>01, <2>1, <2>3, <3>2 DEF TokenComes
  <2>6. WillBeFound(t)'
    BY <1>01, <2>1, <2>2, <2>3, <2>4 DEF WillBeFound
  <2>. QED
    BY <2>5, <2>6 DEF WillFind
<1>9. ASSUME \/ \E r \in Requests : Recv(t, r)
             \/ Expired(t) \/ Interrupted(t) \/ CopyDone(t)
             \/ WaitTake(t) \/ Awakened(t) \/ FinishWait(t) \/ WaitUncount(t)
      PROVE  WillFind(t)' /\ WillBeFound(t)'
  <2>1. pc'[t] \in {"copy", "leave", "finish", "again", "gone", "idle"}
    BY <1>0, <1>9 DEF Recv, Expired, Interrupted, CopyDone, WaitTake, Awakened, FinishWait,
                      WaitUncount, Return
  <2>. QED
    BY <2>1 DEF WillFind, NeedsToken, WillBeFound
<1>10. ASSUME CopyReport(t) PROVE WillFind(t)' /\ WillBeFound(t)'
  <2>1. \/ pc'[t] \in {"idle", "range"}
        \/ pc'[t] = "wait" /\ valid /\ IsEmpty /\ UNCHANGED <<valid, head, tail>>
    BY <1>0, <1>10 DEF CopyReport, TryAgain, Return, ringVars
  <2>2. pc'[t] = "wait" => ~Ready(t)'
    BY <2>1 DEF Ready, IsEmpty
  <2>. QED
    BY <2>1, <2>2 DEF WillFind, NeedsToken, WillBeFound
<1>11. ASSUME CopyCqes(t) PROVE WillFind(t)' /\ WillBeFound(t)'
  <2>1. valid
    BY <1>0, <1>11 DEF CopyCqes, RefInv, MutexInv
  <2>2. \/ pc'[t] \in {"idle", "copy", "done"}
        \/ /\ pc'[t] = "wait" /\ CopyRange(req[t]).num = 0
           /\ UNCHANGED <<valid, ring, head, tail, req>>
    BY <1>0, <1>11 DEF CopyCqes, TryAgain, Return, ringVars
  <2>3. pc'[t] = "wait" => ~Ready(t)'
    <3>. SUFFICES ASSUME pc'[t] = "wait" PROVE ~Ready(t)'
      OBVIOUS
    <3>1. Ready(t)' = Ready(t)
      BY <2>2, ReadyUnchanged
    <3>. QED
      BY <2>1, <2>2, <3>1 DEF Ready
  <2>. QED
    BY <2>2, <2>3 DEF WillFind, NeedsToken, WillBeFound
<1>12. ASSUME WaitCount(t) \/ PrepareToWait(t) \/ WaitCheck(t)
       PROVE  WillFind(t)' /\ WillBeFound(t)'
  <2>1. /\ pc[t] \in {"wait", "prep", "check"}
        /\ \A x \in Wakers \ {t} : pc'[x] = pc[x]
        /\ UNCHANGED <<valid, ring, head, tail, wakeup_num, req>>
        /\ \/ pc'[t] \in {"prep", "check", "take"}
           \/ pc'[t] = "asleep" /\ ~(wakeup_num > 0)
    BY <1>0, <1>12 DEF WaitCount, PrepareToWait, WaitCheck, ringVars, waitVars, callVars
  <2>2. Ready(t)' = Ready(t)
    BY <2>1, ReadyUnchanged
  <2>3. \A x \in Wakers : pc[x] \in {"w_read", "w_set"} => pc'[x] = pc[x]
    BY <2>1
  <2>. QED
    BY <1>01, <2>1, <2>2, <2>3 DEF WillFind, NeedsToken, TokenComes, WillBeFound
<1>13. ASSUME NEW c \in Threads,
              AllocId(c) \/ InitFails(c) \/ Free(c) \/ UninitDone(c) \/ FreeId(c)
       PROVE  WillFind(t)' /\ WillBeFound(t)'
  <2>1. /\ \A x \in Wakers \ {c} : pc'[x] = pc[x]
        /\ pc[c] \in {"idle", "a_init", "f_fin", "f_id"}
        /\ pc'[c] \in {"a_init", "f_id", "f_lock", "idle"}
        /\ UNCHANGED <<valid, head, tail, wakeup_num, waitq, req>>
    BY <1>0, <1>13 DEF AllocId, InitFails, Free, UninitDone, FreeId, ringVars, waitVars, callVars
  <2>2. ring' = ring \/ ~valid
    BY <1>13 DEF AllocId, InitFails, Free, UninitDone, FreeId, ringVars, RefInv, MutexInv
  <2>3. Ready(t)' => Ready(t)
    <3>1. CASE ring' = ring
      BY <2>1, <3>1, ReadyUnchanged
    <3>2. CASE ~valid
      BY <3>2 DEF Ready
    <3>. QED
      BY <2>2, <3>1, <3>2
  <2>4. CASE c = t
    BY <2>1, <2>4 DEF WillFind, NeedsToken, TokenComes, WillBeFound
  <2>5. CASE c # t
    BY <1>0, <1>01, <2>1, <2>3, <2>5, WaitQuiet
  <2>. QED
    BY <2>4, <2>5
<1>14. ASSUME NEW c \in Threads, InitQueue(c) PROVE WillFind(t)' /\ WillBeFound(t)'
  <2>1. ~Ready(t)'
    BY <1>14 DEF InitQueue, Ready, IsEmpty
  <2>. QED
    BY <2>1 DEF WillFind, NeedsToken, TokenComes, WillBeFound
<1>15. ASSUME NEW c \in Threads, UninitLock(c) PROVE WillFind(t)' /\ WillBeFound(t)'
  <2>1. pc'[c] = "w_read"
    BY <1>0, <1>15 DEF UninitLock
  <2>. QED
    BY <1>0, <2>1 DEF WillFind, NeedsToken, TokenComes, WillBeFound
<1>. HIDE DEF Goto
<1>. QED
  BY <1>0, <1>1, <1>2, <1>3, <1>4, <1>5, <1>6, <1>7, <1>8, <1>9, <1>10, <1>11, <1>12, <1>13,
     <1>14, <1>15, NextCases

(* A step that changes nothing misses nobody. *)
LEMMA WaitStutter ==
    ASSUME UNCHANGED vars, WaitInv, NoStrandedReceiver
    PROVE  WaitInv' /\ NoStrandedReceiver'
<1>1. UNCHANGED <<valid, ring, head, tail, req, pc, waitq, wakeup_num, wnum>>
  BY DEF vars, ringVars, waitVars, callVars
<1>2. ASSUME NEW t \in Receivers PROVE WillFind(t)' /\ WillBeFound(t)'
  <2>1. Ready(t)' = Ready(t)
    BY <1>1, ReadyUnchanged
  <2>. QED
    BY <1>1, <2>1, WaitQuiet DEF WaitInv, NoStrandedReceiver
<1>3. WaitShape'
  BY <1>1 DEF WaitInv, WaitShape
<1>. QED
  BY <1>2, <1>3 DEF WaitInv, NoStrandedReceiver

(* With any number of receivers, dispatchers and controllers, and with the    *)
(* store to wakeup_num ordered before the look at the wait queue or not, a    *)
(* receiver sleeps through a completion or through the freeing of its queue   *)
(* only by one of three steps of trs_logic_cq.c: another receiver uses up the *)
(* last token, a waker looks at the wait queue before its token can be seen,  *)
(* or wake_up_nr stops at the number of threads counted when the waker began. *)
THEOREM NoLostWakeup == Spec /\ [][NotMissed]_vars => []NoStrandedReceiver
<1>1. Spec => []RefInv
  BY RefInvariant
<1>2. RefInv => ReadyShape
  BY ReadyIs DEF RefInv, ControlTypeOK
<1>3. Init => WaitInv /\ NoStrandedReceiver
  BY WaitInit
<1>4. ASSUME RefInv, ReadyShape, ReadyShape', WaitInv, NoStrandedReceiver, [Next]_vars, [NotMissed]_vars
      PROVE  WaitInv' /\ NoStrandedReceiver'
  BY <1>4, WaitStep, WaitStutter
<1>. QED
  BY <1>1, <1>2, <1>3, <1>4, PTL DEF Spec
=============================================================================
