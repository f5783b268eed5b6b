--------------------------- MODULE EnemySightProofs ---------------------------
(***************************************************************************)
(* Proofs about EnemySight: for any level, sizes and positions an agent is *)
(* told of exactly what is in the line of sight of its enemy.              *)
(*                                                                         *)
(* The code follows the segment from the enemy to a place and takes the    *)
(* part of it between each pair of borders; the geometry it should compute *)
(* looks at coordinates and corners.  A segment along an axis is in one    *)
(* strip throughout (StraightSight).  On a slanted one the code compares   *)
(* when the segment comes to the borders of either axis, and a corner is   *)
(* on the side of the axis that comes first (CornerSide, SlantedSight).    *)
(***************************************************************************)
EXTENDS EnemySight, TLAPS

-----------------------------------------------------------------------------
(* Arithmetic.                                                             *)

LEMMA Scaled ==
    ASSUME NEW m \in Int, NEW n \in Int, NEW k \in Nat \ {0}
    PROVE  /\ m * k \in Int /\ n * k \in Int
           /\ m < n <=> m * k < n * k
           /\ m <= n <=> m * k <= n * k
  <1>1. ASSUME NEW i \in Int, NEW j \in Int, i < j
        PROVE  i * k < j * k
    <2>1. (j - i) * k >= k
      BY <1>1
    <2>2. (j - i) * k = j * k - i * k
      OBVIOUS
    <2> QED  BY <2>1, <2>2
  <1>2. m * k \in Int /\ n * k \in Int
    OBVIOUS
  <1>3. m < n \/ m = n \/ n < m
    OBVIOUS
  <1>4. m < n => m * k < n * k
    BY <1>1
  <1>5. n < m => n * k < m * k
    BY <1>1
  <1> QED  BY <1>2, <1>3, <1>4, <1>5

LEMMA Divided ==
    ASSUME NEW m \in Nat \ {0}, NEW k \in Nat \ {0}
    PROVE  (m * k) \div m = k
  OBVIOUS

(* A number is its sign and its length.                                    *)
Sign(d) == IF d < 0 THEN -1 ELSE 1

LEMMA Signed ==
    ASSUME NEW d \in Int
    PROVE  /\ Length(d) \in Nat /\ Sign(d) \in {-1, 1}
           /\ d = Sign(d) * Length(d)
           /\ d # 0 => Length(d) > 0 /\ Larger(1, Length(d)) = Length(d)
           /\ d = 0 => Length(d) = 0 /\ Larger(1, Length(d)) = 1
  BY DEF Length, Sign, Larger

-----------------------------------------------------------------------------
(* One axis.                                                               *)

(* How far along a segment from a in direction s a border is, in units of  *)
(* which the segment has k to each of its own.                             *)
Border(at, a, k, s) == (at - a) * k * s

(* Where the segment enters and leaves a strip: for the strips in which it *)
(* spends a part of its length these are the two borders.                  *)
Crosses(a, b, low, high, k, unit) ==
    LET l == Border(low, a, k, Sign(b - a))
        h == Border(high, a, k, Sign(b - a)) IN
    /\ l \in Int /\ h \in Int
    /\ Crossing(a, b - a, low, high, unit) = <<Larger(0, Smaller(l, h)), Smaller(unit, Larger(l, h))>>
    /\ Smaller(l, h) < unit /\ Larger(l, h) > 0 <=> Overlap(a, b, low, high)

LEMMA CrossedStrip ==
    ASSUME NEW a \in Int, NEW b \in Int, a # b, NEW low \in Int, NEW high \in Int, low <= high,
           NEW k \in Nat \ {0}, NEW unit, unit = Length(b - a) * k
    PROVE  unit \in Nat \ {0} /\ Crosses(a, b, low, high, k, unit)
  <1> DEFINE d == b - a
             s == Sign(d)
             m == Length(d)
             L == (low - a) * k
             H == (high - a) * k
  <1>1. d \in Int /\ d # 0 /\ s \in {-1, 1} /\ m \in Nat \ {0} /\ d = s * m
    BY Signed
  <1>2. low - a \in Int /\ high - a \in Int /\ L \in Int /\ H \in Int
    OBVIOUS
  <1>3. unit = m * k /\ unit \in Nat \ {0} /\ unit \div m = k
    <2> HIDE DEF m
    <2>1. m * k \in Nat /\ m * k # 0 /\ (m * k) \div m = k
      BY <1>1, Divided
    <2> QED  BY <2>1 DEF m
  <1>4. /\ low - a < m <=> L < unit
        /\ -m < high - a <=> -unit < H
        /\ low - a < 0 <=> L < 0
        /\ 0 < high - a <=> 0 < H
        /\ L <= H
    <2> HIDE DEF m
    <2>1. 0 * k = 0 /\ (-m) * k = -unit
      BY <1>1, <1>3
    <2>2. low - a < m <=> L < m * k
      BY <1>1, <1>2, Scaled
    <2>3. -m < high - a <=> (-m) * k < H
      BY <1>1, <1>2, Scaled
    <2>4. low - a < 0 <=> L < 0 * k
      BY <1>2, Scaled
    <2>5. 0 < high - a <=> 0 * k < H
      BY <1>2, Scaled
    <2>6. L <= H
      BY <1>2, Scaled
    <2> QED  BY <1>3, <2>1, <2>2, <2>3, <2>4, <2>5, <2>6
  <1>5. Crossing(a, d, low, high, unit)
           = <<Larger(0, Smaller((low - a) * s * k, (high - a) * s * k)),
               Smaller(unit, Larger((low - a) * s * k, (high - a) * s * k))>>
    <2> HIDE DEF m
    <2>1. unit \div Length(d) = k
      BY <1>3 DEF m
    <2>2. s = IF d < 0 THEN -1 ELSE 1
      BY DEF Sign
    <2> HIDE DEF d
    <2> QED  BY <1>1, <2>1, <2>2 DEF Crossing
  <1>6. (low - a) * s * k = L * s /\ (high - a) * s * k = H * s
    BY <1>1, <1>2
  <1>7. L * s \in Int /\ H * s \in Int
    BY <1>1, <1>2
  <1>8. Smaller(L * s, H * s) < unit /\ Larger(L * s, H * s) > 0 <=> Overlap(a, b, low, high)
    <2> HIDE DEF L, H, m
    <2>1. CASE s = 1
      <3>1. L * s = L /\ H * s = H
        BY <1>2, <2>1
      <3>2. Smaller(L * s, H * s) = L /\ Larger(L * s, H * s) = H
        BY <1>2, <1>4, <3>1 DEF Smaller, Larger
      <3>3. a < b /\ b = a + m
        BY <1>1, <2>1
      <3>4. Overlap(a, b, low, high) <=> a < high /\ low < b
        BY <3>3 DEF Overlap, Smaller, Larger
      <3> QED  BY <1>1, <1>2, <1>4, <3>2, <3>3, <3>4
    <2>2. CASE s = -1
      <3>1. L * s = -L /\ H * s = -H
        BY <1>2, <2>2
      <3>2. Smaller(L * s, H * s) = -H /\ Larger(L * s, H * s) = -L
        BY <1>2, <1>4, <3>1 DEF Smaller, Larger
      <3>3. b < a /\ b = a - m
        BY <1>1, <2>2
      <3>4. Overlap(a, b, low, high) <=> b < high /\ low < a
        BY <3>3 DEF Overlap, Smaller, Larger
      <3> QED  BY <1>1, <1>2, <1>3, <1>4, <3>2, <3>3, <3>4
    <2> QED  BY <1>1, <2>1, <2>2
  <1> QED  BY <1>3, <1>5, <1>6, <1>7, <1>8 DEF Crosses, Border

(* A segment along a strip is in it throughout or never.                   *)
LEMMA AlongStrip ==
    ASSUME NEW a \in Int, NEW low \in Int, NEW high \in Int, NEW unit \in Nat \ {0}
    PROVE  /\ Overlap(a, a, low, high) => Crossing(a, a - a, low, high, unit) = <<0, unit>>
           /\ ~Overlap(a, a, low, high) => Crossing(a, a - a, low, high, unit) = <<unit, 0>>
  BY DEF Overlap, Crossing

-----------------------------------------------------------------------------
(* Both axes.                                                              *)

Point == Int \X Int
Rectangle == {o \in Int \X Int \X Int \X Int : o[1] <= o[3] /\ o[2] <= o[4]}

LEMMA Coordinates ==
    /\ \A a \in Point : a[1] \in Int /\ a[2] \in Int
    /\ \A o \in Rectangle : /\ o[1] \in Int /\ o[2] \in Int /\ o[3] \in Int /\ o[4] \in Int
                            /\ o[1] <= o[3] /\ o[2] <= o[4]
  BY DEF Point, Rectangle

(* What Blocks says of the two strips.                                     *)
LEMMA BlocksMeans ==
    ASSUME NEW o, NEW a, NEW b, NEW c1, NEW c2,
           c1 = Crossing(a[1], b[1] - a[1], o[1], o[3], Unit(a, b)),
           c2 = Crossing(a[2], b[2] - a[2], o[2], o[4], Unit(a, b))
    PROVE  Blocks(o, a, b) <=>
              /\ c1[1] <= c1[2] /\ c1[1] <= c2[2] /\ c2[1] <= c1[2] /\ c2[1] <= c2[2]
              /\ c1[1] < Unit(a, b) /\ c2[1] < Unit(a, b) /\ c1[2] > 0 /\ c2[2] > 0
  <1>1. 1 + 2 = 3 /\ 2 + 2 = 4
    OBVIOUS
  <1>2. Crossings(o, a, b) = {c1, c2}
    BY <1>1 DEF Crossings
  <1> QED  BY <1>2 DEF Blocks

(* The corners are not all on one side.                                    *)
Straddles(o, a, b) ==
    LET sides == {Side(a, b, <<o[i], o[j]>>) : i \in {1, 3}, j \in {2, 4}} IN
    ~(\A s \in sides : s > 0) /\ ~(\A s \in sides : s < 0)

LEMMA StraddlesMeans ==
    ASSUME NEW o, NEW a, NEW b, NEW p, NEW q, NEW r, NEW s,
           p = Side(a, b, <<o[1], o[2]>>), q = Side(a, b, <<o[1], o[4]>>),
           r = Side(a, b, <<o[3], o[2]>>), s = Side(a, b, <<o[3], o[4]>>)
    PROVE  Straddles(o, a, b) <=>
              ~(p > 0 /\ q > 0 /\ r > 0 /\ s > 0) /\ ~(p < 0 /\ q < 0 /\ r < 0 /\ s < 0)
  <1>1. {Side(a, b, <<o[i], o[j]>>) : i \in {1, 3}, j \in {2, 4}} = {p, q, r, s}
    OBVIOUS
  <1> QED  BY <1>1 DEF Straddles

LEMMA InTheWayMeans ==
    ASSUME NEW o, NEW a, NEW b
    PROVE  InTheWay(o, a, b) <=>
              /\ Overlap(a[1], b[1], o[1], o[3]) /\ Overlap(a[2], b[2], o[2], o[4])
              /\ Straddles(o, a, b)
  BY DEF InTheWay, Straddles

(* In units of the length of the segment, or any if it is along the strip. *)
InStrip(a, b, low, high, unit, c) ==
    /\ c[1] \in Int /\ c[2] \in Int /\ c[1] >= 0 /\ c[2] <= unit
    /\ Overlap(a, b, low, high) <=> c[1] < unit /\ c[2] > 0
    /\ Overlap(a, b, low, high) => c[1] <= c[2]
    /\ a = b /\ Overlap(a, b, low, high) => c[1] = 0 /\ c[2] = unit

LEMMA Strip ==
    ASSUME NEW a \in Int, NEW b \in Int, NEW low \in Int, NEW high \in Int, low <= high,
           NEW unit \in Nat \ {0}, a # b => unit = Length(b - a)
    PROVE  InStrip(a, b, low, high, unit, Crossing(a, b - a, low, high, unit))
  <1> DEFINE c == Crossing(a, b - a, low, high, unit)
  <1> SUFFICES InStrip(a, b, low, high, unit, c)
    OBVIOUS
  <1>1. CASE a = b
    <2>1. /\ Overlap(a, a, low, high) => Crossing(a, a - a, low, high, unit) = <<0, unit>>
          /\ ~Overlap(a, a, low, high) => Crossing(a, a - a, low, high, unit) = <<unit, 0>>
      BY AlongStrip
    <2>2. \/ c = <<0, unit>> /\ Overlap(a, b, low, high)
          \/ c = <<unit, 0>> /\ ~Overlap(a, b, low, high)
      BY <1>1, <2>1
    <2> HIDE DEF c
    <2> QED  BY <1>1, <2>2 DEF InStrip
  <1>2. CASE a # b
    <2> DEFINE len == Length(b - a)
               l == Border(low, a, 1, Sign(b - a))
               h == Border(high, a, 1, Sign(b - a))
    <2>1. 1 \in Nat \ {0} /\ unit = Length(b - a) * 1
      <3>1. len = unit
        BY <1>2
      <3> HIDE DEF len
      <3>2. unit = len * 1
        BY <3>1
      <3> QED  BY <3>2 DEF len
    <2>2. Crosses(a, b, low, high, 1, unit)
      BY ONLY <1>2, <2>1, a \in Int, b \in Int, low \in Int, high \in Int, low <= high, CrossedStrip
    <2>3. /\ l \in Int /\ h \in Int
          /\ c = <<Larger(0, Smaller(l, h)), Smaller(unit, Larger(l, h))>>
          /\ Smaller(l, h) < unit /\ Larger(l, h) > 0 <=> Overlap(a, b, low, high)
      BY <2>2 DEF Crosses
    <2> HIDE DEF c, l, h
    <2> QED  BY <1>2, <2>3 DEF Larger, Smaller, InStrip
  <1> QED  BY <1>1, <1>2

(* The segment is a point, or along one axis.                              *)
LEMMA StraightSight ==
    ASSUME NEW a \in Point, NEW b \in Point, a[1] = b[1] \/ a[2] = b[2], NEW o \in Rectangle
    PROVE  Blocks(o, a, b) <=> InTheWay(o, a, b)
  <1> DEFINE U == Unit(a, b)
             c1 == Crossing(a[1], b[1] - a[1], o[1], o[3], U)
             c2 == Crossing(a[2], b[2] - a[2], o[2], o[4], U)
             in1 == Overlap(a[1], b[1], o[1], o[3])
             in2 == Overlap(a[2], b[2], o[2], o[4])
  <1>1. /\ a[1] \in Int /\ a[2] \in Int /\ b[1] \in Int /\ b[2] \in Int
        /\ o[1] \in Int /\ o[2] \in Int /\ o[3] \in Int /\ o[4] \in Int
        /\ o[1] <= o[3] /\ o[2] <= o[4]
    BY Coordinates
  <1>3. U \in Nat \ {0} /\ (a[1] # b[1] => U = Length(b[1] - a[1]))
        /\ (a[2] # b[2] => U = Length(b[2] - a[2]))
    <2> DEFINE m == b[1] - a[1]
               n == b[2] - a[2]
    <2>1. m \in Int /\ n \in Int /\ (m = 0 <=> a[1] = b[1]) /\ (n = 0 <=> a[2] = b[2])
      BY <1>1
    <2>2. U = Larger(1, Length(m)) * Larger(1, Length(n))
      BY DEF Unit
    <2> HIDE DEF m, n, U
    <2>3. /\ Length(m) \in Nat /\ Length(n) \in Nat
          /\ m # 0 => Length(m) > 0 /\ Larger(1, Length(m)) = Length(m)
          /\ m = 0 => Larger(1, Length(m)) = 1
          /\ n # 0 => Length(n) > 0 /\ Larger(1, Length(n)) = Length(n)
          /\ n = 0 => Larger(1, Length(n)) = 1
      BY <2>1, Signed
    <2>4. m = 0 \/ n = 0
      BY <2>1
    <2>5. CASE m = 0
      <3>1. U = Larger(1, Length(n)) /\ U \in Nat \ {0}
        BY <2>2, <2>3, <2>5
      <3> QED  BY <2>1, <2>3, <2>5, <3>1 DEF m, n
    <2>6. CASE n = 0
      <3>1. U = Larger(1, Length(m)) /\ U \in Nat \ {0}
        BY <2>2, <2>3, <2>6
      <3> QED  BY <2>1, <2>3, <2>6, <3>1 DEF m, n
    <2> QED  BY <2>4, <2>5, <2>6
  <1> HIDE DEF U
  <1>4. /\ c1[1] \in Int /\ c1[2] \in Int /\ c1[1] >= 0 /\ c1[2] <= U
        /\ in1 <=> c1[1] < U /\ c1[2] > 0
        /\ in1 => c1[1] <= c1[2]
        /\ a[1] = b[1] /\ in1 => c1[1] = 0 /\ c1[2] = U
    <2>1. InStrip(a[1], b[1], o[1], o[3], U, c1)
      BY ONLY <1>1, <1>3, Strip
    <2> HIDE DEF c1, in1
    <2> QED  BY ONLY <2>1 DEF InStrip, in1
  <1>5. /\ c2[1] \in Int /\ c2[2] \in Int /\ c2[1] >= 0 /\ c2[2] <= U
        /\ in2 <=> c2[1] < U /\ c2[2] > 0
        /\ in2 => c2[1] <= c2[2]
        /\ a[2] = b[2] /\ in2 => c2[1] = 0 /\ c2[2] = U
    <2>1. InStrip(a[2], b[2], o[2], o[4], U, c2)
      BY ONLY <1>1, <1>3, Strip
    <2> HIDE DEF c2, in2
    <2> QED  BY ONLY <2>1 DEF InStrip, in2
  <1>6. Blocks(o, a, b) <=>
              /\ c1[1] <= c1[2] /\ c1[1] <= c2[2] /\ c2[1] <= c1[2] /\ c2[1] <= c2[2]
              /\ c1[1] < U /\ c2[1] < U /\ c1[2] > 0 /\ c2[2] > 0
    BY BlocksMeans DEF U
  <1> HIDE DEF c1, c2
  <1>7. Blocks(o, a, b) <=> in1 /\ in2
    <2> HIDE DEF in1, in2
    <2> QED  BY <1>3, <1>4, <1>5, <1>6
  <1>8. in1 /\ in2 => Straddles(o, a, b)
    <2> SUFFICES ASSUME in1, in2
                 PROVE  Straddles(o, a, b)
      OBVIOUS
    <2> DEFINE m == b[1] - a[1]
               n == b[2] - a[2]
    <2>1. m \in Int /\ n \in Int /\ (m = 0 <=> a[1] = b[1]) /\ (n = 0 <=> a[2] = b[2])
      BY <1>1
    <2>2. ASSUME NEW i \in {o[1], o[3]}, NEW j \in {o[2], o[4]}
          PROVE  Side(a, b, <<i, j>>) = m * (j - a[2]) - n * (i - a[1])
      BY DEF Side
    <2>3. /\ m = 0 => o[1] <= a[1] /\ a[1] <= o[3]
          /\ n = 0 => o[2] <= a[2] /\ a[2] <= o[4]
      BY <1>1, <2>1 DEF Overlap
    <2>4. ASSUME NEW x1 \in Int, NEW y1 \in Int, NEW k \in Int, x1 <= 0, y1 >= 0
          PROVE  /\ x1 * k \in Int /\ y1 * k \in Int
                 /\ (x1 * k <= 0 /\ y1 * k >= 0) \/ (x1 * k >= 0 /\ y1 * k <= 0)
      BY <2>4
    <2> HIDE DEF m, n
    <2>5. CASE m = 0
      <3>1. ASSUME NEW i \in {o[1], o[3]}, NEW j \in {o[2], o[4]}
            PROVE  Side(a, b, <<i, j>>) = (i - a[1]) * (-n)
        <4>1. m * (j - a[2]) = 0 /\ n * (i - a[1]) \in Int
          BY <1>1, <2>1, <2>5
        <4>2. 0 - n * (i - a[1]) = (i - a[1]) * (-n)
          BY <1>1, <2>1
        <4> QED  BY <2>2, <4>1, <4>2
      <3> DEFINE f == (o[1] - a[1]) * (-n)
                 g == (o[3] - a[1]) * (-n)
      <3>2. (f <= 0 /\ g >= 0) \/ (f >= 0 /\ g <= 0)
        BY <1>1, <2>1, <2>3, <2>4, <2>5
      <3>3. f \in Int /\ g \in Int
        BY <1>1, <2>1
      <3>4. /\ f = Side(a, b, <<o[1], o[2]>>) /\ f = Side(a, b, <<o[1], o[4]>>)
            /\ g = Side(a, b, <<o[3], o[2]>>) /\ g = Side(a, b, <<o[3], o[4]>>)
        BY <3>1
      <3> HIDE DEF f, g
      <3>5. Straddles(o, a, b) <=>
               ~(f > 0 /\ f > 0 /\ g > 0 /\ g > 0) /\ ~(f < 0 /\ f < 0 /\ g < 0 /\ g < 0)
        BY <3>4, StraddlesMeans
      <3> QED  BY <3>2, <3>3, <3>5
    <2>6. CASE n = 0
      <3>1. ASSUME NEW i \in {o[1], o[3]}, NEW j \in {o[2], o[4]}
            PROVE  Side(a, b, <<i, j>>) = (j - a[2]) * m
        BY <1>1, <2>1, <2>2, <2>6, <3>1
      <3> DEFINE f == (o[2] - a[2]) * m
                 g == (o[4] - a[2]) * m
      <3>2. (f <= 0 /\ g >= 0) \/ (f >= 0 /\ g <= 0)
        BY <1>1, <2>1, <2>3, <2>4, <2>6
      <3>3. f \in Int /\ g \in Int
        BY <1>1, <2>1
      <3>4. /\ f = Side(a, b, <<o[1], o[2]>>) /\ g = Side(a, b, <<o[1], o[4]>>)
            /\ f = Side(a, b, <<o[3], o[2]>>) /\ g = Side(a, b, <<o[3], o[4]>>)
        BY <3>1
      <3> HIDE DEF f, g
      <3>5. Straddles(o, a, b) <=>
               ~(f > 0 /\ g > 0 /\ f > 0 /\ g > 0) /\ ~(f < 0 /\ g < 0 /\ f < 0 /\ g < 0)
        BY <3>4, StraddlesMeans
      <3> QED  BY <3>2, <3>3, <3>5
    <2> QED  BY <2>1, <2>5, <2>6
  <1> QED  BY <1>7, <1>8, InTheWayMeans

(* Which side of the line a corner is on: the one axis brings the segment  *)
(* to it before the other, after it, or at the same place.                 *)
LEMMA CornerSide ==
    ASSUME NEW a \in Point, NEW b \in Point, NEW i \in Int, NEW j \in Int,
           NEW m, NEW n, NEW s, NEW t,
           m = Length(b[1] - a[1]), n = Length(b[2] - a[2]),
           s = Sign(b[1] - a[1]), t = Sign(b[2] - a[2])
    PROVE  LET later == Border(j, a[2], m, t) - Border(i, a[1], n, s) IN
           /\ s = t => Side(a, b, <<i, j>>) = later
           /\ s # t => Side(a, b, <<i, j>>) = -later
  <1> DEFINE P == (j - a[2]) * m
             Q == (i - a[1]) * n
             dx == b[1] - a[1]
             dy == b[2] - a[2]
  <1>1. a[1] \in Int /\ a[2] \in Int /\ b[1] \in Int /\ b[2] \in Int
    BY Coordinates
  <1>2. /\ m \in Nat /\ n \in Nat /\ s \in {-1, 1} /\ t \in {-1, 1}
        /\ dx = s * m /\ dy = t * n
    <2>1. dx \in Int /\ dy \in Int
      BY <1>1
    <2> HIDE DEF dx, dy
    <2>2. m = Length(dx) /\ n = Length(dy) /\ s = Sign(dx) /\ t = Sign(dy)
      BY DEF dx, dy
    <2> QED  BY <2>1, <2>2, Signed
  <1>3. Side(a, b, <<i, j>>) = dx * (j - a[2]) - dy * (i - a[1])
    BY DEF Side
  <1>4. Border(j, a[2], m, t) = P * t /\ Border(i, a[1], n, s) = Q * s
    BY DEF Border
  <1>5. /\ P \in Int /\ Q \in Int
        /\ s = 1 => dx * (j - a[2]) = P /\ Q * s = Q
        /\ s = -1 => dx * (j - a[2]) = -P /\ Q * s = -Q
        /\ t = 1 => dy * (i - a[1]) = Q /\ P * t = P
        /\ t = -1 => dy * (i - a[1]) = -Q /\ P * t = -P
    <2> HIDE DEF dx, dy
    <2>1. P \in Int /\ Q \in Int
      BY <1>1, <1>2
    <2>2. m * (j - a[2]) = P /\ (-m) * (j - a[2]) = -P
      BY <1>1, <1>2
    <2>3. n * (i - a[1]) = Q /\ (-n) * (i - a[1]) = -Q
      BY <1>1, <1>2
    <2>4. /\ s = 1 => dx = m
          /\ s = -1 => dx = -m
          /\ t = 1 => dy = n
          /\ t = -1 => dy = -n
      BY <1>2
    <2> HIDE DEF P, Q
    <2> QED  BY <2>1, <2>2, <2>3, <2>4
  <1> HIDE DEF P, Q, dx, dy
  <1>6. CASE s = 1
    BY <1>2, <1>3, <1>4, <1>5, <1>6
  <1>7. CASE s = -1
    BY <1>2, <1>3, <1>4, <1>5, <1>7
  <1> QED  BY <1>2, <1>6, <1>7

LEMMA SlantedSight ==
    ASSUME NEW a \in Point, NEW b \in Point, a[1] # b[1], a[2] # b[2], NEW o \in Rectangle
    PROVE  Blocks(o, a, b) <=> InTheWay(o, a, b)
  <1> DEFINE m == Length(b[1] - a[1])
             n == Length(b[2] - a[2])
             s == Sign(b[1] - a[1])
             t == Sign(b[2] - a[2])
             U == Unit(a, b)
             c1 == Crossing(a[1], b[1] - a[1], o[1], o[3], U)
             c2 == Crossing(a[2], b[2] - a[2], o[2], o[4], U)
             in1 == Overlap(a[1], b[1], o[1], o[3])
             in2 == Overlap(a[2], b[2], o[2], o[4])
             l1 == Border(o[1], a[1], n, s)
             h1 == Border(o[3], a[1], n, s)
             l2 == Border(o[2], a[2], m, t)
             h2 == Border(o[4], a[2], m, t)
  <1>1. /\ a[1] \in Int /\ a[2] \in Int /\ b[1] \in Int /\ b[2] \in Int
        /\ o[1] \in Int /\ o[2] \in Int /\ o[3] \in Int /\ o[4] \in Int
        /\ o[1] <= o[3] /\ o[2] <= o[4]
    BY Coordinates
  <1>2. m \in Nat \ {0} /\ n \in Nat \ {0} /\ U = m * n /\ U = n * m
    <2> DEFINE dx == b[1] - a[1]
               dy == b[2] - a[2]
    <2>1. dx \in Int /\ dy \in Int /\ dx # 0 /\ dy # 0
      BY <1>1
    <2> HIDE DEF dx, dy
    <2>2. /\ Length(dx) \in Nat \ {0} /\ Larger(1, Length(dx)) = Length(dx)
          /\ Length(dy) \in Nat \ {0} /\ Larger(1, Length(dy)) = Length(dy)
      BY <2>1, Signed
    <2>3. Unit(a, b) = Length(dx) * Length(dy)
      BY <2>2 DEF Unit, dx, dy
    <2>4. Length(dx) * Length(dy) = Length(dy) * Length(dx)
      BY <2>2
    <2> QED  BY <2>2, <2>3, <2>4 DEF dx, dy
  <1>3. U \in Nat \ {0} /\ Crosses(a[1], b[1], o[1], o[3], n, U)
    <2>1. U = Length(b[1] - a[1]) * n
      BY <1>2
    <2> HIDE DEF U, n
    <2> QED  BY <1>1, <1>2, <2>1, CrossedStrip
  <1>4. Crosses(a[2], b[2], o[2], o[4], m, U)
    <2>1. U = Length(b[2] - a[2]) * m
      BY <1>2
    <2> HIDE DEF U, m
    <2> QED  BY <1>1, <1>2, <2>1, CrossedStrip
  <1>5. /\ l1 \in Int /\ h1 \in Int
        /\ c1 = <<Larger(0, Smaller(l1, h1)), Smaller(U, Larger(l1, h1))>>
        /\ Smaller(l1, h1) < U /\ Larger(l1, h1) > 0 <=> in1
    BY <1>3 DEF Crosses
  <1>6. /\ l2 \in Int /\ h2 \in Int
        /\ c2 = <<Larger(0, Smaller(l2, h2)), Smaller(U, Larger(l2, h2))>>
        /\ Smaller(l2, h2) < U /\ Larger(l2, h2) > 0 <=> in2
    BY <1>4 DEF Crosses
  <1>7. Blocks(o, a, b) <=>
              /\ c1[1] <= c1[2] /\ c1[1] <= c2[2] /\ c2[1] <= c1[2] /\ c2[1] <= c2[2]
              /\ c1[1] < U /\ c2[1] < U /\ c1[2] > 0 /\ c2[2] > 0
    BY BlocksMeans
  <1> DEFINE p == Side(a, b, <<o[1], o[2]>>)
             q == Side(a, b, <<o[1], o[4]>>)
             r == Side(a, b, <<o[3], o[2]>>)
             u == Side(a, b, <<o[3], o[4]>>)
  <1>8. Straddles(o, a, b) <=>
           ~(p > 0 /\ q > 0 /\ r > 0 /\ u > 0) /\ ~(p < 0 /\ q < 0 /\ r < 0 /\ u < 0)
    BY StraddlesMeans
  <1>9. ASSUME NEW i \in Int, NEW j \in Int
        PROVE  LET later == Border(j, a[2], m, t) - Border(i, a[1], n, s) IN
               /\ s = t => Side(a, b, <<i, j>>) = later
               /\ s # t => Side(a, b, <<i, j>>) = -later
    BY CornerSide
  <1> HIDE DEF m, n, s, t
  <1>10. /\ s = t => p = l2 - l1 /\ q = h2 - l1 /\ r = l2 - h1 /\ u = h2 - h1
         /\ s # t => p = -(l2 - l1) /\ q = -(h2 - l1) /\ r = -(l2 - h1) /\ u = -(h2 - h1)
    BY <1>1, <1>9
  <1> HIDE DEF U, c1, c2, in1, in2, l1, h1, l2, h2, p, q, r, u
  <1>11. Blocks(o, a, b) <=> /\ in1 /\ in2
                             /\ Smaller(l1, h1) <= Larger(l2, h2)
                             /\ Smaller(l2, h2) <= Larger(l1, h1)
    <2> DEFINE n1 == Smaller(l1, h1)
               x1 == Larger(l1, h1)
               n2 == Smaller(l2, h2)
               x2 == Larger(l2, h2)
    <2>1. n1 \in Int /\ x1 \in Int /\ n2 \in Int /\ x2 \in Int /\ n1 <= x1 /\ n2 <= x2
      BY <1>5, <1>6 DEF Larger, Smaller
    <2> HIDE DEF n1, x1, n2, x2
    <2>2. /\ c1[1] = Larger(0, n1) /\ c1[2] = Smaller(U, x1)
          /\ c2[1] = Larger(0, n2) /\ c2[2] = Smaller(U, x2)
      BY <1>5, <1>6 DEF n1, x1, n2, x2
    <2>3. (n1 < U /\ x1 > 0 <=> in1) /\ (n2 < U /\ x2 > 0 <=> in2)
      BY <1>5, <1>6 DEF n1, x1, n2, x2
    <2>4. Blocks(o, a, b) <=> in1 /\ in2 /\ n1 <= x2 /\ n2 <= x1
      BY <1>3, <1>7, <2>1, <2>2, <2>3 DEF Larger, Smaller
    <2> QED  BY <2>4 DEF n1, x1, n2, x2
  <1>12. Straddles(o, a, b) <=> /\ Smaller(l1, h1) <= Larger(l2, h2)
                                /\ Smaller(l2, h2) <= Larger(l1, h1)
    <2>1. CASE s = t
      BY <1>5, <1>6, <1>8, <1>10, <2>1 DEF Larger, Smaller
    <2>2. CASE s # t
      BY <1>5, <1>6, <1>8, <1>10, <2>2 DEF Larger, Smaller
    <2> QED  BY <2>1, <2>2
  <1> QED  BY <1>11, <1>12, InTheWayMeans DEF in1, in2

(* _segment_rectangle_intersection and what _has_clear_line makes of it    *)
(* find exactly the rectangles that are in the way.                        *)
LEMMA SightIsGeometry ==
    ASSUME NEW a \in Point, NEW b \in Point, NEW o \in Rectangle
    PROVE  Blocks(o, a, b) <=> InTheWay(o, a, b)
  BY StraightSight, SlantedSight

-----------------------------------------------------------------------------
(* The state.                                                              *)
SightTypes ==
    /\ place \in [Player -> Place]
    /\ x \in Int /\ vx \in {-1, 1}
    /\ standing \subseteq BlockPlaces

(* The nearest of those that are seen is one of them.                      *)
LEMMA NearestSeen ==
    ASSUME SightTypes
    PROVE  TargetPlayer \in Player \cup {Nobody}
  <1> DEFINE seen == VisiblePlayers
             away(p) == Distance2(place[p], <<x, EnemyY>>)
             Chosen(p) == \A q \in seen \ {p} :
                             away(p) < away(q) \/ (away(p) = away(q) /\ p < q)
  <1>1. seen \subseteq Player /\ TargetPlayer = Nearest[seen]
    BY DEF VisiblePlayers, TargetPlayer
  <1> HIDE DEF seen
  <1>2. TargetPlayer = IF seen = {} THEN Nobody ELSE CHOOSE p \in seen : Chosen(p)
    BY <1>1 DEF Nearest
  <1>3. seen # {} => \E p \in seen : Chosen(p)
    <2>1. away(1) \in Int /\ away(2) \in Int
      <3>1. \A p \in Player : place[p][1] \in Int /\ place[p][2] \in Int
        <4>1. \A c \in Place : c[1] \in Int /\ c[2] \in Int
          BY LengthAssumption DEF Place
        <4> QED  BY <4>1 DEF SightTypes
      <3>2. x \in Int /\ EnemyY \in Int
        BY LevelAssumption DEF SightTypes
      <3>3. \A p \in Player : Distance2(place[p], <<x, EnemyY>>) \in Int
        BY <3>1, <3>2 DEF Distance2, Sq
      <3> QED  BY <3>3 DEF Player
    <2> HIDE DEF away
    <2>2. CASE seen = {1}
      BY <2>2
    <2>3. CASE seen = {2}
      BY <2>3
    <2>4. CASE seen = {1, 2}
      <3>1. away(1) <= away(2) \/ away(2) < away(1)
        BY <2>1
      <3>2. CASE away(1) <= away(2)
        <4>1. Chosen(1)
          BY <2>1, <2>4, <3>2
        <4> QED  BY <2>4, <4>1
      <3>3. CASE away(2) < away(1)
        <4>1. Chosen(2)
          BY <2>1, <2>4, <3>3
        <4> QED  BY <2>4, <4>1
      <3> QED  BY <3>1, <3>2, <3>3
    <2>5. seen = {} \/ seen = {1} \/ seen = {2} \/ seen = {1, 2}
      BY <1>1 DEF Player
    <2> QED  BY <2>2, <2>3, <2>4, <2>5
  <1> HIDE DEF Chosen
  <1> QED  BY <1>1, <1>2, <1>3

LEMMA SightStarts == Init => SightTypes
  <1>1. <<0, 0>> \in Place
    BY LengthAssumption DEF Place
  <1>2. LeftBound \in Int
    BY LevelAssumption
  <1> QED  BY <1>1, <1>2 DEF Init, SightTypes

LEMMA SightKeeps ==
    ASSUME SightTypes, [Next]_vars
    PROVE  SightTypes'
  <1> USE DEF SightTypes
  <1>1. CASE Tick
    <2>1. PICK velocity \in {IF pursuing THEN Toward[TargetPlayer] ELSE vx} \ {0} :
             /\ x' = Larger(LeftBound, Smaller(RightBound - EnemySize, x + velocity))
             /\ vx' = IF x + velocity \in LeftBound..(RightBound - EnemySize)
                      THEN velocity ELSE -velocity
             /\ UNCHANGED <<place, standing, pursuing>>
      BY <1>1 DEF Tick
    <2>2. Toward[TargetPlayer] \in {-1, 0, 1}
      <3>1. ASSUME NEW p \in Player \cup {Nobody}
            PROVE  Toward[p] \in {-1, 0, 1}
        BY DEF Toward
      <3> QED  BY <3>1, NearestSeen
    <2>3. velocity \in {-1, 1}
      BY <2>1, <2>2
    <2>4. /\ LeftBound \in Int /\ RightBound \in Int /\ EnemySize \in Int
      BY LevelAssumption, LengthAssumption
    <2>5. x' \in Int
      BY <2>1, <2>3, <2>4 DEF Larger, Smaller
    <2>6. vx' \in {-1, 1}
      BY <2>1, <2>3
    <2> QED  BY <2>1, <2>5, <2>6
  <1>2. CASE ControlEnemy
    BY <1>2 DEF ControlEnemy
  <1>3. ASSUME NEW p \in Player, Move(p)
        PROVE  SightTypes'
    BY <1>3 DEF Move
  <1>4. ASSUME NEW b \in BlockPlaces, Destroy(b)
        PROVE  SightTypes'
    BY <1>4 DEF Destroy
  <1>5. CASE UNCHANGED vars
    BY <1>5 DEF vars
  <1> QED  BY <1>1, <1>2, <1>3, <1>4, <1>5 DEF Next

(* Where the enemy, the players and the blocks are.                        *)
LEMMA Located ==
    ASSUME SightTypes
    PROVE  /\ Origin \in Point /\ \A p \in Player : Target(p) \in Point
           /\ Obstacles \subseteq Rectangle /\ \A o \in Obstacles : Middle(o) \in Point
  <1>1. /\ EnemySize \in Nat /\ PlayerSize \in Nat /\ BlockSize \in Nat
        /\ EnemyY \in Int /\ x \in Int
    BY LengthAssumption, LevelAssumption DEF SightTypes
  <1>2. Origin \in Point
    BY <1>1 DEF Origin, CenterOf, Point
  <1>3. ASSUME NEW p \in Player
        PROVE  Target(p) \in Point
    <2>1. place[p] \in Place
      BY DEF SightTypes
    <2>2. place[p][1] \in Int /\ place[p][2] \in Int
      BY <2>1, LengthAssumption DEF Place
    <2> QED  BY <1>1, <2>2 DEF Target, CenterOf, Point
  <1>4. ASSUME NEW o \in Obstacles
        PROVE  o \in Rectangle
    <2>1. CASE o \in Platforms
      BY <2>1, LevelAssumption DEF Rectangle
    <2>2. ASSUME NEW b \in standing, o = Square(b, BlockSize)
          PROVE  o \in Rectangle
      <3>1. b \in Int \X Int
        BY LevelAssumption DEF SightTypes
      <3>2. b[1] \in Int /\ b[2] \in Int
        BY <3>1
      <3>3. o = <<b[1], b[2], b[1] + BlockSize, b[2] + BlockSize>>
        BY <2>2 DEF Square
      <3> QED  BY <1>1, <3>2, <3>3 DEF Rectangle
    <2> QED  BY <2>1, <2>2 DEF Obstacles
  <1>5. ASSUME NEW o \in Rectangle
        PROVE  Middle(o) \in Point
    BY Coordinates DEF Middle, Point
  <1> QED  BY <1>2, <1>3, <1>4, <1>5

(* The direction an enemy looks in.                                        *)
LEMMA Ahead ==
    ASSUME SightTypes, NEW c \in Point
    PROVE  IsInSight(c) <=> /\ (c[1] - Origin[1]) * vx >= 0
                            /\ Distance2(Origin, c) <= Sq(SightDistance)
  <1>1. /\ c[1] \in Int /\ Origin[1] \in Int
    BY Located, Coordinates
  <1>2. vx \in {-1, 1}
    BY DEF SightTypes
  <1> DEFINE d == c[1] - Origin[1]
  <1>3. d \in Int /\ (c[1] <= Origin[1] <=> d <= 0) /\ (c[1] >= Origin[1] <=> d >= 0)
    BY <1>1
  <1> HIDE DEF d
  <1>4. (IF LooksLeft THEN c[1] <= Origin[1] ELSE c[1] >= Origin[1]) <=> d * vx >= 0
    <2>1. CASE vx = -1
      <3>1. d * vx = -d
        BY <1>3, <2>1
      <3> QED  BY <1>3, <2>1, <3>1 DEF LooksLeft
    <2>3. CASE vx = 1
      <3>1. d * vx = d
        BY <1>3, <2>3
      <3> QED  BY <1>3, <2>3, <3>1 DEF LooksLeft
    <2> QED  BY <1>2, <2>1, <2>3
  <1> QED  BY <1>4 DEF IsInSight, d

(* On any level, with the enemy, the players and the blocks wherever the   *)
(* game puts them: the perception of an enemy is told of exactly the       *)
(* players and blocks that are ahead, near enough and behind nothing.      *)
THEOREM SeesWhatIsInSight == Spec => []LineOfSight
  <1>1. ASSUME SightTypes
        PROVE  LineOfSight
    <2>1. ASSUME NEW c \in Point, NEW S \in SUBSET Rectangle
          PROVE  HasClearLine(Origin, c, S) <=> ~\E o \in S : InTheWay(o, Origin, c)
      BY <1>1, <2>1, Located, SightIsGeometry DEF HasClearLine
    <2>2. ASSUME NEW p \in Player
          PROVE  p \in VisiblePlayers <=>
                   /\ (Target(p)[1] - Origin[1]) * vx >= 0
                   /\ Distance2(Origin, Target(p)) <= Sq(SightDistance)
                   /\ ~\E o \in Obstacles : InTheWay(o, Origin, Target(p))
      <3>1. Target(p) \in Point /\ Obstacles \in SUBSET Rectangle
        BY <1>1, Located
      <3>2. p \in VisiblePlayers <=>
               IsInSight(Target(p)) /\ HasClearLine(Origin, Target(p), Obstacles)
        BY DEF VisiblePlayers
      <3> QED  BY ONLY <1>1, <2>1, <3>1, <3>2, Ahead
    <2>3. ASSUME NEW o \in Obstacles
          PROVE  o \in VisibleObstacles <=>
                   /\ (Middle(o)[1] - Origin[1]) * vx >= 0
                   /\ Distance2(Origin, Middle(o)) <= Sq(SightDistance)
                   /\ ~\E r \in Obstacles \ {o} : InTheWay(r, Origin, Middle(o))
      <3>1. Middle(o) \in Point /\ Obstacles \ {o} \in SUBSET Rectangle
        BY <1>1, Located
      <3>2. o \in VisibleObstacles <=>
               IsInSight(Middle(o)) /\ HasClearLine(Origin, Middle(o), Obstacles \ {o})
        BY DEF VisibleObstacles
      <3> QED  BY ONLY <1>1, <2>1, <3>1, <3>2, Ahead
    <2> QED  BY <2>2, <2>3 DEF LineOfSight
  <1> QED  BY <1>1, SightStarts, SightKeeps, PTL DEF Spec
=============================================================================
