------------------------- MODULE CurrentStateProofs -------------------------
(***************************************************************************)
(* What holds of the current state for any history: for any views, sweeps, *)
(* scans for services, settings, corrections and any number of retained    *)
(* snapshots, and for addresses of any width.                              *)
(*                                                                         *)
(* Scope (ScansStayInScope).  The masks of the code give each range the    *)
(* size of its prefix and let it begin at a multiple of that size          *)
(* (HostMaskIsSize, Block), so two ranges are disjoint or one is inside    *)
(* the other (Nested).  That is why it is enough to look at the two ends   *)
(* of a range that is to be scanned (SafeIsInScope).                       *)
(*                                                                         *)
(* Responses (CurrentStateIsNewest, ResponsesChangeByChecks).  The         *)
(* responses after each check are a recursive function (CurrentRuns), of   *)
(* which LastWord is shown by induction: a response is current exactly if  *)
(* no later check has covered it.  A snapshot that is appended or dropped  *)
(* changes this for the responses named by the second theorem, because     *)
(* ids are not used twice while their snapshots are retained (HistoryInv). *)
(*                                                                         *)
(* The probe (CurrentStateIsNewest).  The devices of older snapshots are   *)
(* merged into those of the newest one, which moves no entry of the probe  *)
(* and changes none (EnrichKeepsOwn): neighbors never have its id.         *)
(*                                                                         *)
(* Inventories (InventoriesHold).  What was found only goes on: a device   *)
(* keeps its place, its interface and its addresses while responses and    *)
(* nodes are added (GoesOn), so the address of a response is either        *)
(* somebody's whom the settings leave, or of a device they exclude.  The   *)
(* tables made of this refer to what is there (TablesAreSound); services,  *)
(* open endpoints and corrections leave no reference dangling, no address  *)
(* unassigned and no virtual address without those who advertise it        *)
(* (Keeps).                                                                *)
(***************************************************************************)
EXTENDS CurrentState, SelectionProofs

\* The remainder of a division, and what follows for products.
LEMMA Division ==
    ASSUME NEW s \in Nat \ {0}, NEW x \in Int
    PROVE  x % s \in 0..(s - 1) /\ x \div s \in Int /\ x = s * (x \div s) + (x % s)
OBVIOUS

LEMMA Remainder ==
    ASSUME NEW s \in Nat \ {0}, NEW q \in Int, NEW r \in 0..(s - 1)
    PROVE  (s * q + r) % s = r
OBVIOUS

LEMMA FactorLess ==
    ASSUME NEW s \in Nat \ {0}, NEW i \in Int, NEW j \in Int, s * i < s * j
    PROVE  i < j
OBVIOUS

LEMMA ProductGrows ==
    ASSUME NEW s \in Nat \ {0}, NEW i \in Int, NEW j \in Int, i <= j
    PROVE  s * i <= s * j
OBVIOUS

LEMMA ProductOfSum ==
    ASSUME NEW s \in Int, NEW i \in Int, NEW j \in Int
    PROVE  s * i \in Int /\ s * (i + j) = s * i + s * j
OBVIOUS

LEMMA ProductOfProduct ==
    ASSUME NEW s \in Int, NEW i \in Int, NEW j \in Int
    PROVE  s * (i * j) = (s * i) * j /\ i * j \in Int
OBVIOUS

\* How many addresses a range of a prefix has.
Size(p) == 2^(Width - p)

LEMMA Powers ==
    ASSUME NEW p \in Prefix
    PROVE  /\ Width \in Nat \ {0} /\ Width - p \in 0..Width /\ Size(p) \in Nat \ {0} /\ 2^p \in Nat \ {0} /\ 2^Width \in Nat \ {0}
           /\ 2^Width = Size(p) * 2^p
<1>1. Width \in Nat \ {0} /\ p \in 0..Width
  BY IPv4Assumption DEF Prefix
<1>2. Width - p \in 0..Width /\ Width \in 0..Width /\ (Width - p) + p = Width /\ (Width - p) + p <= Width
  BY <1>1
<1>3. 2^((Width - p) + p) = 2^(Width - p) * 2^p
  BY <1>1, <1>2, IPv4Assumption
<1>4. 2^(Width - p) \in Nat \ {0} /\ 2^p \in Nat \ {0} /\ 2^Width \in Nat \ {0}
  BY <1>1, <1>2, IPv4Assumption
<1>. QED
  BY <1>1, <1>2, <1>3, <1>4 DEF Size

\* The shift of the code and the subtractions make what they are meant to.
LEMMA HostMaskIsSize ==
    ASSUME NEW p \in Prefix
    PROVE  HostMask(p) = Size(p) - 1
<1>. DEFINE all == 2^Width
            s == Size(p)
            t == 2^p
<1>1. /\ Width \in Nat \ {0} /\ all \in Nat \ {0} /\ s \in Nat \ {0} /\ t \in Nat \ {0} /\ all = s * t
      /\ p \in Nat /\ p <= Width
  BY Powers DEF Prefix
<1>2. CASE p = 0
  <2>1. Width - p = Width
    BY <1>1, <1>2
  <2>2. s = all
    BY <2>1 DEF Size
  <2>3. HostMask(p) = all - 1 - 0
    BY <1>2 DEF HostMask, Mask
  <2>4. HostMask(p) = s - 1
    <3>. HIDE DEF all, s
    <3>. QED
      BY <1>1, <2>2, <2>3
  <2>. QED
    BY <2>4
<1>3. CASE p # 0
  <2>1. Width - p \in 0..(Width - 1)
    BY <1>1, <1>3
  <2>2. (Width - p) % Width = Width - p
    <3>1. Width * 0 + (Width - p) = Width - p
      BY <1>1, <2>1
    <3>. QED
      BY <1>1, <2>1, <3>1, Remainder
  <2>3. Mask(p) = ((all - 1) * s) % all
    BY <1>3, <2>2 DEF Mask, ShiftLeft, Size
  <2>4. s <= all
    <3>. HIDE DEF all, s, t
    <3>1. 1 <= t
      BY <1>1
    <3>2. s * 1 <= s * t
      BY <1>1, <3>1, ProductGrows
    <3>. QED
      BY <1>1, <3>2
  <2>5. (all - 1) * s = all * (s - 1) + (all - s)
    <3>. HIDE DEF all, s, t
    <3>. QED
      BY <1>1
  <2>6. ((all - 1) * s) % all = all - s
    <3>. HIDE DEF all, s, t
    <3>1. all - s \in 0..(all - 1) /\ s - 1 \in Int
      BY <1>1, <2>4
    <3>2. (all * (s - 1) + (all - s)) % all = all - s
      BY <1>1, <3>1, Remainder
    <3>. QED
      BY <2>5, <3>2, Zenon
  <2>7. HostMask(p) = all - 1 - (all - s)
    BY <2>3, <2>6 DEF HostMask
  <2>8. HostMask(p) = s - 1
    <3>. HIDE DEF all, s, t
    <3>. QED
      BY <1>1, <2>7
  <2>. QED
    BY <2>8
<1>. QED
  BY <1>2, <1>3

\* A range begins at a multiple of its size, and it has its address.
LEMMA Block ==
    ASSUME NEW c \in CIDR
    PROVE  /\ \E j \in Int : NetworkInt(c) = Size(c.prefix) * j
           /\ NetworkInt(c) \in Address /\ BroadcastInt(c) \in Address
           /\ BroadcastInt(c) = NetworkInt(c) + Size(c.prefix) - 1
           /\ ContainsIPv4(c, c.address)
<1>. DEFINE s == Size(c.prefix)
            all == 2^Width
            t == 2^c.prefix
            a == c.address
            q == a \div s
            r == a % s
<1>1. c.prefix \in Prefix /\ a \in 0..(all - 1)
  BY DEF CIDR, Address
<1>2. s \in Nat \ {0} /\ t \in Nat \ {0} /\ all \in Nat \ {0} /\ all = s * t
  BY <1>1, Powers
<1>3. HostMask(c.prefix) = s - 1
  BY <1>1, HostMaskIsSize
<1>4. NetworkInt(c) = a - r
  <2>1. HostMask(c.prefix) + 1 = s
    <3>. HIDE DEF s
    <3>. QED
      BY <1>2, <1>3
  <2>. QED
    BY <2>1 DEF NetworkInt
<1>5. BroadcastInt(c) = NetworkInt(c) + (s - 1)
  BY <1>3 DEF BroadcastInt
<1>. HIDE DEF s, all, t, a
<1>6. r \in 0..(s - 1) /\ q \in Int /\ a = s * q + r
  BY <1>1, <1>2, Division
<1>. HIDE DEF q, r
<1>7. s * q \in Int /\ s * (q + 1) = s * q + s /\ s * (0 - 1) = 0 - s
  BY <1>2, <1>6
<1>8. q < t
  <2>1. s * q < s * t
    BY <1>1, <1>2, <1>6, <1>7
  <2>. QED
    BY <1>2, <1>6, <2>1, FactorLess
<1>9. 0 - 1 < q
  <2>1. s * (0 - 1) < s * q
    BY <1>1, <1>2, <1>6, <1>7
  <2>. QED
    BY <1>2, <1>6, <2>1, FactorLess
<1>10. s * (q + 1) <= s * t /\ s * 0 <= s * q /\ s * 0 = 0
  BY <1>2, <1>6, <1>8, <1>9, ProductGrows
<1>11. NetworkInt(c) = s * q
  BY <1>4, <1>6, <1>7
<1>12. NetworkInt(c) \in 0..(all - 1) /\ NetworkInt(c) + (s - 1) \in 0..(all - 1)
  BY <1>2, <1>7, <1>10, <1>11
<1>13. NetworkInt(c) <= a /\ a <= NetworkInt(c) + (s - 1)
  BY <1>2, <1>6, <1>7, <1>11
<1>14. NetworkInt(c) + (s - 1) = NetworkInt(c) + s - 1
  BY <1>2, <1>7, <1>11
<1>. QED
  BY <1>5, <1>6, <1>11, <1>12, <1>13, <1>14 DEF ContainsIPv4, Address, s, a, all

\* A range lies in another one of no more bits if the two have an address in common.
LEMMA Nested ==
    ASSUME NEW r \in CIDR, NEW c \in CIDR, r.prefix <= c.prefix,
           NEW x \in Address, ContainsIPv4(r, x), ContainsIPv4(c, x)
    PROVE  ContainsCIDR(r, c)
<1>. DEFINE s == Size(c.prefix)
            m == 2^(c.prefix - r.prefix)
            large == Size(r.prefix)
            R == NetworkInt(r)
            C == NetworkInt(c)
<1>1. /\ r.prefix \in 0..Width /\ c.prefix \in 0..Width /\ r.prefix \in Prefix /\ c.prefix \in Prefix
      /\ Width \in Nat /\ \A a \in Address : a \in Int
  BY IPv4Assumption DEF CIDR, Prefix, Address
<1>2. s \in Nat \ {0} /\ large \in Nat \ {0}
  BY <1>1, Powers
<1>3. m \in Nat \ {0} /\ large = s * m
  <2>1. c.prefix - r.prefix \in 0..Width /\ Width - c.prefix \in 0..Width
    BY <1>1
  <2>2. (Width - c.prefix) + (c.prefix - r.prefix) = Width - r.prefix /\ Width - r.prefix <= Width
    BY <1>1
  <2>3. 2^((Width - c.prefix) + (c.prefix - r.prefix)) = 2^(Width - c.prefix) * 2^(c.prefix - r.prefix)
    BY <2>1, <2>2, IPv4Assumption
  <2>4. m \in Nat \ {0}
    BY <2>1, IPv4Assumption
  <2>. QED
    BY <2>2, <2>3, <2>4 DEF Size
<1>4. PICK i \in Int : R = large * i
  BY Block
<1>5. PICK j \in Int : C = s * j
  BY Block
<1>6. R <= x /\ x <= R + large - 1 /\ C <= x /\ x <= C + s - 1 /\ x \in Int
  BY <1>1, Block DEF ContainsIPv4
<1>7. BroadcastInt(r) = R + large - 1 /\ BroadcastInt(c) = C + s - 1
  BY Block
<1>. HIDE DEF s, m, large, R, C
<1>8. large * i = s * (m * i) /\ m * i \in Int /\ m * i + m \in Int
  <2>1. s * (m * i) = (s * m) * i /\ m * i \in Int
    BY <1>2, <1>3, <1>4, ProductOfProduct
  <2>2. large * i = s * (m * i)
    BY <1>3, <2>1, Zenon
  <2>. QED
    BY <1>3, <2>1, <2>2
<1>. DEFINE k == m * i
<1>9. R = s * k /\ k \in Int /\ k + m \in Int
  BY <1>4, <1>8
<1>. HIDE DEF k
<1>10. s * k \in Int /\ s * j \in Int /\ s * (j + 1) = s * j + s /\ s * (k + m) = s * k + large
  <2>1. s * k \in Int /\ s * (k + m) = s * k + s * m
    BY <1>2, <1>3, <1>9, ProductOfSum
  <2>2. s * j \in Int /\ s * (j + 1) = s * j + s * 1 /\ s * 1 = s
    BY <1>2, <1>5, ProductOfSum
  <2>. QED
    BY <1>3, <2>1, <2>2
<1>11. k < j + 1
  <2>1. s * k < s * (j + 1)
    BY <1>2, <1>5, <1>6, <1>9, <1>10
  <2>2. j + 1 \in Int
    BY <1>5
  <2>. QED
    BY <1>2, <1>9, <2>1, <2>2, FactorLess
<1>12. j < k + m
  <2>1. s * j < s * (k + m)
    BY <1>2, <1>5, <1>6, <1>9, <1>10
  <2>. QED
    BY <1>2, <1>5, <1>9, <2>1, FactorLess
<1>13. s * k <= s * j /\ s * (j + 1) <= s * (k + m)
  <2>1. k <= j /\ j + 1 <= k + m /\ j + 1 \in Int
    BY <1>3, <1>5, <1>9, <1>11, <1>12
  <2>. QED
    BY <1>2, <1>5, <1>9, <2>1, ProductGrows
<1>14. R <= C /\ C + s - 1 <= R + large - 1
  BY <1>2, <1>5, <1>9, <1>10, <1>13
<1>. QED
  BY <1>7, <1>14 DEF ContainsCIDR, R, C

\* To be inside is transitive, and it is about addresses.
LEMMA InsideOf ==
    ASSUME NEW r \in CIDR, NEW c \in CIDR, ContainsCIDR(r, c)
    PROVE  /\ \A d \in CIDR : ContainsCIDR(c, d) => ContainsCIDR(r, d)
           /\ \A a \in Address : ContainsIPv4(c, a) => ContainsIPv4(r, a)
<1>1. \A d \in CIDR : NetworkInt(d) \in Int /\ BroadcastInt(d) \in Int
  BY IPv4Assumption, Powers, Block DEF Address
<1>2. \A a \in Address : a \in Int
  BY DEF Address
<1>. QED
  BY <1>1, <1>2 DEF ContainsCIDR, ContainsIPv4

\* The canonical form of a range is the same range.
LEMMA CanonicalIsSame ==
    ASSUME NEW c \in CIDR
    PROVE  /\ Canonical(c) \in CIDR /\ Canonical(c).prefix = c.prefix
           /\ NetworkInt(Canonical(c)) = NetworkInt(c) /\ BroadcastInt(Canonical(c)) = BroadcastInt(c)
<1>. DEFINE d == Canonical(c)
            s == Size(c.prefix)
<1>1. d \in CIDR /\ d.prefix = c.prefix /\ d.address = NetworkInt(c)
  BY Block DEF Canonical, CIDR
<1>2. c.prefix \in Prefix /\ s \in Nat \ {0}
  BY Powers DEF CIDR
<1>3. HostMask(c.prefix) = s - 1
  BY <1>2, HostMaskIsSize
<1>. HIDE DEF s
<1>4. HostMask(c.prefix) + 1 = s
  BY <1>2, <1>3
<1>5. PICK j \in Int : NetworkInt(c) = s * j
  BY Block DEF s
<1>6. NetworkInt(c) % s = 0
  <2>1. 0 \in 0..(s - 1) /\ s * j + 0 = s * j
    BY <1>2, <1>5
  <2>2. (s * j + 0) % s = 0
    BY <1>2, <1>5, <2>1, Remainder
  <2>. QED
    BY <1>5, <2>1, <2>2, Zenon
<1>7. NetworkInt(d) = NetworkInt(c) - 0
  BY <1>1, <1>4, <1>6 DEF NetworkInt
<1>8. NetworkInt(c) - 0 = NetworkInt(c)
  BY Block DEF Address
<1>. QED
  BY <1>1, <1>7, <1>8 DEF BroadcastInt

\* A range that is safe to scan is private, and allowed, with all its addresses.
LEMMA SafeIsInScope ==
    ASSUME NEW c \in CIDR, Safe(c), NEW a \in Address, ContainsIPv4(c, a)
    PROVE  IsAllowedLocalIPv4(a) /\ \E r \in AllowedRange : ContainsIPv4(r, a)
<1>1. PICK p \in PrivateRange : ContainsIPv4(p, NetworkInt(c))
  BY DEF Safe, IsAllowedLocalIPv4
<1>2. /\ p \in CIDR /\ p.prefix <= SafePrefix /\ SafePrefix <= c.prefix
      /\ p.prefix \in Int /\ c.prefix \in Int /\ SafePrefix \in Int
  BY IPv4Assumption DEF Safe, CIDR, Prefix
<1>3. p.prefix <= c.prefix
  BY <1>2
<1>4. NetworkInt(c) \in Address /\ ContainsIPv4(c, NetworkInt(c))
  <2>1. NetworkInt(c) \in Address /\ BroadcastInt(c) \in Address /\ BroadcastInt(c) = NetworkInt(c) + Size(c.prefix) - 1
    BY Block
  <2>2. Size(c.prefix) \in Nat \ {0}
    BY Powers DEF CIDR
  <2>3. NetworkInt(c) \in Int
    BY <2>1 DEF Address
  <2>. DEFINE s == Size(c.prefix)
              n == NetworkInt(c)
              b == BroadcastInt(c)
  <2>4. n <= n /\ n <= b
    <3>. HIDE DEF s, n, b
    <3>1. b = n + s - 1 /\ n \in Int /\ s \in Nat \ {0}
      BY <2>1, <2>2, <2>3 DEF s, n, b
    <3>. QED
      BY <3>1
  <2>. QED
    BY <2>1, <2>4 DEF ContainsIPv4
<1>5. ContainsCIDR(p, c)
  BY <1>1, <1>2, <1>3, <1>4, Nested
<1>6. PICK r \in AllowedRange : ContainsCIDR(r, c)
  BY DEF Safe
<1>7. r \in CIDR
  BY IPv4Assumption
<1>8. ContainsIPv4(p, a) /\ ContainsIPv4(r, a)
  BY <1>2, <1>5, <1>6, <1>7, InsideOf
<1>. QED
  BY <1>8 DEF IsAllowedLocalIPv4

\* The ranges that may be scanned are ranges, and what they are cut to lies inside of them.
LEMMA ScannableRanges ==
    ASSUME NEW interfaces \in Seq(Interface), NEW settings
    PROVE  Scannable(interfaces, settings) \in Seq(CIDR)
<1>. DEFINE Scans(i) == ResolvePolicy(settings, interfaces[i].name, interfaces[i].up).scan
            q == [i \in 1..Len(interfaces) |-> IF Scans(i) THEN interfaces[i].addresses ELSE <<>>]
<1>1. Len(interfaces) \in Nat /\ \A i \in 1..Len(interfaces) : interfaces[i] \in Interface
  OBVIOUS
<1>2. \A i \in 1..Len(interfaces) : interfaces[i].addresses \in Seq(CIDR)
  BY <1>1 DEF Interface
<1>3. <<>> \in Seq(CIDR)
  OBVIOUS
<1>4. q \in Seq(Seq(CIDR))
  <2>. HIDE DEF Scans
  <2>1. \A i \in 1..Len(interfaces) : (IF Scans(i) THEN interfaces[i].addresses ELSE <<>>) \in Seq(CIDR)
    BY <1>2, <1>3
  <2>. QED
    BY <1>1, <2>1
<1>5. FlattenSeq(q) \in Seq(CIDR)
  <2>. HIDE DEF q
  <2>. QED
    BY <1>4, FlattenedElements
<1>. QED
  BY <1>5 DEF Scannable

LEMMA CutIsInside ==
    ASSUME NEW c \in CIDR
    PROVE  Cut(c) \in CIDR /\ ContainsCIDR(c, Cut(c))
<1>. DEFINE p == IF SafePrefix > c.prefix THEN SafePrefix ELSE c.prefix
            d == [c EXCEPT !.prefix = p]
<1>1. c.prefix \in Prefix /\ c.prefix \in Int /\ SafePrefix \in Prefix /\ SafePrefix \in Int /\ c.address \in Address
  BY IPv4Assumption DEF CIDR, Prefix
<1>2. p \in Prefix /\ c.prefix <= p
  BY <1>1
<1>3. Cut(c) = Canonical(d)
  BY DEF Cut
<1>. HIDE DEF p
<1>4. d \in CIDR /\ d.prefix = p /\ d.address = c.address
  BY <1>2 DEF CIDR
<1>. HIDE DEF d
<1>5. ContainsIPv4(c, c.address) /\ ContainsIPv4(d, c.address)
  BY <1>4, Block
<1>6. ContainsCIDR(c, d)
  BY <1>1, <1>2, <1>4, <1>5, Nested
<1>7. Canonical(d) \in CIDR /\ NetworkInt(Canonical(d)) = NetworkInt(d) /\ BroadcastInt(Canonical(d)) = BroadcastInt(d)
  BY <1>4, CanonicalIsSame
<1>. QED
  BY <1>3, <1>6, <1>7 DEF ContainsCIDR

LEMMA CandidatesAreCut ==
    ASSUME NEW interfaces \in Seq(Interface), NEW settings
    PROVE  /\ Candidates(interfaces, settings) \in Seq(CIDR)
           /\ \A c \in ToSet(Candidates(interfaces, settings)) : \E x \in ToSet(Scannable(interfaces, settings)) : c = Cut(x)
<1>. DEFINE ranges == Scannable(interfaces, settings)
            cut == [i \in 1..Len(ranges) |-> Cut(ranges[i])]
            private == {c \in CIDR : IsAllowedLocalIPv4(c.address)}
<1>1. ranges \in Seq(CIDR)
  BY ScannableRanges
<1>2. Candidates(interfaces, settings) = Kept(cut, private)
  BY DEF Candidates
<1>. HIDE DEF ranges, private
<1>3. Len(ranges) \in Nat /\ DOMAIN ranges = 1..Len(ranges) /\ \A i \in 1..Len(ranges) : ranges[i] \in CIDR
  BY <1>1
<1>4. cut \in Seq(CIDR) /\ DOMAIN cut = 1..Len(ranges)
  BY <1>3, CutIsInside
<1>5. \A c \in ToSet(cut) : \E x \in ToSet(ranges) : c = Cut(x)
  BY <1>3, <1>4 DEF ToSet
<1>. HIDE DEF cut
<1>6. Kept(cut, private) \in Seq(CIDR) /\ ToSet(Kept(cut, private)) = {c \in ToSet(cut) : c \in private}
  BY <1>4, KeptElements
<1>. QED
  BY <1>2, <1>5, <1>6 DEF ranges

\* What is offered to scan is all shown, being inside of what may be scanned.
LEMMA OfferedIsShown ==
    ASSUME NEW interfaces \in Seq(Interface), NEW settings
    PROVE  LET offered == ScanCandidates(interfaces, settings)
           IN  ShownCandidates(offered, interfaces, settings) = offered
<1>. DEFINE offered == ScanCandidates(interfaces, settings)
            scannable == ToSet(Scannable(interfaces, settings))
            local == ToSet(Candidates(interfaces, settings))
            inside == {r \in AllowedRange : \E c \in local : ContainsCIDR(c, r)}
<1>1. scannable \subseteq CIDR
  BY ScannableRanges DEF ToSet
<1>2. ASSUME NEW c \in local \cup inside
      PROVE  c \in CIDR /\ \E x \in scannable : ContainsCIDR(x, c)
  <2>1. \A d \in local : \E x \in scannable : x \in CIDR /\ d \in CIDR /\ ContainsCIDR(x, d)
    BY <1>1, CandidatesAreCut, CutIsInside
  <2>2. CASE c \in local
    BY <2>1, <2>2
  <2>3. CASE c \in inside
    <3>1. c \in CIDR
      BY <2>3, IPv4Assumption
    <3>2. PICK d \in local : ContainsCIDR(d, c)
      BY <2>3
    <3>3. PICK x \in scannable : x \in CIDR /\ d \in CIDR /\ ContainsCIDR(x, d)
      BY <2>1
    <3>4. ContainsCIDR(x, c)
      BY <3>1, <3>2, <3>3, InsideOf
    <3>. QED
      BY <3>1, <3>4
  <2>. QED
    BY <2>2, <2>3
<1>3. ASSUME NEW o \in offered
      PROVE  \E x \in scannable : ContainsCIDR(Canonical(x), o)
  <2>1. PICK c \in local \cup inside : o = Canonical(c)
    BY DEF ScanCandidates
  <2>2. PICK x \in scannable : ContainsCIDR(x, c)
    BY <1>2
  <2>3. x \in CIDR /\ c \in CIDR
    BY <1>1, <1>2
  <2>4. ContainsCIDR(Canonical(x), Canonical(c))
    BY <2>2, <2>3, CanonicalIsSame DEF ContainsCIDR
  <2>. QED
    BY <2>1, <2>4
<1>. HIDE DEF offered
<1>4. ShownCandidates(offered, interfaces, settings) = offered
  BY <1>3 DEF ShownCandidates
<1>. QED
  BY <1>4 DEF offered
-----------------------------------------------------------------------------
\* What the history is made of.  Ids are taken again when their snapshot has gone, so they
\* are of a few numbers only, and one is always free.
Profile == {"local", "passive", "standard", "deep", "services"}
Check == {c \in [method : Method, addresses : SUBSET Address, ports : SUBSET Nat, responses : SUBSET Endpoint] \cup
                [method : Method, addresses : SUBSET Address, ports : SUBSET Nat, responses : SUBSET Endpoint, range : CIDR] :
             IsFiniteSet(c.responses)}
SnapshotId == 1..(MaxSnapshots + 1)
Snapshot == [id : SnapshotId, profile : Profile, interfaces : Seq(Interface), neighbors : Seq(Neighbor),
             nodes : Seq(Seq(KubernetesNode)), services : Seq(Seq(KubernetesService)), checks : Seq(Check)]

HistoryInv == /\ snapshots \in Seq(Snapshot)
              /\ Len(snapshots) <= MaxSnapshots
              /\ \A i, j \in 1..Len(snapshots) : snapshots[i].id = snapshots[j].id => i = j

\* What a scan has sent to is in its scope.
InScope(interfaces, checks) ==
    \A check \in ToSet(checks) : check.method # Mdns =>
        \A a \in check.addresses :
            /\ \E r \in AllowedRange : ContainsIPv4(r, a)
            /\ IsAllowedLocalIPv4(a)
            /\ check.method = Icmp => a \notin OwnAddresses(interfaces)

\* There is an id that no snapshot has: there are more of them than snapshots.
LEMMA NewIdIsNew ==
    ASSUME HistoryInv
    PROVE  NewId \in SnapshotId /\ \A i \in 1..Len(snapshots) : snapshots[i].id # NewId
<1>. DEFINE n == Len(snapshots)
            id == [i \in 1..n |-> snapshots[i].id]
            used == {id[i] : i \in 1..n}
<1>1. n \in Nat /\ n <= MaxSnapshots /\ MaxSnapshots \in Nat /\ \A i \in 1..n : snapshots[i].id \in SnapshotId
  <2>1. n \in Nat /\ n <= MaxSnapshots /\ MaxSnapshots \in Nat /\ \A i \in 1..n : snapshots[i] \in Snapshot
    BY CurrentStateAssumption DEF HistoryInv
  <2>2. \A x \in Snapshot : x.id \in SnapshotId
    BY DEF Snapshot
  <2>. HIDE DEF n
  <2>. QED
    BY <2>1, <2>2
<1>2. IsFiniteSet(1..n) /\ Cardinality(1..n) = n
  <2>. HIDE DEF n
  <2>. QED
    BY <1>1, FS_Interval
<1>3. id \in [1..n -> used] /\ used \subseteq SnapshotId
  BY <1>1
<1>4. id \in Surjection(1..n, used)
  <2>1. \A y \in used : \E i \in 1..n : id[i] = y
    OBVIOUS
  <2>. HIDE DEF id, used
  <2>. QED
    BY <1>3, <2>1 DEF Surjection
<1>. HIDE DEF id, used, n
<1>5. IsFiniteSet(used) /\ Cardinality(used) <= n
  BY <1>2, <1>4, FS_Surjection
<1>6. Cardinality(SnapshotId) = MaxSnapshots + 1
  <2>1. MaxSnapshots + 1 \in Nat /\ MaxSnapshots + 1 >= 1
    BY CurrentStateAssumption
  <2>2. Cardinality(1..(MaxSnapshots + 1)) = (MaxSnapshots + 1) - 1 + 1
    BY <2>1, FS_Interval
  <2>. QED
    BY <2>1, <2>2 DEF SnapshotId
<1>7. used # SnapshotId
  BY <1>1, <1>5, <1>6, FS_CardinalityType
<1>8. PICK x \in SnapshotId : x \notin used
  BY <1>3, <1>7
<1>9. \A i \in 1..n : snapshots[i].id \in used
  BY DEF used, id
<1>10. \E x_1 \in 1..(MaxSnapshots + 1) : \A i \in 1..Len(snapshots) : snapshots[i].id # x_1
  BY <1>8, <1>9 DEF SnapshotId, n
<1>. QED
  BY <1>10 DEF NewId, SnapshotId

\* What is retained are the newest ones.
LEMMA RetainedAreNewest ==
    ASSUME NEW T, NEW s \in Seq(T), NEW x \in T, Len(s) <= MaxSnapshots
    PROVE  \E drop \in {0, 1} : LET t == Retained(Append(s, x)) IN
               /\ t \in Seq(T) /\ Len(t) = Len(s) + 1 - drop /\ Len(t) \in 1..MaxSnapshots
               /\ \A i \in 1..(Len(t) - 1) : t[i] = s[i + drop]
               /\ t[Len(t)] = x /\ t # <<>> /\ Last(t) = x
<1>. DEFINE all == Append(s, x)
            first == Len(all) - MaxSnapshots + 1
            drop == IF 1 < first THEN 1 ELSE 0
            t == SubSeq(all, drop + 1, Len(all))
<1>1. MaxSnapshots \in Nat \ {0} /\ Len(s) \in Nat
  BY CurrentStateAssumption
<1>2. all \in Seq(T) /\ Len(all) = Len(s) + 1 /\ all[Len(s) + 1] = x /\ \A i \in 1..Len(s) : all[i] = s[i]
  OBVIOUS
<1>. HIDE DEF all
<1>3. first \in Int /\ first <= 2
  BY <1>1, <1>2
<1>4. Max({1, first}) = drop + 1
  <2>1. Max({1, first}) = IF 1 < first THEN first ELSE 1
    BY <1>3, MaxOfTwo
  <2>. HIDE DEF first
  <2>. QED
    BY <1>3, <2>1
<1>5. Retained(all) = t
  BY <1>4 DEF Retained
<1>6. drop \in {0, 1} /\ Len(all) - drop \in 1..MaxSnapshots
  BY <1>1, <1>2
<1>. HIDE DEF first, drop
<1>7. t \in Seq(T) /\ Len(t) = Len(all) - drop /\ \A i \in 1..(Len(all) - drop) : t[i] = all[i + drop]
  <2>1. drop + 1 \in 1..(Len(all) + 1) /\ drop + 1 <= Len(all) + 1
    BY <1>1, <1>2, <1>6
  <2>. QED
    BY <1>1, <1>2, <1>6, <2>1
<1>. HIDE DEF t
<1>8. t[Len(t)] = x /\ \A i \in 1..(Len(t) - 1) : t[i] = s[i + drop]
  <2>1. Len(t) \in 1..(Len(all) - drop) /\ Len(t) + drop = Len(s) + 1
    BY <1>1, <1>2, <1>6, <1>7
  <2>2. \A i \in 1..(Len(t) - 1) : i \in 1..(Len(all) - drop) /\ i + drop \in 1..Len(s)
    BY <1>1, <1>2, <1>6, <1>7
  <2>. QED
    BY <1>2, <1>7, <2>1, <2>2
<1>9. t # <<>> /\ Last(t) = x
  BY <1>1, <1>2, <1>6, <1>7, <1>8 DEF Last
<1>. QED
  BY <1>1, <1>2, <1>5, <1>6, <1>7, <1>8, <1>9 DEF all

\* The addresses of hosts in a range.
LEMMA HostsOfRange ==
    ASSUME NEW c \in CIDR, NEW exclusions
    PROVE  /\ HostAddresses(c, exclusions) \subseteq Address
           /\ \A a \in HostAddresses(c, exclusions) : ContainsIPv4(c, a) /\ a \notin exclusions
<1>1. NetworkInt(c) \in Address /\ BroadcastInt(c) \in Address
  BY Block
<1>2. 2^Width \in Nat \ {0}
  BY Powers DEF CIDR
<1>. DEFINE hosts == NetworkInt(c)..BroadcastInt(c)
<1>3. ASSUME NEW a \in hosts PROVE a \in Address /\ ContainsIPv4(c, a)
  BY <1>1, <1>2 DEF Address, ContainsIPv4
<1>4. HostAddresses(c, exclusions) \subseteq hosts
  BY DEF HostAddresses
<1>5. \A a \in HostAddresses(c, exclusions) : a \notin exclusions
  BY DEF HostAddresses
<1>. HIDE DEF hosts
<1>. QED
  BY <1>3, <1>4, <1>5

LEMMA ImageIsFinite ==
    ASSUME NEW S, IsFiniteSet(S), NEW f
    PROVE  IsFiniteSet({f[x] : x \in S})
<1>. DEFINE T == {f[x] : x \in S}
            g == [x \in S |-> f[x]]
<1>1. g \in [S -> T] /\ \A y \in T : \E x \in S : g[x] = y
  OBVIOUS
<1>. HIDE DEF T, g
<1>2. g \in Surjection(S, T)
  BY <1>1 DEF Surjection
<1>3. IsFiniteSet(T)
  BY <1>2, FS_Surjection
<1>. QED
  BY <1>3 DEF T

LEMMA AddressesAreFinite == IsFiniteSet(Address) /\ \A S \in SUBSET Address : IsFiniteSet(S)
<1>1. 0 \in Prefix
  BY IPv4Assumption DEF Prefix
<1>2. 2^Width \in Nat \ {0}
  BY <1>1, Powers
<1>3. IsFiniteSet(Address)
  <2>1. 0 \in Int /\ 2^Width - 1 \in Int
    BY <1>2
  <2>. QED
    BY <2>1, FS_Interval DEF Address
<1>. QED
  BY <1>3, FS_Subset

\* What the checks of a scan are.
LEMMA HostResponses ==
    ASSUME NEW S \in SUBSET Address
    PROVE  IsFiniteSet({<<a, NoPort>> : a \in S}) /\ {<<a, NoPort>> : a \in S} \subseteq Endpoint
<1>1. IsFiniteSet(S)
  BY AddressesAreFinite
<1>. DEFINE f == [a \in S |-> <<a, NoPort>>]
<1>2. {f[a] : a \in S} = {<<a, NoPort>> : a \in S}
  OBVIOUS
<1>. HIDE DEF f
<1>3. IsFiniteSet({f[a] : a \in S})
  BY <1>1, ImageIsFinite
<1>. QED
  BY <1>2, <1>3 DEF Endpoint, NoPort

LEMMA PingIsInScope ==
    ASSUME NEW interfaces, NEW c \in CIDR, Safe(c), NEW responders
    PROVE  LET targets == HostAddresses(c, OwnAddresses(interfaces))
           IN  Ping(targets, targets \cap responders) \in Check /\ InScope(interfaces, <<Ping(targets, targets \cap responders)>>)
<1>. DEFINE targets == HostAddresses(c, OwnAddresses(interfaces))
            found == targets \cap responders
            ping == Ping(targets, found)
<1>1. targets \subseteq Address /\ \A a \in targets : ContainsIPv4(c, a) /\ a \notin OwnAddresses(interfaces)
  BY HostsOfRange
<1>. HIDE DEF targets
<1>2. found \in SUBSET Address
  BY <1>1
<1>. HIDE DEF found
<1>3. /\ ping.method = Icmp /\ ping.addresses = targets /\ ping.responses = {<<a, NoPort>> : a \in found}
      /\ ping \in [method : Method, addresses : SUBSET Address, ports : SUBSET Nat, responses : SUBSET Endpoint]
  BY <1>1, <1>2, HostResponses DEF Ping, Method
<1>4. ping \in Check
  BY <1>2, <1>3, HostResponses DEF Check
<1>5. ToSet(<<ping>>) = {ping}
  BY ElementOfOne
<1>6. ASSUME NEW a \in ping.addresses
      PROVE  /\ \E r \in AllowedRange : ContainsIPv4(r, a)
             /\ IsAllowedLocalIPv4(a) /\ a \notin OwnAddresses(interfaces)
  BY <1>1, <1>3, SafeIsInScope
<1>. HIDE DEF ping
<1>7. InScope(interfaces, <<ping>>)
  BY <1>5, <1>6 DEF InScope
<1>. QED
  BY <1>4, <1>7 DEF ping, found, targets

LEMMA ProbeIsInScope ==
    ASSUME NEW interfaces, NEW x \in ServiceScan, Safe(x.range)
    PROVE  LET probe == Probe(x.method, x.range, x.ports, x.open \cap (HostAddresses(x.range, {}) \X x.ports))
           IN  probe \in Check /\ InScope(interfaces, <<probe>>)
<1>. DEFINE open == x.open \cap (HostAddresses(x.range, {}) \X x.ports)
            covered == {a \in Address : ContainsIPv4(x.range, a)}
            probe == Probe(x.method, x.range, x.ports, open)
<1>1. x.method \in Protocol /\ x.range \in CIDR /\ x.ports \subseteq Nat /\ IsFiniteSet(x.ports)
  BY CurrentStateAssumption
<1>2. HostAddresses(x.range, {}) \subseteq Address
  BY <1>1, HostsOfRange
<1>3. IsFiniteSet(open)
  <2>1. IsFiniteSet(HostAddresses(x.range, {}))
    BY <1>2, AddressesAreFinite
  <2>2. IsFiniteSet(HostAddresses(x.range, {}) \X x.ports)
    BY <1>1, <2>1, FS_Product
  <2>. QED
    BY <2>2, FS_Subset
<1>4. open \subseteq Endpoint
  BY <1>1, <1>2 DEF Endpoint
<1>. HIDE DEF open
<1>5. Canonical(x.range) \in CIDR
  BY <1>1, CanonicalIsSame
<1>6. /\ probe.method = x.method /\ probe.addresses = covered /\ probe.responses = open
      /\ probe \in [method : Method, addresses : SUBSET Address, ports : SUBSET Nat, responses : SUBSET Endpoint, range : CIDR]
  BY <1>1, <1>4, <1>5 DEF Probe, Method
<1>7. probe \in Check
  BY <1>3, <1>6 DEF Check
<1>8. ToSet(<<probe>>) = {probe}
  BY ElementOfOne
<1>9. ASSUME NEW a \in probe.addresses
      PROVE  (\E r \in AllowedRange : ContainsIPv4(r, a)) /\ IsAllowedLocalIPv4(a)
  BY <1>1, <1>6, SafeIsInScope
<1>10. probe.method # Icmp
  BY <1>1, <1>6 DEF Protocol, Icmp
<1>. HIDE DEF probe
<1>11. InScope(interfaces, <<probe>>)
  BY <1>8, <1>9, <1>10 DEF InScope
<1>. QED
  BY <1>7, <1>11 DEF probe, open

LEMMA QueryIsCheck ==
    ASSUME NEW heard \in SUBSET Address
    PROVE  Query(heard) \in Check /\ Query(heard).method = Mdns
<1>1. IsFiniteSet({<<a, NoPort>> : a \in heard}) /\ {<<a, NoPort>> : a \in heard} \subseteq Endpoint
  BY HostResponses
<1>. QED
  BY <1>1 DEF Query, Check, Method

\* The view that a scan reads, as it is saved.
LEMMA ViewIsTyped ==
    ASSUME NEW v \in View
    PROVE  /\ v.interfaces \in Seq(Interface) /\ v.neighbors \in Seq(Neighbor)
           /\ v.nodes \in Seq(Seq(KubernetesNode)) /\ v.services \in Seq(Seq(KubernetesService))
  BY CurrentStateAssumption DEF IsView

\* Every step saves a snapshot whose checks are in scope.
LEMMA StepIsSave ==
    ASSUME Next
    PROVE  \E v \in View, profile \in Profile, checks \in Seq(Check) :
               Save(profile, v, checks) /\ InScope(v.interfaces, checks)
<1>1. PICK v \in View : \/ ReadLocal(v)
                        \/ ReadPassive(v)
                        \/ ScanStandard(v)
                        \/ ScanDeep(v)
                        \/ ScanServices(v)
  BY DEF Next
<1>2. <<>> \in Seq(Check) /\ InScope(v.interfaces, <<>>)
  <2>1. ToSet(<<>>) = {}
    BY DEF ToSet
  <2>. QED
    BY <2>1 DEF InScope
<1>3. \A c \in Check : <<c>> \in Seq(Check)
  OBVIOUS
<1>4. ASSUME NEW w \in Sweep, NEW c \in Ranges(v, w)
      PROVE  /\ Safe(c) /\ c \in CIDR
             /\ Pinged(v, c, w) \in Seq(Check) /\ InScope(v.interfaces, Pinged(v, c, w))
  <2>1. Safe(c) /\ \/ w.requested # <<>> /\ c \in ToSet(w.requested)
                   \/ \E x \in Context : /\ Candidates(v.interfaces, x.settings) # <<>>
                                         /\ c = Candidates(v.interfaces, x.settings)[1]
    BY DEF Ranges
  <2>2. c \in CIDR
    <3>1. CASE w.requested # <<>> /\ c \in ToSet(w.requested)
      BY <3>1, CurrentStateAssumption DEF ToSet
    <3>2. ASSUME NEW x \in Context, Candidates(v.interfaces, x.settings) # <<>>,
                 c = Candidates(v.interfaces, x.settings)[1]
          PROVE  c \in CIDR
      <4>. DEFINE s == Candidates(v.interfaces, x.settings)
      <4>1. s \in Seq(CIDR)
        BY ViewIsTyped, CandidatesAreCut
      <4>2. s # <<>> /\ c = s[1]
        BY <3>2
      <4>. HIDE DEF s
      <4>. QED
        BY <4>1, <4>2
    <3>. QED
      BY <2>1, <3>1, <3>2
  <2>. DEFINE targets == HostAddresses(c, OwnAddresses(v.interfaces))
              ping == Ping(targets, targets \cap w.responders)
  <2>3. ping \in Check /\ InScope(v.interfaces, <<ping>>)
    BY <2>1, <2>2, PingIsInScope
  <2>4. Pinged(v, c, w) = <<ping>>
    BY DEF Pinged
  <2>. HIDE DEF ping
  <2>. QED
    BY <1>3, <2>1, <2>2, <2>3, <2>4
<1>5. CASE ReadLocal(v)
  BY <1>2, <1>5 DEF ReadLocal, Profile
<1>6. CASE ReadPassive(v)
  BY <1>2, <1>6 DEF ReadPassive, Profile
<1>7. CASE ScanStandard(v)
  <2>1. PICK w \in Sweep : \E c \in Ranges(v, w) : Save("standard", v, Pinged(v, c, w))
    BY <1>7 DEF ScanStandard
  <2>2. PICK c \in Ranges(v, w) : Save("standard", v, Pinged(v, c, w))
    BY <2>1
  <2>. QED
    BY <1>4, <2>2 DEF Profile
<1>8. CASE ScanDeep(v)
  <2>1. PICK w \in Sweep : \E c \in Ranges(v, w) :
          Save("deep", v, Pinged(v, c, w) \o (IF w.heard = {} THEN <<>> ELSE <<Query(w.heard)>>))
    BY <1>8 DEF ScanDeep
  <2>2. PICK c \in Ranges(v, w) :
          Save("deep", v, Pinged(v, c, w) \o (IF w.heard = {} THEN <<>> ELSE <<Query(w.heard)>>))
    BY <2>1
  <2>. DEFINE pinged == Pinged(v, c, w)
              queried == IF w.heard = {} THEN <<>> ELSE <<Query(w.heard)>>
  <2>3. pinged \in Seq(Check) /\ InScope(v.interfaces, pinged)
    BY <1>4
  <2>4. queried \in Seq(Check) /\ \A check \in ToSet(queried) : check.method = Mdns
    <3>1. w.heard \in SUBSET Address
      BY CurrentStateAssumption
    <3>2. Query(w.heard) \in Check /\ Query(w.heard).method = Mdns /\ ToSet(<<Query(w.heard)>>) = {Query(w.heard)}
      BY <3>1, QueryIsCheck, ElementOfOne
    <3>3. ToSet(<<>>) = {}
      BY DEF ToSet
    <3>4. CASE w.heard = {}
      BY <1>2, <3>3, <3>4
    <3>5. CASE w.heard # {}
      BY <1>3, <3>2, <3>5
    <3>. QED
      BY <3>4, <3>5
  <2>5. Save("deep", v, pinged \o queried)
    BY <2>2
  <2>. HIDE DEF pinged, queried
  <2>6. pinged \o queried \in Seq(Check)
    BY <2>3, <2>4
  <2>7. ToSet(pinged \o queried) = ToSet(pinged) \cup ToSet(queried)
    BY <2>3, <2>4, Joined
  <2>8. InScope(v.interfaces, pinged \o queried)
    BY <2>3, <2>4, <2>7 DEF InScope
  <2>. QED
    BY <2>5, <2>6, <2>8 DEF Profile
<1>9. CASE ScanServices(v)
  <2>1. PICK x \in ServiceScan :
          /\ Safe(x.range)
          /\ Save("services", v, <<Probe(x.method, x.range, x.ports, x.open \cap (HostAddresses(x.range, {}) \X x.ports))>>)
    BY <1>9 DEF ScanServices
  <2>. DEFINE probe == Probe(x.method, x.range, x.ports, x.open \cap (HostAddresses(x.range, {}) \X x.ports))
  <2>2. probe \in Check /\ InScope(v.interfaces, <<probe>>)
    BY <2>1, ProbeIsInScope
  <2>3. Save("services", v, <<probe>>)
    BY <2>1
  <2>. HIDE DEF probe
  <2>. QED
    BY <1>3, <2>2, <2>3 DEF Profile
<1>. QED
  BY <1>1, <1>5, <1>6, <1>7, <1>8, <1>9

\* What saving does to the history.
LEMMA Saved ==
    ASSUME HistoryInv, NEW v \in View, NEW profile \in Profile, NEW checks \in Seq(Check), Save(profile, v, checks)
    PROVE  \E new \in Snapshot, drop \in {0, 1} :
               /\ new.id = NewId /\ new.interfaces = v.interfaces /\ new.checks = checks
               /\ snapshots' \in Seq(Snapshot) /\ snapshots' # <<>> /\ Last(snapshots') = new
               /\ Len(snapshots') \in 1..MaxSnapshots /\ Len(snapshots') = Len(snapshots) + 1 - drop
               /\ snapshots'[Len(snapshots')] = new
               /\ \A i \in 1..(Len(snapshots') - 1) : snapshots'[i] = snapshots[i + drop]
<1>. DEFINE local == profile = "local"
            new == [id |-> NewId, profile |-> profile, interfaces |-> v.interfaces,
                    neighbors |-> IF local THEN <<>> ELSE v.neighbors,
                    nodes |-> IF local THEN Unread ELSE v.nodes,
                    services |-> IF local THEN Unread ELSE v.services, checks |-> checks]
<1>1. snapshots' = Retained(Append(snapshots, new))
  BY DEF Save
<1>2. new \in Snapshot
  <2>1. NewId \in SnapshotId
    BY NewIdIsNew
  <2>2. /\ (IF local THEN <<>> ELSE v.neighbors) \in Seq(Neighbor)
        /\ (IF local THEN Unread ELSE v.nodes) \in Seq(Seq(KubernetesNode))
        /\ (IF local THEN Unread ELSE v.services) \in Seq(Seq(KubernetesService))
    BY ViewIsTyped DEF Unread
  <2>3. v.interfaces \in Seq(Interface)
    BY ViewIsTyped
  <2>. QED
    BY <2>1, <2>2, <2>3 DEF Snapshot
<1>3. new.id = NewId /\ new.interfaces = v.interfaces /\ new.checks = checks
  OBVIOUS
<1>. HIDE DEF new
<1>4. snapshots \in Seq(Snapshot) /\ Len(snapshots) <= MaxSnapshots
  BY DEF HistoryInv
<1>5. PICK drop \in {0, 1} : LET t == Retained(Append(snapshots, new)) IN
               /\ t \in Seq(Snapshot) /\ Len(t) = Len(snapshots) + 1 - drop /\ Len(t) \in 1..MaxSnapshots
               /\ \A i \in 1..(Len(t) - 1) : t[i] = snapshots[i + drop]
               /\ t[Len(t)] = new /\ t # <<>> /\ Last(t) = new
  BY <1>2, <1>4, RetainedAreNewest
<1>. QED
  BY <1>1, <1>2, <1>3, <1>5

\* The history stays well formed: its ids tell the snapshots apart.
LEMMA HistoryIsKept ==
    ASSUME HistoryInv, Next
    PROVE  HistoryInv'
<1>1. PICK v \in View : \E profile \in Profile : \E checks \in Seq(Check) : Save(profile, v, checks)
  BY StepIsSave
<1>2. PICK profile \in Profile : \E checks \in Seq(Check) : Save(profile, v, checks)
  BY <1>1
<1>3. PICK checks \in Seq(Check) : Save(profile, v, checks)
  BY <1>2
<1>4. PICK new \in Snapshot, drop \in {0, 1} :
               /\ new.id = NewId /\ snapshots' \in Seq(Snapshot)
               /\ Len(snapshots') \in 1..MaxSnapshots /\ Len(snapshots') = Len(snapshots) + 1 - drop
               /\ snapshots'[Len(snapshots')] = new
               /\ \A i \in 1..(Len(snapshots') - 1) : snapshots'[i] = snapshots[i + drop]
  BY <1>3, Saved
<1>. DEFINE n == Len(snapshots)
            m == Len(snapshots')
<1>5. n \in Nat /\ m \in Nat /\ m = n + 1 - drop /\ m <= MaxSnapshots /\ m >= 1
  BY <1>4, CurrentStateAssumption DEF HistoryInv
<1>6. \A i \in 1..n : snapshots[i].id # new.id
  BY <1>4, NewIdIsNew
<1>7. \A i, j \in 1..n : snapshots[i].id = snapshots[j].id => i = j
  BY DEF HistoryInv
<1>8. ASSUME NEW i \in 1..m, NEW j \in 1..m, snapshots'[i].id = snapshots'[j].id PROVE i = j
  <2>1. \A k \in 1..m : k = m \/ (k \in 1..(m - 1) /\ k + drop \in 1..n)
    BY <1>5
  <2>2. snapshots'[m].id = new.id /\ \A k \in 1..(m - 1) : snapshots'[k].id = snapshots[k + drop].id
    BY <1>4
  <2>. HIDE DEF n, m
  <2>3. CASE i = m \/ j = m
    BY <1>6, <1>8, <2>1, <2>2, <2>3
  <2>4. CASE i # m /\ j # m
    <3>1. i + drop = j + drop
      BY <1>7, <1>8, <2>1, <2>2, <2>4
    <3>. QED
      BY <1>5, <3>1
  <2>. QED
    BY <2>3, <2>4
<1>. QED
  BY <1>4, <1>5, <1>8 DEF HistoryInv

THEOREM HistoryIsWellFormed == Spec => []HistoryInv
<1>1. Init => HistoryInv
  BY CurrentStateAssumption DEF Init, HistoryInv
<1>2. HistoryInv /\ [Next]_vars => HistoryInv'
  <2>1. CASE UNCHANGED vars
    BY <2>1 DEF vars, HistoryInv
  <2>. QED
    BY <2>1, HistoryIsKept
<1>. QED
  BY <1>1, <1>2, PTL DEF Spec

\* NET-03 .. NET-05, NET-08, UI-13: no scan has sent to anything but allowed private addresses,
\* or pinged the probe, and all that is offered to scan is shown, for every choice of ranges,
\* interfaces and settings.
THEOREM ScansStayInScope == Spec => []TargetsInScope
<1>1. Init => TargetsInScope
  BY DEF Init, TargetsInScope
<1>2. HistoryInv /\ TargetsInScope /\ [Next]_vars => TargetsInScope'
  <2>. SUFFICES ASSUME HistoryInv, TargetsInScope, [Next]_vars PROVE TargetsInScope'
    OBVIOUS
  <2>1. CASE UNCHANGED vars
    BY <2>1 DEF vars, TargetsInScope
  <2>2. CASE Next
    <3>1. PICK v \in View : \E profile \in Profile : \E checks \in Seq(Check) :
             Save(profile, v, checks) /\ InScope(v.interfaces, checks)
      BY <2>2, StepIsSave
    <3>2. PICK profile \in Profile : \E checks \in Seq(Check) : Save(profile, v, checks) /\ InScope(v.interfaces, checks)
      BY <3>1
    <3>3. PICK checks \in Seq(Check) : Save(profile, v, checks) /\ InScope(v.interfaces, checks)
      BY <3>2
    <3>. DEFINE new == Last(snapshots')
    <3>4. snapshots' # <<>> /\ new.interfaces = v.interfaces /\ new.checks = checks
      BY <3>3, Saved
    <3>. HIDE DEF new
    <3>5. ASSUME NEW i \in 1..Len(new.checks), new.checks[i].method # Mdns, NEW a \in new.checks[i].addresses
          PROVE  /\ \E r \in AllowedRange : ContainsIPv4(r, a)
                 /\ IsAllowedLocalIPv4(a)
                 /\ new.checks[i].method = Icmp => a \notin OwnAddresses(new.interfaces)
      <4>1. checks[i] \in ToSet(checks) /\ i \in 1..Len(checks)
        BY <3>4 DEF ToSet
      <4>. QED
        BY <3>3, <3>4, <3>5, <4>1 DEF InScope
    <3>6. ASSUME NEW x \in Context
          PROVE  LET offered == ScanCandidates(new.interfaces, x.settings)
                 IN  ShownCandidates(offered, new.interfaces, x.settings) = offered
      <4>1. new.interfaces \in Seq(Interface)
        BY <3>4, ViewIsTyped
      <4>. QED
        BY <4>1, OfferedIsShown
    <3>. QED
      BY <3>5, <3>6 DEF TargetsInScope, new
  <2>. QED
    BY <2>1, <2>2
<1>. QED
  BY <1>1, <1>2, HistoryIsWellFormed, PTL DEF Spec
-----------------------------------------------------------------------------
\* The components of a check.
LEMMA CheckIsTyped ==
    ASSUME NEW check \in Check
    PROVE  /\ check.method \in Method /\ check.addresses \subseteq Address /\ check.ports \subseteq Nat
           /\ check.responses \subseteq Endpoint /\ IsFiniteSet(check.responses)
  BY DEF Check

\* The responses of a check are a list of all of its endpoints.
LEMMA ResponsesAreListed ==
    ASSUME NEW c \in SnapshotId \X Check
    PROVE  /\ ResponsesOf(c) \in Seq(Response)
           /\ ToSet(ResponsesOf(c)) = {[method |-> c[2].method, endpoint |-> e, snapshot |-> c[1]] : e \in c[2].responses}
<1>. DEFINE R == c[2].responses
            low == [e \in R |-> {f \in R : f = e \/ Before(f, e)}]
            At(k) == CHOOSE e \in R : Position(e, R) = k
            Made_(e) == [method |-> c[2].method, endpoint |-> e, snapshot |-> c[1]]
<1>1. c[1] \in SnapshotId /\ c[2] \in Check
  OBVIOUS
<1>2. c[1] \in Nat /\ c[2].method \in Method /\ R \subseteq Endpoint /\ IsFiniteSet(R)
  BY <1>1, CheckIsTyped, CurrentStateAssumption DEF SnapshotId
<1>3. \A e \in R : e[1] \in Int /\ e[2] \in Int /\ e = <<e[1], e[2]>>
  <2>1. \A e \in Endpoint : e[1] \in Int /\ e[2] \in Int /\ e = <<e[1], e[2]>>
    BY DEF Endpoint, Address
  <2>. HIDE DEF R
  <2>. QED
    BY <1>2, <2>1
<1>. HIDE DEF R
<1>4. Orders(low, R)
  <2>1. ASSUME NEW x \in R, NEW y \in R, Before(x, y) PROVE low[x] \subseteq low[y] /\ y \notin low[x]
    <3>1. \A f \in R : Before(f, x) => Before(f, y)
      BY <1>3, <2>1 DEF Before
    <3>2. y # x /\ ~Before(y, x)
      BY <1>3, <2>1 DEF Before
    <3>. QED
      BY <2>1, <3>1, <3>2
  <2>2. \A x, y \in R : x = y \/ Before(x, y) \/ Before(y, x)
    <3>. SUFFICES ASSUME NEW x \in R, NEW y \in R, ~Before(x, y), ~Before(y, x) PROVE x = y
      OBVIOUS
    <3>1. x[1] = y[1] /\ x[2] = y[2]
      BY <1>3 DEF Before
    <3>. QED
      BY <1>3, <3>1
  <2>3. low \in [R -> SUBSET R] /\ \A x \in R : x \in low[x]
    OBVIOUS
  <2>. HIDE DEF low
  <2>. QED
    BY <2>1, <2>2, <2>3 DEF Orders
<1>5. \A e \in R : Position(e, R) = Cardinality(low[e])
  BY DEF Position
<1>. HIDE DEF low
<1>6. /\ Cardinality(R) \in Nat
      /\ \A x \in R : Cardinality(low[x]) \in 1..Cardinality(R)
      /\ \A x, y \in R : Cardinality(low[x]) = Cardinality(low[y]) => x = y
      /\ RanksOf(low, R) = 1..Cardinality(R)
  BY <1>2, <1>4, Ranks
<1>7. \A k \in 1..Cardinality(R) : At(k) \in R
  <2>1. \A k \in 1..Cardinality(R) : \E e \in R : Position(e, R) = k
    BY <1>5, <1>6 DEF RanksOf
  <2>. QED
    BY <2>1
<1>8. \A e \in R : Position(e, R) \in 1..Cardinality(R) /\ At(Position(e, R)) = e
  BY <1>5, <1>6
<1>. HIDE DEF At
<1>9. ResponsesOf(c) = [k \in 1..Cardinality(R) |-> Made_(At(k))]
  BY DEF ResponsesOf, At, R
<1>10. \A e \in R : Made_(e) \in Response
  BY <1>2 DEF Response
<1>. HIDE DEF Made_
<1>11. ResponsesOf(c) \in Seq(Response) /\ DOMAIN ResponsesOf(c) = 1..Cardinality(R)
  BY <1>6, <1>7, <1>9, <1>10
<1>12. ToSet(ResponsesOf(c)) = {Made_(e) : e \in R}
  <2>1. \A x \in ToSet(ResponsesOf(c)) : \E e \in R : x = Made_(e)
    BY <1>7, <1>9, <1>11 DEF ToSet
  <2>2. ASSUME NEW e \in R PROVE Made_(e) \in ToSet(ResponsesOf(c))
    BY <1>8, <1>9, <1>11 DEF ToSet
  <2>. QED
    BY <2>1, <2>2
<1>. QED
  BY <1>11, <1>12 DEF Made_, R

\* What a check leaves of the responses, and what it adds.
LEMMA Superseded ==
    ASSUME NEW responses \in Seq(Response), NEW c \in SnapshotId \X Check
    PROVE  /\ Supersede(responses, c) \in Seq(Response)
           /\ ToSet(Supersede(responses, c)) =
                 {r \in ToSet(responses) : ~(r.method = c[2].method /\ Covers(c[2], r.endpoint))} \cup ToSet(ResponsesOf(c))
<1>. DEFINE left == {r \in ToSet(responses) : ~(r.method = c[2].method /\ Covers(c[2], r.endpoint))}
            kept == Kept(responses, left)
<1>1. Supersede(responses, c) = kept \o ResponsesOf(c)
  BY DEF Supersede
<1>. HIDE DEF left
<1>2. kept \in Seq(Response) /\ ToSet(kept) = {r \in ToSet(responses) : r \in left}
  BY KeptElements
<1>. HIDE DEF kept
<1>3. ResponsesOf(c) \in Seq(Response)
  BY ResponsesAreListed
<1>4. ToSet(kept \o ResponsesOf(c)) = ToSet(kept) \cup ToSet(ResponsesOf(c)) /\ kept \o ResponsesOf(c) \in Seq(Response)
  BY <1>2, <1>3, Joined
<1>5. {r \in ToSet(responses) : r \in left} = left
  BY DEF left
<1>6. Supersede(responses, c) \in Seq(Response) /\ ToSet(Supersede(responses, c)) = left \cup ToSet(ResponsesOf(c))
  BY <1>1, <1>2, <1>4, <1>5
<1>. QED
  BY <1>6 DEF left

\* The current responses are what one check after the other has made of none.
LEMMA CurrentRuns ==
    ASSUME NEW checks \in Seq(SnapshotId \X Check)
    PROVE  \E states \in [0..Len(checks) -> Seq(Response)] :
               /\ states[0] = <<>> /\ states[Len(checks)] = CurrentResponses(checks)
               /\ \A k \in 1..Len(checks) : states[k] = Supersede(states[k - 1], checks[k])
<1>. DEFINE T == Seq(Response)
            n == Len(checks)
            Follows(f) == f = [t \in SUBSET (1..n) |-> IF t = {} THEN <<>> ELSE Supersede(f[t \ {Max(t)}], checks[Max(t)])]
            f == CHOOSE g : Follows(g)
            step == [p \in T \X (1..n) |-> Supersede(p[1], checks[p[2]])]
<1>1. n \in Nat /\ DOMAIN checks = 1..n /\ <<>> \in T /\ \A k \in 1..n : checks[k] \in SnapshotId \X Check
  OBVIOUS
<1>2. CurrentResponses(checks) = f[1..n]
  <2>1. CurrentResponses(checks)
         = (CHOOSE g : g = [t \in SUBSET DOMAIN checks |->
                                 IF t = {} THEN <<>> ELSE Supersede(g[t \ {Max(t)}], checks[Max(t)])])[DOMAIN checks]
    BY Zenon DEF CurrentResponses, FoldLeft, MapThenFoldSet
  <2>. QED
    BY <1>1, <2>1, Zenon
<1>3. step \in [T \X (1..n) -> T]
  BY <1>1, Superseded
<1>4. \A x \in T, k \in 1..n : step[<<x, k>>] = Supersede(x, checks[k])
  OBVIOUS
<1>. HIDE DEF step, n, T
<1>5. \E g : Follows(g)
  <2>1. PICK g \in [SUBSET (1..n) -> T] : FoldedBy(g, n, <<>>, step)
    BY <1>1, <1>3, FoldExists
  <2>2. \A t \in SUBSET (1..n) : t # {} => Max(t) \in 1..n /\ g[t \ {Max(t)}] \in T
    BY <1>1, <2>1, GreatestOfPart
  <2>3. \A t \in SUBSET (1..n) : g[t] = IF t = {} THEN <<>> ELSE Supersede(g[t \ {Max(t)}], checks[Max(t)])
    BY <1>4, <2>1, <2>2 DEF FoldedBy
  <2>4. g = [t \in SUBSET (1..n) |-> g[t]]
    BY <2>1
  <2>. QED
    BY <2>3, <2>4, Zenon
<1>6. Follows(f)
  BY <1>5, Zenon
<1>. HIDE DEF f
<1>7. f[{}] = <<>> /\ \A t \in SUBSET (1..n) : t # {} => f[t] = Supersede(f[t \ {Max(t)}], checks[Max(t)])
  BY <1>6
<1>8. \A t \in SUBSET (1..n) : t # {} /\ f[t \ {Max(t)}] \in T => f[t] = step[<<f[t \ {Max(t)}], Max(t)>>]
  BY <1>1, <1>4, <1>7, GreatestOfPart
<1>9. PICK states \in [0..n -> T] : Runs(states, n, <<>>, step, f[1..n])
  BY <1>1, <1>3, <1>7, <1>8, FoldRuns
<1>10. \A k \in 1..n : states[k] = Supersede(states[k - 1], checks[k])
  <2>1. \A k \in 1..n : states[k - 1] \in T
    <3>1. \A k \in 1..n : k - 1 \in 0..n
      BY <1>1
    <3>. QED
      BY <3>1
  <2>. QED
    BY <1>4, <1>9, <2>1 DEF Runs
<1>. QED
  BY <1>2, <1>9, <1>10 DEF n, T, Runs

\* A response of the i-th check stands up to the k-th if no later one has covered it.
Stands(checks, i, k, r) ==
    /\ r \in ToSet(ResponsesOf(checks[i]))
    /\ \A j \in (i + 1)..k : ~(checks[j][2].method = r.method /\ Covers(checks[j][2], r.endpoint))

LEMMA LastWord ==
    ASSUME NEW checks \in Seq(SnapshotId \X Check)
    PROVE  /\ CurrentResponses(checks) \in Seq(Response)
           /\ \A r : r \in ToSet(CurrentResponses(checks)) <=> \E i \in 1..Len(checks) : Stands(checks, i, Len(checks), r)
<1>. DEFINE n == Len(checks)
<1>1. n \in Nat /\ \A k \in 1..n : checks[k] \in SnapshotId \X Check
  OBVIOUS
<1>2. PICK states \in [0..n -> Seq(Response)] :
         /\ states[0] = <<>> /\ states[n] = CurrentResponses(checks)
         /\ \A k \in 1..n : states[k] = Supersede(states[k - 1], checks[k])
  BY CurrentRuns
<1>. HIDE DEF n
<1>. DEFINE S == {k \in 0..n : \A r : r \in ToSet(states[k]) <=> \E i \in 1..k : Stands(checks, i, k, r)}
<1>3. 0 \in S
  <2>1. ToSet(<<>>) = {} /\ 1..0 = {} /\ 0 \in 0..n
    BY <1>1 DEF ToSet
  <2>. QED
    BY <1>2, <2>1
<1>4. ASSUME NEW k \in 0..(n - 1), k \in S PROVE k + 1 \in S
  <2>1. k + 1 \in 1..n /\ k + 1 \in 0..n /\ k \in 0..n /\ k \in Nat /\ (k + 1) - 1 = k
    BY <1>1
  <2>. DEFINE c == checks[k + 1]
              Covered(r) == c[2].method = r.method /\ Covers(c[2], r.endpoint)
  <2>2. c \in SnapshotId \X Check /\ states[k] \in Seq(Response) /\ states[k + 1] = Supersede(states[k], c)
    BY <1>1, <1>2, <2>1
  <2>3. \A r : r \in ToSet(states[k + 1]) <=> (r \in ToSet(states[k]) /\ ~Covered(r)) \/ r \in ToSet(ResponsesOf(c))
    <3>. DEFINE old == states[k]
    <3>1. ToSet(Supersede(old, c)) = {r \in ToSet(old) : ~(c[2].method = r.method /\ Covers(c[2], r.endpoint))} \cup ToSet(ResponsesOf(c))
      <4>1. {r \in ToSet(old) : ~(c[2].method = r.method /\ Covers(c[2], r.endpoint))}
              = {r \in ToSet(old) : ~(r.method = c[2].method /\ Covers(c[2], r.endpoint))}
        OBVIOUS
      <4>2. old \in Seq(Response) /\ c \in SnapshotId \X Check
        BY <2>2
      <4>. HIDE DEF c, old
      <4>. QED
        BY <4>1, <4>2, Superseded
    <3>. HIDE DEF c, old
    <3>. QED
      BY <2>2, <3>1 DEF old
  <2>4. \A r : r \in ToSet(states[k]) <=> \E i \in 1..k : Stands(checks, i, k, r)
    BY <1>4
  <2>5. \A r : Stands(checks, k + 1, k + 1, r) <=> r \in ToSet(ResponsesOf(c))
    <3>1. ((k + 1) + 1)..(k + 1) = {}
      BY <2>1
    <3>. QED
      BY <3>1 DEF Stands
  <2>6. ASSUME NEW i \in 1..k, NEW r PROVE Stands(checks, i, k + 1, r) <=> Stands(checks, i, k, r) /\ ~Covered(r)
    <3>1. \A j \in (i + 1)..(k + 1) : j \in (i + 1)..k \/ j = k + 1
      BY <2>1
    <3>2. k + 1 \in (i + 1)..(k + 1) /\ \A j \in (i + 1)..k : j \in (i + 1)..(k + 1)
      BY <2>1
    <3>. QED
      BY <3>1, <3>2 DEF Stands
  <2>7. (\A i \in 1..(k + 1) : i \in 1..k \/ i = k + 1) /\ k + 1 \in 1..(k + 1) /\ \A i \in 1..k : i \in 1..(k + 1)
    BY <2>1
  <2>. HIDE DEF Covered, c
  <2>8. \A r : r \in ToSet(states[k + 1]) <=> \E i \in 1..(k + 1) : Stands(checks, i, k + 1, r)
    BY <2>3, <2>4, <2>5, <2>6, <2>7
  <2>. QED
    BY <2>1, <2>8
<1>5. n \in S
  <2>1. \A k \in 0..n : k \in S
    <3>. HIDE DEF S
    <3>. QED
      BY <1>1, <1>3, <1>4, Induction
  <2>. QED
    BY <1>1, <2>1
<1>6. states[n] \in Seq(Response)
  BY <1>1, <1>2
<1>. QED
  BY <1>2, <1>5, <1>6 DEF n

\* The checks of the history, in their order: those of the i-th snapshot lie behind ends[i - 1].
LEMMA ChecksOfHistory ==
    ASSUME NEW s \in Seq(Snapshot)
    PROVE  \E ends \in [0..Len(s) -> Nat] :
               /\ ends[0] = 0 /\ \A i \in 1..Len(s) : ends[i] = ends[i - 1] + Len(s[i].checks)
               /\ Checks(s) \in Seq(SnapshotId \X Check) /\ Len(Checks(s)) = ends[Len(s)]
               /\ \A i \in 1..Len(s) : \A j \in 1..Len(s[i].checks) :
                     ends[i - 1] + j \in 1..ends[Len(s)] /\ Checks(s)[ends[i - 1] + j] = <<s[i].id, s[i].checks[j]>>
<1>. DEFINE q == [i \in 1..Len(s) |-> ChecksOf(s[i])]
            T == SnapshotId \X Check
<1>1. Len(s) \in Nat /\ \A i \in 1..Len(s) : s[i] \in Snapshot
  OBVIOUS
<1>2. ASSUME NEW x \in Snapshot
      PROVE  /\ ChecksOf(x) \in Seq(T) /\ Len(ChecksOf(x)) = Len(x.checks)
             /\ \A j \in 1..Len(x.checks) : ChecksOf(x)[j] = <<x.id, x.checks[j]>>
  <2>1. x.id \in SnapshotId /\ x.checks \in Seq(Check)
    BY DEF Snapshot
  <2>2. Len(x.checks) \in Nat /\ \A j \in 1..Len(x.checks) : x.checks[j] \in Check
    BY <2>1
  <2>. QED
    BY <2>1, <2>2 DEF ChecksOf
<1>3. q \in Seq(Seq(T)) /\ Len(q) = Len(s) /\ \A i \in 1..Len(s) : q[i] = ChecksOf(s[i])
  <2>. HIDE DEF T
  <2>. QED
    BY <1>1, <1>2
<1>. HIDE DEF q, T
<1>4. PICK ends \in [0..Len(q) -> Nat] :
         /\ ends[0] = 0 /\ \A i \in 1..Len(q) : ends[i] = ends[i - 1] + Len(q[i])
         /\ FlattenSeq(q) \in Seq(T) /\ Len(FlattenSeq(q)) = ends[Len(q)]
         /\ \A i \in 1..Len(q) : \A j \in 1..Len(q[i]) :
               ends[i - 1] + j \in 1..ends[Len(q)] /\ FlattenSeq(q)[ends[i - 1] + j] = q[i][j]
  BY <1>3, Flattened
<1>5. Checks(s) = FlattenSeq(q)
  BY DEF Checks, q
<1>6. \A i \in 1..Len(s) : /\ Len(q[i]) = Len(s[i].checks)
                           /\ \A j \in 1..Len(s[i].checks) : q[i][j] = <<s[i].id, s[i].checks[j]>>
  BY <1>1, <1>2, <1>3
<1>7. /\ ends \in [0..Len(s) -> Nat] /\ ends[0] = 0 /\ \A i \in 1..Len(s) : ends[i] = ends[i - 1] + Len(s[i].checks)
      /\ Checks(s) \in Seq(T) /\ Len(Checks(s)) = ends[Len(s)]
      /\ \A i \in 1..Len(s) : \A j \in 1..Len(s[i].checks) :
            ends[i - 1] + j \in 1..ends[Len(s)] /\ Checks(s)[ends[i - 1] + j] = <<s[i].id, s[i].checks[j]>>
  <2>1. ends \in [0..Len(s) -> Nat] /\ Checks(s) \in Seq(T) /\ Len(Checks(s)) = ends[Len(s)] /\ ends[0] = 0
    BY <1>3, <1>4, <1>5
  <2>2. \A i \in 1..Len(s) : ends[i] = ends[i - 1] + Len(s[i].checks)
    BY <1>3, <1>4, <1>6
  <2>3. ASSUME NEW i \in 1..Len(s), NEW j \in 1..Len(s[i].checks)
        PROVE  ends[i - 1] + j \in 1..ends[Len(s)] /\ Checks(s)[ends[i - 1] + j] = <<s[i].id, s[i].checks[j]>>
    <3>1. i \in 1..Len(q) /\ j \in 1..Len(q[i]) /\ q[i][j] = <<s[i].id, s[i].checks[j]>>
      BY <1>3, <1>6
    <3>. QED
      BY <1>3, <1>4, <1>5, <3>1
  <2>. QED
    BY <2>1, <2>2, <2>3
<1>. QED
  BY <1>7 DEF T

\* INV-02, OBS-05, of every history: the current responses are those that no later check has covered.
LEMMA LastWordHolds ==
    ASSUME HistoryInv
    PROVE  ResponsesAreLastWord
<1>. DEFINE checks == Checks(snapshots)
            n == Len(checks)
            Left(i) == {r \in ToSet(ResponsesOf(checks[i])) :
                           \A j \in (i + 1)..n : checks[j][2].method = r.method => ~Covers(checks[j][2], r.endpoint)}
<1>1. checks \in Seq(SnapshotId \X Check)
  BY ChecksOfHistory DEF HistoryInv
<1>. HIDE DEF checks
<1>2. \A r : r \in ToSet(CurrentResponses(checks)) <=> \E i \in 1..n : Stands(checks, i, n, r)
  BY <1>1, LastWord
<1>3. \A i \in 1..n : \A r : Stands(checks, i, n, r) <=> r \in Left(i)
  BY DEF Stands
<1>. HIDE DEF n, Left
<1>4. ToSet(CurrentResponses(checks)) = UNION {Left(i) : i \in 1..n}
  BY <1>2, <1>3
<1>. QED
  BY <1>4 DEF ResponsesAreLastWord, checks, n, Left

\* The same, by the snapshot and the number of the check.
StandsIn(s, i, j, r) ==
    /\ r \in ToSet(ResponsesOf(<<s[i].id, s[i].checks[j]>>))
    /\ \A k \in i..Len(s) : \A l \in 1..Len(s[k].checks) :
          k > i \/ l > j => ~(s[k].checks[l].method = r.method /\ Covers(s[k].checks[l], r.endpoint))

LEMMA LastWordOfHistory ==
    ASSUME NEW s \in Seq(Snapshot)
    PROVE  \A r : r \in ToSet(CurrentResponses(Checks(s))) <=>
                     \E i \in 1..Len(s) : \E j \in 1..Len(s[i].checks) : StandsIn(s, i, j, r)
<1>. DEFINE all == Checks(s)
            n == Len(s)
            size == [i \in 1..n |-> Len(s[i].checks)]
<1>1. PICK ends \in [0..n -> Nat] :
               /\ ends[0] = 0 /\ \A i \in 1..n : ends[i] = ends[i - 1] + Len(s[i].checks)
               /\ all \in Seq(SnapshotId \X Check) /\ Len(all) = ends[n]
               /\ \A i \in 1..n : \A j \in 1..Len(s[i].checks) :
                     ends[i - 1] + j \in 1..ends[n] /\ all[ends[i - 1] + j] = <<s[i].id, s[i].checks[j]>>
  BY ChecksOfHistory
<1>2. n \in Nat /\ size \in [1..n -> Nat] /\ \A i \in 1..n : size[i] = Len(s[i].checks)
  <2>1. n \in Nat /\ \A i \in 1..n : s[i] \in Snapshot
    OBVIOUS
  <2>2. \A x \in Snapshot : x.checks \in Seq(Check)
    BY DEF Snapshot
  <2>3. \A i \in 1..n : Len(s[i].checks) \in Nat
    BY <2>1, <2>2
  <2>. QED
    BY <2>1, <2>3
<1>3. \A r : r \in ToSet(CurrentResponses(all)) <=> \E p \in 1..ends[n] : Stands(all, p, ends[n], r)
  BY <1>1, LastWord
<1>. HIDE DEF all, n, size
<1>4. \A i \in 1..n : ends[i] = ends[i - 1] + size[i]
  BY <1>1, <1>2
<1>5. /\ \A p \in 1..ends[n] : \E i \in 1..n : p - ends[i - 1] \in 1..size[i]
      /\ \A i, j \in 0..n : i <= j => ends[i] <= ends[j]
  BY <1>1, <1>2, <1>4, Places
<1>6. \A i \in 1..n : i - 1 \in 0..n /\ i \in 0..n /\ ends[i - 1] \in Nat /\ ends[i] \in Nat /\ i \in Nat
  <2>1. \A i \in 1..n : i - 1 \in 0..n /\ i \in 0..n /\ i \in Nat
    BY <1>2
  <2>. QED
    BY <2>1
<1>7. ASSUME NEW p \in 1..ends[n]
      PROVE  \E i \in 1..n : \E j \in 1..size[i] : p = ends[i - 1] + j
  <2>1. PICK i \in 1..n : p - ends[i - 1] \in 1..size[i]
    BY <1>5
  <2>2. ends[i - 1] + (p - ends[i - 1]) = p
    BY <1>6
  <2>. QED
    BY <2>1, <2>2
<1>8. ASSUME NEW i \in 1..n, NEW j \in 1..size[i], NEW k \in 1..n, NEW l \in 1..size[k]
      PROVE  ends[k - 1] + l > ends[i - 1] + j <=> k > i \/ (k = i /\ l > j)
  <2>1. ends[i] = ends[i - 1] + size[i] /\ ends[k] = ends[k - 1] + size[k] /\ size[i] \in Nat /\ size[k] \in Nat
    BY <1>2, <1>4
  <2>2. CASE k > i
    <3>1. i <= k - 1
      BY <1>6, <2>2
    <3>2. ends[i] <= ends[k - 1]
      BY <1>5, <1>6, <3>1
    <3>. QED
      BY SMTT(20), <1>6, <2>1, <2>2, <3>2
  <2>3. CASE k < i
    <3>1. k <= i - 1
      BY <1>6, <2>3
    <3>2. ends[k] <= ends[i - 1]
      BY <1>5, <1>6, <3>1
    <3>. QED
      BY SMTT(20), <1>6, <2>1, <2>3, <3>2
  <2>4. CASE k = i
    BY <1>6, <2>4
  <2>. QED
    BY <1>6, <2>2, <2>3, <2>4
<1>9. \A i \in 1..n : \A j \in 1..size[i] :
         ends[i - 1] + j \in 1..ends[n] /\ all[ends[i - 1] + j] = <<s[i].id, s[i].checks[j]>>
  BY <1>1, <1>2
<1>10. ASSUME NEW r, NEW i \in 1..n, NEW j \in 1..size[i]
       PROVE  Stands(all, ends[i - 1] + j, ends[n], r) <=> StandsIn(s, i, j, r)
  <2>. DEFINE p == ends[i - 1] + j
              Covered(c) == c.method = r.method /\ Covers(c, r.endpoint)
  <2>1. p \in 1..ends[n] /\ all[p] = <<s[i].id, s[i].checks[j]>>
    BY <1>9
  <2>2. Stands(all, p, ends[n], r) <=> /\ r \in ToSet(ResponsesOf(<<s[i].id, s[i].checks[j]>>))
                                       /\ \A m \in (p + 1)..ends[n] : ~Covered(all[m][2])
    BY <2>1 DEF Stands
  <2>3. StandsIn(s, i, j, r) <=> /\ r \in ToSet(ResponsesOf(<<s[i].id, s[i].checks[j]>>))
                                 /\ \A k \in i..n : \A l \in 1..size[k] : k > i \/ l > j => ~Covered(s[k].checks[l])
    <3>1. \A k \in i..n : k \in 1..n
      BY <1>2
    <3>2. \A k \in i..n : size[k] = Len(s[k].checks)
      BY <1>2, <3>1
    <3>. QED
      BY <3>2 DEF StandsIn, n
  <2>. HIDE DEF Covered, p
  <2>4. p \in Nat /\ ends[n] \in Nat
    BY SMTT(20), <1>2, <1>6, <2>1 DEF p
  <2>5. ASSUME \A m \in (p + 1)..ends[n] : ~Covered(all[m][2]), NEW k \in i..n, NEW l \in 1..size[k], k > i \/ l > j
        PROVE  ~Covered(s[k].checks[l])
    <3>. DEFINE m == ends[k - 1] + l
    <3>1. k \in 1..n /\ (k > i \/ (k = i /\ l > j))
      BY <1>2, <1>6, <2>5
    <3>2. m \in 1..ends[n] /\ all[m] = <<s[k].id, s[k].checks[l]>> /\ m > p
      BY <1>8, <1>9, <3>1 DEF p
    <3>. HIDE DEF m
    <3>3. m \in (p + 1)..ends[n]
      BY <2>4, <3>2
    <3>4. all[m][2] = s[k].checks[l]
      BY <3>2, PairAt
    <3>. QED
      BY <2>5, <3>3, <3>4
  <2>6. ASSUME \A k \in i..n : \A l \in 1..size[k] : k > i \/ l > j => ~Covered(s[k].checks[l]), NEW m \in (p + 1)..ends[n]
        PROVE  ~Covered(all[m][2])
    <3>1. m \in 1..ends[n] /\ m > p
      BY <2>4
    <3>2. PICK k \in 1..n : \E l \in 1..size[k] : m = ends[k - 1] + l
      BY <1>7, <3>1
    <3>3. PICK l \in 1..size[k] : m = ends[k - 1] + l
      BY <3>2
    <3>4. k > i \/ (k = i /\ l > j)
      BY <1>8, <3>1, <3>3 DEF p
    <3>5. k \in i..n
      BY <1>2, <1>6, <3>4
    <3>6. all[m] = <<s[k].id, s[k].checks[l]>>
      BY <1>9, <3>3
    <3>7. all[m][2] = s[k].checks[l]
      BY <3>6, PairAt
    <3>. QED
      BY <2>6, <3>4, <3>5, <3>7
  <2>7. Stands(all, p, ends[n], r) <=> StandsIn(s, i, j, r)
    BY <2>2, <2>3, <2>5, <2>6
  <2>. QED
    BY <2>7 DEF p
<1>11. \A r : (\E p \in 1..ends[n] : Stands(all, p, ends[n], r)) <=> \E i \in 1..n : \E j \in 1..size[i] : StandsIn(s, i, j, r)
  <2>1. ASSUME NEW r, NEW p \in 1..ends[n], Stands(all, p, ends[n], r)
        PROVE  \E i \in 1..n : \E j \in 1..size[i] : StandsIn(s, i, j, r)
    <3>1. PICK i \in 1..n : \E j \in 1..size[i] : p = ends[i - 1] + j
      BY <1>7
    <3>2. PICK j \in 1..size[i] : p = ends[i - 1] + j
      BY <3>1
    <3>. QED
      BY <1>10, <2>1, <3>2
  <2>2. ASSUME NEW r, NEW i \in 1..n, NEW j \in 1..size[i], StandsIn(s, i, j, r)
        PROVE  \E p \in 1..ends[n] : Stands(all, p, ends[n], r)
    BY <1>9, <1>10, <2>2
  <2>. QED
    BY <2>1, <2>2
<1>12. \A r : (\E i \in 1..n : \E j \in 1..size[i] : StandsIn(s, i, j, r)) <=>
                \E i \in 1..n : \E j \in 1..Len(s[i].checks) : StandsIn(s, i, j, r)
  BY <1>2
<1>. QED
  BY <1>3, <1>11, <1>12 DEF all, n

\* A response of a check has the id of its snapshot.
LEMMA ResponseHasId ==
    ASSUME NEW id \in SnapshotId, NEW check \in Check, NEW r \in ToSet(ResponsesOf(<<id, check>>))
    PROVE  r.snapshot = id
<1>. DEFINE c == <<id, check>>
<1>1. c \in SnapshotId \X Check /\ c[1] = id
  OBVIOUS
<1>. HIDE DEF c
<1>2. ToSet(ResponsesOf(c)) = {[method |-> c[2].method, endpoint |-> e, snapshot |-> c[1]] : e \in c[2].responses}
  BY <1>1, ResponsesAreListed
<1>3. r \in ToSet(ResponsesOf(c))
  BY DEF c
<1>. QED
  BY <1>1, <1>2, <1>3

\* OBS-05, OBS-06, of every step: a response that goes has been covered by a check of the new
\* snapshot or goes with its own, and one that comes is of the new snapshot.
LEMMA SaveKeepsResponses ==
    ASSUME HistoryInv, NEW v \in View, NEW profile \in Profile, NEW checks \in Seq(Check), Save(profile, v, checks)
    PROVE  OnlyChecksCount
<1>1. PICK new \in Snapshot, drop \in {0, 1} :
               /\ new.id = NewId
               /\ snapshots' \in Seq(Snapshot) /\ Last(snapshots') = new
               /\ Len(snapshots') \in 1..MaxSnapshots /\ Len(snapshots') = Len(snapshots) + 1 - drop
               /\ snapshots'[Len(snapshots')] = new
               /\ \A i \in 1..(Len(snapshots') - 1) : snapshots'[i] = snapshots[i + drop]
  BY Saved
<1>. DEFINE s == snapshots
            t == snapshots'
            n == Len(s)
            m == Len(t)
            before == ToSet(CurrentResponses(Checks(s)))
            after == ToSet(CurrentResponses(Checks(t)))
            Covered(check, r) == check.method = r.method /\ Covers(check, r.endpoint)
<1>2. s \in Seq(Snapshot) /\ t \in Seq(Snapshot) /\ \A i, j \in 1..n : s[i].id = s[j].id => i = j
  BY <1>1 DEF HistoryInv
<1>3. n \in Nat /\ m \in Nat /\ m >= 1 /\ m = n + 1 - drop /\ drop \in {0, 1}
  BY <1>1, <1>2, CurrentStateAssumption
<1>4. \A i \in 1..n : s[i].id # new.id
  BY <1>1, NewIdIsNew
<1>5. t[m] = new /\ \A i \in 1..(m - 1) : t[i] = s[i + drop]
  BY <1>1
<1>6. \A r : r \in before <=> \E i \in 1..n : \E j \in 1..Len(s[i].checks) : StandsIn(s, i, j, r)
  BY <1>2, LastWordOfHistory
<1>7. \A r : r \in after <=> \E i \in 1..m : \E j \in 1..Len(t[i].checks) : StandsIn(t, i, j, r)
  BY <1>2, LastWordOfHistory
<1>. HIDE DEF s, t, n, m, before, after
<1>8. ASSUME NEW i \in 1..(m - 1), NEW j \in 1..Len(t[i].checks), NEW r
      PROVE  StandsIn(t, i, j, r) <=> StandsIn(s, i + drop, j, r) /\ \A l \in 1..Len(new.checks) : ~Covered(new.checks[l], r)
  <2>1. i \in 1..m /\ i + drop \in 1..n /\ t[i] = s[i + drop] /\ i < m /\ m \in i..m
    BY <1>3, <1>5
  <2>2. StandsIn(t, i, j, r) <=>
           /\ r \in ToSet(ResponsesOf(<<t[i].id, t[i].checks[j]>>))
           /\ \A k \in i..m : \A l \in 1..Len(t[k].checks) : k > i \/ l > j => ~Covered(t[k].checks[l], r)
    BY DEF StandsIn, m
  <2>3. StandsIn(s, i + drop, j, r) <=>
           /\ r \in ToSet(ResponsesOf(<<t[i].id, t[i].checks[j]>>))
           /\ \A k \in (i + drop)..n : \A l \in 1..Len(s[k].checks) : k > i + drop \/ l > j => ~Covered(s[k].checks[l], r)
    BY <2>1 DEF StandsIn, n
  <2>. HIDE DEF Covered
  <2>4. \A k \in i..m : k = m \/ (k \in 1..(m - 1) /\ k + drop \in (i + drop)..n /\ t[k] = s[k + drop] /\ (k > i <=> k + drop > i + drop))
    BY <1>3, <1>5
  <2>5. \A k \in (i + drop)..n : k - drop \in i..m /\ k - drop \in 1..(m - 1) /\ t[k - drop] = s[k] /\ (k - drop > i <=> k > i + drop)
    <3>1. \A k \in (i + drop)..n : k - drop \in i..m /\ k - drop \in 1..(m - 1) /\ (k - drop) + drop = k /\ (k - drop > i <=> k > i + drop)
      BY <1>3
    <3>. QED
      BY <1>5, <3>1
  <2>6. ASSUME StandsIn(t, i, j, r)
        PROVE  StandsIn(s, i + drop, j, r) /\ \A l \in 1..Len(new.checks) : ~Covered(new.checks[l], r)
    <3>1. \A l \in 1..Len(new.checks) : ~Covered(new.checks[l], r)
      <4>1. m > i
        BY <1>3
      <4>. QED
        BY <1>5, <2>1, <2>2, <2>6, <4>1
    <3>2. ASSUME NEW k \in (i + drop)..n, NEW l \in 1..Len(s[k].checks), k > i + drop \/ l > j
          PROVE  ~Covered(s[k].checks[l], r)
      BY <2>2, <2>5, <2>6, <3>2
    <3>. QED
      BY <2>2, <2>3, <2>6, <3>1, <3>2
  <2>7. ASSUME StandsIn(s, i + drop, j, r), \A l \in 1..Len(new.checks) : ~Covered(new.checks[l], r)
        PROVE  StandsIn(t, i, j, r)
    <3>1. ASSUME NEW k \in i..m, NEW l \in 1..Len(t[k].checks), k > i \/ l > j PROVE ~Covered(t[k].checks[l], r)
      <4>1. CASE k = m
        BY <1>5, <2>7, <3>1, <4>1
      <4>2. CASE k # m
        BY <2>3, <2>4, <2>7, <3>1, <4>2
      <4>. QED
        BY <4>1, <4>2
    <3>. QED
      BY <2>2, <2>3, <2>7, <3>1
  <2>. QED
    BY <2>6, <2>7
<1>9. ASSUME NEW x \in Snapshot, NEW j \in 1..Len(x.checks), NEW r \in ToSet(ResponsesOf(<<x.id, x.checks[j]>>))
      PROVE  r.snapshot = x.id
  <2>1. x.id \in SnapshotId /\ x.checks \in Seq(Check)
    BY DEF Snapshot
  <2>2. x.checks[j] \in Check
    BY <2>1
  <2>. QED
    BY <1>9, <2>1, <2>2, ResponseHasId
<1>10. ASSUME NEW r \in after, r \notin before PROVE r.snapshot = new.id
  <2>1. PICK i \in 1..m : \E j \in 1..Len(t[i].checks) : StandsIn(t, i, j, r)
    BY <1>7
  <2>2. PICK j \in 1..Len(t[i].checks) : StandsIn(t, i, j, r)
    BY <2>1
  <2>3. i = m
    <3>. SUFFICES ASSUME i # m PROVE FALSE
      OBVIOUS
    <3>1. i \in 1..(m - 1) /\ i + drop \in 1..n /\ t[i] = s[i + drop]
      BY <1>3, <1>5
    <3>2. StandsIn(s, i + drop, j, r)
      BY <1>8, <2>2, <3>1
    <3>. QED
      BY <1>6, <1>10, <3>1, <3>2
  <2>4. r \in ToSet(ResponsesOf(<<new.id, new.checks[j]>>)) /\ j \in 1..Len(new.checks)
    BY <1>5, <2>2, <2>3 DEF StandsIn
  <2>. QED
    BY <1>9, <2>4
<1>11. ASSUME NEW r \in before, r \notin after,
              \A l \in 1..Len(new.checks) : ~Covered(new.checks[l], r)
       PROVE  \A i \in 1..m : r.snapshot # t[i].id
  <2>1. PICK i \in 1..n : \E j \in 1..Len(s[i].checks) : StandsIn(s, i, j, r)
    BY <1>6
  <2>2. PICK j \in 1..Len(s[i].checks) : StandsIn(s, i, j, r)
    BY <2>1
  <2>3. i <= drop
    <3>. SUFFICES ASSUME i > drop PROVE FALSE
      BY <1>3
    <3>1. i - drop \in 1..(m - 1) /\ i - drop \in 1..m /\ (i - drop) + drop = i
      BY <1>3
    <3>2. t[i - drop] = s[i]
      BY <1>5, <3>1
    <3>3. StandsIn(t, i - drop, j, r)
      BY <1>8, <1>11, <2>2, <3>1, <3>2
    <3>. QED
      BY <1>7, <1>11, <3>1, <3>2, <3>3
  <2>4. s[i] \in Snapshot
    BY <1>2 DEF n
  <2>5. r.snapshot = s[i].id
    <3>1. r \in ToSet(ResponsesOf(<<s[i].id, s[i].checks[j]>>))
      BY <2>2 DEF StandsIn
    <3>. QED
      BY <1>9, <2>4, <3>1
  <2>6. ASSUME NEW k \in 1..m PROVE t[k].id # s[i].id
    <3>1. CASE k = m
      BY <1>4, <1>5, <3>1
    <3>2. CASE k # m
      <4>1. k \in 1..(m - 1) /\ k + drop \in 1..n /\ k + drop # i
        BY <1>3, <2>3, <3>2
      <4>2. t[k] = s[k + drop]
        BY <1>5, <4>1
      <4>. QED
        BY <1>2, <4>1, <4>2
    <3>. QED
      BY <3>1, <3>2
  <2>. QED
    BY <2>5, <2>6
<1>. QED
  BY <1>1, <1>10, <1>11 DEF OnlyChecksCount, s, t, m, before, after

\* OBS-05, OBS-06: for every history, no response goes or comes but by a check.
THEOREM ResponsesChangeByChecks == Spec => OnlyChecksChange
<1>1. HistoryInv /\ [Next]_vars => [OnlyChecksCount]_vars
  <2>. SUFFICES ASSUME HistoryInv, Next PROVE OnlyChecksCount
    OBVIOUS
  <2>1. PICK v \in View : \E profile \in Profile : \E checks \in Seq(Check) : Save(profile, v, checks)
    BY StepIsSave
  <2>2. PICK profile \in Profile : \E checks \in Seq(Check) : Save(profile, v, checks)
    BY <2>1
  <2>. QED
    BY <2>2, SaveKeepsResponses
<1>. QED
  BY <1>1, HistoryIsWellFormed, PTL DEF Spec, OnlyChecksChange
-----------------------------------------------------------------------------
\* What devices are made of.
NeighborId == ({"ip"} \X Address) \cup ({"mac"} \X Mac)
Source == {"neighbor-cache", "local-interface"}
Device == [id : NeighborId \cup {Self}, mac : Mac \cup {NoMac}, interface : Name \cup {NoName},
           addresses : SUBSET Address, sources : SUBSET Source]

LEMMA NeighborIsNotSelf == Self \notin NeighborId
<1>1. ASSUME NEW x \in NeighborId PROVE DOMAIN x = 1..2
  BY DEF NeighborId
<1>2. DOMAIN Self = 1..1
  BY DEF Self
<1>3. 2 \in 1..2 /\ 2 \notin 1..1
  OBVIOUS
<1>. QED
  BY <1>1, <1>2, <1>3

LEMMA IdsOfNeighbors ==
    ASSUME NEW n \in Neighbor
    PROVE  IdOf(n) \in NeighborId
  BY DEF Neighbor, NeighborId, IdOf

\* A device of the list that matches, or none.
LEMMA MatchingIsDevice ==
    ASSUME NEW devices \in Seq(Device), NEW candidate
    PROVE  Matching(devices, candidate) \in 0..Len(devices)
<1>. DEFINE n == Len(devices)
            ById == {i \in 1..n : devices[i].id = candidate.id}
            ByMac == {i \in 1..n : candidate.mac # NoMac /\ devices[i].mac = candidate.mac}
            ByAddress == {i \in 1..n : devices[i].addresses \cap candidate.addresses # {}}
            First(S) == IF S # {} THEN Min(S) ELSE 0
<1>1. n \in Nat
  OBVIOUS
<1>2. First(ById) \in 0..n /\ First(ByMac) \in 0..n /\ First(ByAddress) \in 0..n
  <2>1. ById \in SUBSET (1..n) /\ ByMac \in SUBSET (1..n) /\ ByAddress \in SUBSET (1..n)
    OBVIOUS
  <2>. HIDE DEF ById, ByMac, ByAddress, n
  <2>. QED
    BY <1>1, <2>1, FirstOrNone
<1>3. Matching(devices, candidate) =
         CASE First(ById) # 0 -> First(ById)
           [] First(ById) = 0 /\ First(ByMac) # 0 -> First(ByMac)
           [] OTHER -> First(ByAddress)
  BY Zenon DEF Matching, SelectInSeq
<1>. HIDE DEF First, n
<1>. QED
  BY <1>2, <1>3 DEF n

\* The places of the probe in a list of devices.
OwnOf(devices) == {i \in 1..Len(devices) : devices[i].id = Self}

\* What older snapshots say changes nothing of the probe.
LEMMA EnrichKeepsOwn ==
    ASSUME NEW devices \in Seq(Device), NEW candidate \in Device
    PROVE  /\ Enrich(devices, candidate) \in Seq(Device)
           /\ OwnOf(Enrich(devices, candidate)) = OwnOf(devices)
           /\ \A i \in OwnOf(devices) : Enrich(devices, candidate)[i] = devices[i]
<1>. DEFINE n == Len(devices)
            m == Matching(devices, candidate)
            more == [devices EXCEPT ![m].addresses = @ \cup candidate.addresses, ![m].sources = @ \cup candidate.sources]
            e == Enrich(devices, candidate)
<1>1. n \in Nat /\ DOMAIN devices = 1..n /\ \A i \in 1..n : devices[i] \in Device
  OBVIOUS
<1>2. m \in 0..n
  BY MatchingIsDevice
<1>. HIDE DEF m, n
<1>3. CASE e = devices
  <2>. HIDE DEF e
  <2>. QED
    BY <1>3 DEF e
<1>4. CASE e = Append(devices, candidate) /\ candidate.id # Self
  <2>. HIDE DEF e
  <2>1. /\ e \in Seq(Device) /\ Len(e) = n + 1 /\ e[n + 1] = candidate
        /\ \A i \in 1..n : e[i] = devices[i]
    BY <1>1, <1>4 DEF n
  <2>2. \A i \in 1..(n + 1) : i \in 1..n \/ i = n + 1
    BY <1>1
  <2>3. \A i : i \in OwnOf(e) <=> i \in OwnOf(devices)
    <3>1. \A i \in 1..n : i \in 1..(n + 1)
      BY <1>1
    <3>. QED
      BY <1>4, <2>1, <2>2, <3>1 DEF OwnOf, n
  <2>4. \A i \in OwnOf(devices) : e[i] = devices[i]
    BY <2>1 DEF OwnOf, n
  <2>. QED
    BY <2>1, <2>3, <2>4 DEF e
<1>5. CASE e = more /\ m \in 1..n /\ devices[m].id # Self
  <2>. HIDE DEF e
  <2>. DEFINE x == devices[m]
              y == [x EXCEPT !.addresses = @ \cup candidate.addresses, !.sources = @ \cup candidate.sources]
  <2>1. y \in Device /\ y.id = x.id
    <3>1. x \in Device
      BY <1>1, <1>5
    <3>. HIDE DEF x
    <3>. QED
      BY <3>1 DEF Device
  <2>2. more = [devices EXCEPT ![m] = y]
    BY <1>1, <1>5
  <2>. HIDE DEF y, more
  <2>3. /\ e \in Seq(Device) /\ Len(e) = n /\ e[m] = y
        /\ \A i \in 1..n : i # m => e[i] = devices[i]
    BY <1>1, <1>5, <2>1, <2>2 DEF n
  <2>4. \A i \in 1..n : e[i].id = devices[i].id
    BY <2>1, <2>3
  <2>5. OwnOf(e) = OwnOf(devices)
    BY <2>3, <2>4 DEF OwnOf, n
  <2>6. \A i \in OwnOf(devices) : e[i] = devices[i]
    BY <1>5, <2>3 DEF OwnOf, n
  <2>. QED
    BY <2>3, <2>5, <2>6 DEF e
<1>6. \/ e = devices
      \/ e = Append(devices, candidate) /\ candidate.id # Self
      \/ e = more /\ m \in 1..n /\ devices[m].id # Self
  <2>1. e = CASE candidate.id = Self -> devices
              [] candidate.id # Self /\ m = 0 -> Append(devices, candidate)
              [] candidate.id # Self /\ m # 0 /\ devices[m].id = Self -> devices
              [] OTHER -> more
    BY DEF Enrich, m
  <2>2. m # 0 => m \in 1..n
    BY <1>1, <1>2
  <2>. HIDE DEF e, more
  <2>. QED
    BY <2>1, <2>2
<1>. QED
  BY <1>3, <1>4, <1>5, <1>6

\* The ids of a list of neighbors are ids of its neighbors.
LEMMA IdsAreOfNeighbors ==
    ASSUME NEW neighbors \in Seq(Neighbor)
    PROVE  Ids(neighbors) \in Seq({IdOf(x) : x \in ToSet(neighbors)})
<1>. DEFINE X == {IdOf(x) : x \in ToSet(neighbors)}
            T == Seq(X)
            n == Len(neighbors)
            Add(ids, x) == IF IdOf(x) \in ToSet(ids) THEN ids ELSE Append(ids, IdOf(x))
            Follows(f) == f = [t \in SUBSET (1..n) |-> IF t = {} THEN <<>> ELSE Add(f[t \ {Max(t)}], neighbors[Max(t)])]
            f == CHOOSE g : Follows(g)
            step == [p \in T \X (1..n) |-> Add(p[1], neighbors[p[2]])]
<1>1. n \in Nat /\ DOMAIN neighbors = 1..n /\ <<>> \in T /\ \A k \in 1..n : IdOf(neighbors[k]) \in X
  BY DEF ToSet
<1>2. Ids(neighbors) = f[1..n]
  <2>1. Ids(neighbors)
         = (CHOOSE g : g = [t \in SUBSET DOMAIN neighbors |->
                                 IF t = {} THEN <<>> ELSE Add(g[t \ {Max(t)}], neighbors[Max(t)])])[DOMAIN neighbors]
    BY Zenon DEF Ids, FoldLeft, MapThenFoldSet
  <2>. QED
    BY <1>1, <2>1, Zenon
<1>3. \A ids \in T, k \in 1..n : Add(ids, neighbors[k]) \in T
  <2>1. \A ids \in T, x \in X : Append(ids, x) \in T
    <3>. HIDE DEF X
    <3>. QED
      OBVIOUS
  <2>. HIDE DEF X, T
  <2>. QED
    BY <1>1, <2>1
<1>. HIDE DEF Add, X
<1>4. step \in [T \X (1..n) -> T] /\ \A x \in T, k \in 1..n : step[<<x, k>>] = Add(x, neighbors[k])
  BY <1>3
<1>. HIDE DEF step, n, T
<1>5. \E g : Follows(g)
  <2>1. PICK g \in [SUBSET (1..n) -> T] : FoldedBy(g, n, <<>>, step)
    BY <1>1, <1>4, FoldExists
  <2>2. \A t \in SUBSET (1..n) : t # {} => Max(t) \in 1..n /\ g[t \ {Max(t)}] \in T
    BY <1>1, <2>1, GreatestOfPart
  <2>3. \A t \in SUBSET (1..n) : g[t] = IF t = {} THEN <<>> ELSE Add(g[t \ {Max(t)}], neighbors[Max(t)])
    BY <1>4, <2>1, <2>2 DEF FoldedBy
  <2>4. g = [t \in SUBSET (1..n) |-> g[t]]
    BY <2>1
  <2>. QED
    BY <2>3, <2>4, Zenon
<1>6. Follows(f)
  BY <1>5, Zenon
<1>. HIDE DEF f
<1>7. f[{}] = <<>> /\ \A t \in SUBSET (1..n) : t # {} => f[t] = Add(f[t \ {Max(t)}], neighbors[Max(t)])
  BY <1>6
<1>8. \A t \in SUBSET (1..n) : t # {} /\ f[t \ {Max(t)}] \in T => f[t] = step[<<f[t \ {Max(t)}], Max(t)>>]
  BY <1>1, <1>4, <1>7, GreatestOfPart
<1>9. PICK states \in [0..n -> T] : Runs(states, n, <<>>, step, f[1..n])
  BY <1>1, <1>4, <1>7, <1>8, FoldRuns
<1>10. f[1..n] \in T
  <2>1. n \in 0..n
    BY <1>1
  <2>. QED
    BY <1>9, <2>1 DEF Runs
<1>. QED
  BY <1>2, <1>10 DEF T, X

\* The positions that are left of a list of positions, of which 0 is none.
LEMMA UniqueIsList ==
    ASSUME NEW X, NEW positions \in Seq(X \cup {0})
    PROVE  Unique(positions) \in Seq(X)
<1>. DEFINE T == Seq(X)
            n == Len(positions)
            Add(list, i) == IF i = 0 \/ i \in ToSet(list) THEN list ELSE Append(list, i)
            Follows(f) == f = [t \in SUBSET (1..n) |-> IF t = {} THEN <<>> ELSE Add(f[t \ {Max(t)}], positions[Max(t)])]
            f == CHOOSE g : Follows(g)
            step == [p \in T \X (1..n) |-> Add(p[1], positions[p[2]])]
<1>1. n \in Nat /\ DOMAIN positions = 1..n /\ <<>> \in T /\ \A k \in 1..n : positions[k] \in X \cup {0}
  OBVIOUS
<1>2. Unique(positions) = f[1..n]
  <2>1. Unique(positions)
         = (CHOOSE g : g = [t \in SUBSET DOMAIN positions |->
                                 IF t = {} THEN <<>> ELSE Add(g[t \ {Max(t)}], positions[Max(t)])])[DOMAIN positions]
    BY Zenon DEF Unique, FoldLeft, MapThenFoldSet
  <2>. QED
    BY <1>1, <2>1, Zenon
<1>3. \A list \in T, k \in 1..n : Add(list, positions[k]) \in T
  <2>1. \A list \in T, x \in X : Append(list, x) \in T
    OBVIOUS
  <2>. HIDE DEF T
  <2>. QED
    BY <1>1, <2>1
<1>. HIDE DEF Add
<1>4. step \in [T \X (1..n) -> T] /\ \A x \in T, k \in 1..n : step[<<x, k>>] = Add(x, positions[k])
  BY <1>3
<1>. HIDE DEF step, n, T
<1>5. \E g : Follows(g)
  <2>1. PICK g \in [SUBSET (1..n) -> T] : FoldedBy(g, n, <<>>, step)
    BY <1>1, <1>4, FoldExists
  <2>2. \A t \in SUBSET (1..n) : t # {} => Max(t) \in 1..n /\ g[t \ {Max(t)}] \in T
    BY <1>1, <2>1, GreatestOfPart
  <2>3. \A t \in SUBSET (1..n) : g[t] = IF t = {} THEN <<>> ELSE Add(g[t \ {Max(t)}], positions[Max(t)])
    BY <1>4, <2>1, <2>2 DEF FoldedBy
  <2>4. g = [t \in SUBSET (1..n) |-> g[t]]
    BY <2>1
  <2>. QED
    BY <2>3, <2>4, Zenon
<1>6. Follows(f)
  BY <1>5, Zenon
<1>. HIDE DEF f
<1>7. f[{}] = <<>> /\ \A t \in SUBSET (1..n) : t # {} => f[t] = Add(f[t \ {Max(t)}], positions[Max(t)])
  BY <1>6
<1>8. \A t \in SUBSET (1..n) : t # {} /\ f[t \ {Max(t)}] \in T => f[t] = step[<<f[t \ {Max(t)}], Max(t)>>]
  BY <1>1, <1>4, <1>7, GreatestOfPart
<1>9. PICK states \in [0..n -> T] : Runs(states, n, <<>>, step, f[1..n])
  BY <1>1, <1>4, <1>7, <1>8, FoldRuns
<1>10. f[1..n] \in T
  <2>1. n \in 0..n
    BY <1>1
  <2>. QED
    BY <1>9, <2>1 DEF Runs
<1>. QED
  BY <1>2, <1>10 DEF T

\* The devices of the current state are what one candidate after the other has made of
\* those of the newest snapshot.
LEMMA EnrichRuns ==
    ASSUME NEW newest \in Seq(Device), NEW candidates \in Seq(Device)
    PROVE  \E states \in [0..Len(candidates) -> Seq(Device)] :
               /\ states[0] = newest /\ states[Len(candidates)] = FoldLeft(Enrich, newest, candidates)
               /\ \A k \in 1..Len(candidates) : states[k] = Enrich(states[k - 1], candidates[k])
<1>. DEFINE T == Seq(Device)
            n == Len(candidates)
            Follows(f) == f = [t \in SUBSET (1..n) |-> IF t = {} THEN newest ELSE Enrich(f[t \ {Max(t)}], candidates[Max(t)])]
            f == CHOOSE g : Follows(g)
            step == [p \in T \X (1..n) |-> Enrich(p[1], candidates[p[2]])]
<1>1. n \in Nat /\ DOMAIN candidates = 1..n /\ newest \in T /\ \A k \in 1..n : candidates[k] \in Device
  OBVIOUS
<1>2. FoldLeft(Enrich, newest, candidates) = f[1..n]
  <2>1. FoldLeft(Enrich, newest, candidates)
         = (CHOOSE g : g = [t \in SUBSET DOMAIN candidates |->
                                 IF t = {} THEN newest ELSE Enrich(g[t \ {Max(t)}], candidates[Max(t)])])[DOMAIN candidates]
    BY Zenon DEF FoldLeft, MapThenFoldSet
  <2>. QED
    BY <1>1, <2>1, Zenon
<1>3. step \in [T \X (1..n) -> T] /\ \A x \in T, k \in 1..n : step[<<x, k>>] = Enrich(x, candidates[k])
  BY <1>1, EnrichKeepsOwn
<1>. HIDE DEF step, n, T
<1>4. \E g : Follows(g)
  <2>1. PICK g \in [SUBSET (1..n) -> T] : FoldedBy(g, n, newest, step)
    BY <1>1, <1>3, FoldExists
  <2>2. \A t \in SUBSET (1..n) : t # {} => Max(t) \in 1..n /\ g[t \ {Max(t)}] \in T
    BY <1>1, <2>1, GreatestOfPart
  <2>3. \A t \in SUBSET (1..n) : g[t] = IF t = {} THEN newest ELSE Enrich(g[t \ {Max(t)}], candidates[Max(t)])
    BY <1>3, <2>1, <2>2 DEF FoldedBy
  <2>4. g = [t \in SUBSET (1..n) |-> g[t]]
    BY <2>1
  <2>. QED
    BY <2>3, <2>4, Zenon
<1>5. Follows(f)
  BY <1>4, Zenon
<1>. HIDE DEF f
<1>6. f[{}] = newest /\ \A t \in SUBSET (1..n) : t # {} => f[t] = Enrich(f[t \ {Max(t)}], candidates[Max(t)])
  BY <1>5
<1>7. \A t \in SUBSET (1..n) : t # {} /\ f[t \ {Max(t)}] \in T => f[t] = step[<<f[t \ {Max(t)}], Max(t)>>]
  BY <1>1, <1>3, <1>6, GreatestOfPart
<1>8. PICK states \in [0..n -> T] : Runs(states, n, newest, step, f[1..n])
  BY <1>1, <1>3, <1>6, <1>7, FoldRuns
<1>9. \A k \in 1..n : states[k] = Enrich(states[k - 1], candidates[k])
  <2>1. \A k \in 1..n : states[k - 1] \in T
    <3>1. \A k \in 1..n : k - 1 \in 0..n
      BY <1>1
    <3>. QED
      BY <3>1
  <2>. QED
    BY <1>3, <1>8, <2>1 DEF Runs
<1>. QED
  BY <1>2, <1>8, <1>9 DEF n, T, Runs

\* So the probe stays as the newest snapshot has it.
LEMMA EnrichedOwn ==
    ASSUME NEW newest \in Seq(Device), NEW candidates \in Seq(Device)
    PROVE  LET devices == FoldLeft(Enrich, newest, candidates)
           IN  /\ devices \in Seq(Device) /\ OwnOf(devices) = OwnOf(newest)
               /\ \A i \in OwnOf(newest) : devices[i] = newest[i]
<1>. DEFINE n == Len(candidates)
            devices == FoldLeft(Enrich, newest, candidates)
<1>1. n \in Nat /\ \A k \in 1..n : candidates[k] \in Device
  OBVIOUS
<1>2. PICK states \in [0..n -> Seq(Device)] :
               /\ states[0] = newest /\ states[n] = devices
               /\ \A k \in 1..n : states[k] = Enrich(states[k - 1], candidates[k])
  BY EnrichRuns, Zenon
<1>. HIDE DEF n, devices
<1>. DEFINE S == {k \in 0..n : OwnOf(states[k]) = OwnOf(newest) /\ \A i \in OwnOf(newest) : states[k][i] = newest[i]}
<1>3. 0 \in S
  <2>1. 0 \in 0..n
    BY <1>1
  <2>. QED
    BY <1>2, <2>1
<1>4. ASSUME NEW k \in 0..(n - 1), k \in S PROVE k + 1 \in S
  <2>1. k + 1 \in 1..n /\ k + 1 \in 0..n /\ k \in 0..n /\ (k + 1) - 1 = k
    BY <1>1
  <2>2. states[k] \in Seq(Device) /\ states[k + 1] = Enrich(states[k], candidates[k + 1]) /\ candidates[k + 1] \in Device
    BY <1>1, <1>2, <2>1
  <2>3. OwnOf(states[k + 1]) = OwnOf(states[k]) /\ \A i \in OwnOf(states[k]) : states[k + 1][i] = states[k][i]
    BY ZenonT(20), <2>2, EnrichKeepsOwn
  <2>4. OwnOf(states[k]) = OwnOf(newest) /\ \A i \in OwnOf(newest) : states[k][i] = newest[i]
    BY <1>4
  <2>5. OwnOf(states[k + 1]) = OwnOf(newest) /\ \A i \in OwnOf(newest) : states[k + 1][i] = newest[i]
    BY <2>3, <2>4
  <2>. QED
    BY <2>1, <2>5
<1>5. n \in S
  <2>1. \A k \in 0..n : k \in S
    <3>. HIDE DEF S
    <3>. QED
      BY <1>1, <1>3, <1>4, Induction
  <2>. QED
    BY <1>1, <2>1
<1>6. devices \in Seq(Device)
  <2>1. n \in 0..n
    BY <1>1
  <2>. QED
    BY <1>2, <2>1
<1>. QED
  BY <1>2, <1>5, <1>6 DEF devices

\* The probe is a device, if there is one.
LEMMA ProbesAreDevices ==
    ASSUME NEW interfaces \in Seq(Interface)
    PROVE  \/ Probes(interfaces) = <<>>
           \/ \E d \in Device : d.id = Self /\ Probes(interfaces) = <<d>>
<1>. DEFINE n == Len(interfaces)
            Some == {i \in 1..n : interfaces[i].name # Loopback /\ interfaces[i].addresses # <<>>}
            first == IF Some # {} THEN Min(Some) ELSE 0
            d == [id |-> Self, mac |-> interfaces[first].mac, interface |-> interfaces[first].name,
                  addresses |-> AddressesOf(interfaces[first]), sources |-> {"local-interface"}]
<1>1. n \in Nat /\ \A i \in 1..n : interfaces[i] \in Interface
  OBVIOUS
<1>2. first \in 0..n
  <2>1. Some \in SUBSET (1..n)
    OBVIOUS
  <2>. HIDE DEF Some, n
  <2>. QED
    BY <1>1, <2>1, FirstOrNone
<1>3. Probes(interfaces) = IF first = 0 THEN <<>> ELSE <<d>>
  BY Zenon DEF Probes, SelectInSeq
<1>4. CASE first # 0
  <2>. HIDE DEF first, n
  <2>1. interfaces[first] \in Interface
    BY <1>1, <1>2, <1>4
  <2>2. AddressesOf(interfaces[first]) \subseteq Address
    <3>1. interfaces[first].addresses \in Seq(CIDR)
      BY <2>1 DEF Interface
    <3>. DEFINE s == interfaces[first].addresses
    <3>2. \A c \in ToSet(s) : c \in CIDR
      <4>1. s \in Seq(CIDR)
        BY <3>1
      <4>. HIDE DEF s
      <4>. QED
        BY <4>1 DEF ToSet
    <3>3. \A c \in CIDR : c.address \in Address
      BY DEF CIDR
    <3>. QED
      BY <3>2, <3>3 DEF AddressesOf
  <2>3. interfaces[first].mac \in Mac /\ interfaces[first].name \in Name
    BY <2>1 DEF Interface
  <2>4. d \in Device /\ d.id = Self
    BY <2>2, <2>3 DEF Device, Source
  <2>. HIDE DEF d
  <2>. QED
    BY <1>3, <1>4, <2>4
<1>. HIDE DEF first, d
<1>. QED
  BY <1>3, <1>4

\* A device that is made of neighbors is a device, and not the probe.
LEMMA NeighborsAreDevices ==
    ASSUME NEW neighbors \in Seq(Neighbor), NEW id \in {IdOf(x) : x \in ToSet(neighbors)}
    PROVE  DeviceOf(id, neighbors) \in Device /\ DeviceOf(id, neighbors).id = id /\ id # Self
<1>. DEFINE n == Len(neighbors)
            Some == {i \in 1..n : IdOf(neighbors[i]) = id}
            i == IF Some # {} THEN Min(Some) ELSE 0
            first == neighbors[i]
            addresses == {x.address : x \in {m \in ToSet(neighbors) : IdOf(m) = id}}
<1>1. n \in Nat /\ DOMAIN neighbors = 1..n /\ \A k \in 1..n : neighbors[k] \in Neighbor
  OBVIOUS
<1>2. Some # {} /\ Some \in SUBSET (1..n)
  <2>1. PICK x \in ToSet(neighbors) : id = IdOf(x)
    OBVIOUS
  <2>2. PICK k \in 1..n : x = neighbors[k]
    BY <1>1, <2>1 DEF ToSet
  <2>. QED
    BY <2>1, <2>2
<1>3. DeviceOf(id, neighbors) = [id |-> id, mac |-> first.mac, interface |-> first.interface,
                                 addresses |-> addresses, sources |-> {"neighbor-cache"}]
  BY Zenon DEF DeviceOf, SelectInSeq
<1>4. i \in 1..n
  <2>. HIDE DEF Some, n
  <2>1. Min(Some) \in Some
    BY <1>1, <1>2, FirstOrNone
  <2>. QED
    BY <1>2, <2>1
<1>. HIDE DEF i
<1>5. first \in Neighbor
  BY <1>1, <1>4
<1>6. addresses \subseteq Address
  <2>1. \A x \in ToSet(neighbors) : x \in Neighbor
    BY <1>1 DEF ToSet
  <2>2. \A x \in Neighbor : x.address \in Address
    BY DEF Neighbor
  <2>. QED
    BY <2>1, <2>2
<1>7. id \in NeighborId
  <2>1. PICK x \in ToSet(neighbors) : id = IdOf(x)
    OBVIOUS
  <2>2. x \in Neighbor
    BY <1>1, <2>1 DEF ToSet
  <2>. QED
    BY <2>1, <2>2, IdsOfNeighbors
<1>. HIDE DEF first, addresses, n
<1>8. first.mac \in Mac \cup {NoMac} /\ first.interface \in Name \cup {NoName}
  BY <1>5 DEF Neighbor
<1>9. id # Self
  BY <1>7, NeighborIsNotSelf
<1>. QED
  BY <1>3, <1>6, <1>7, <1>8, <1>9 DEF Device, Source

\* The devices of a snapshot: those of its neighbors and then the probe.
LEMMA DevicesOfSnapshot ==
    ASSUME NEW x \in Snapshot
    PROVE  /\ Devices(x) \in Seq(Device)
           /\ Cardinality(OwnOf(Devices(x))) = Len(Probes(x.interfaces))
           /\ \A i \in OwnOf(Devices(x)) : Devices(x)[i] = Probes(x.interfaces)[1]
<1>. DEFINE neighbors == x.neighbors
            ids == Ids(neighbors)
            others == [i \in 1..Len(ids) |-> DeviceOf(ids[i], neighbors)]
            probes == Probes(x.interfaces)
            n == Len(ids)
<1>1. neighbors \in Seq(Neighbor) /\ x.interfaces \in Seq(Interface)
  BY DEF Snapshot
<1>2. Devices(x) = others \o probes
  BY DEF Devices
<1>. HIDE DEF neighbors
<1>3. ids \in Seq({IdOf(y) : y \in ToSet(neighbors)})
  BY <1>1, IdsAreOfNeighbors
<1>. HIDE DEF ids
<1>4. n \in Nat /\ \A i \in 1..n : ids[i] \in {IdOf(y) : y \in ToSet(neighbors)}
  BY <1>3
<1>5. others \in Seq(Device) /\ Len(others) = n /\ \A i \in 1..n : others[i].id # Self
  <2>1. \A i \in 1..n : /\ DeviceOf(ids[i], neighbors) \in Device
                        /\ DeviceOf(ids[i], neighbors).id # Self
    BY <1>1, <1>4, NeighborsAreDevices
  <2>. QED
    BY <1>4, <2>1
<1>. HIDE DEF others, n
<1>6. probes = <<>> \/ \E d \in Device : d.id = Self /\ probes = <<d>>
  BY <1>1, ProbesAreDevices
<1>. HIDE DEF probes
<1>7. CASE probes = <<>>
  <2>1. Devices(x) = others
    BY <1>2, <1>5, <1>7
  <2>2. OwnOf(Devices(x)) = {}
    BY <1>5, <2>1 DEF OwnOf
  <2>3. Cardinality(OwnOf(Devices(x))) = 0 /\ Len(probes) = 0
    BY <1>7, <2>2, FS_EmptySet
  <2>. QED
    BY <1>5, <2>1, <2>2, <2>3 DEF probes
<1>8. ASSUME NEW d \in Device, d.id = Self, probes = <<d>>
      PROVE  /\ Devices(x) \in Seq(Device)
             /\ Cardinality(OwnOf(Devices(x))) = Len(probes)
             /\ \A i \in OwnOf(Devices(x)) : Devices(x)[i] = probes[1]
  <2>1. /\ others \o <<d>> \in Seq(Device) /\ Len(others \o <<d>>) = n + 1 /\ (others \o <<d>>)[n + 1] = d
        /\ \A i \in 1..n : (others \o <<d>>)[i] = others[i]
    BY <1>5
  <2>. DEFINE all == Devices(x)
  <2>2. /\ all \in Seq(Device) /\ Len(all) = n + 1 /\ all[n + 1] = d
        /\ \A i \in 1..n : all[i] = others[i]
    BY <1>2, <1>8, <2>1
  <2>. HIDE DEF all
  <2>3. n \in Nat /\ \A i \in 1..(n + 1) : i \in 1..n \/ i = n + 1
    BY <1>4 DEF n
  <2>4. n + 1 \in 1..(n + 1)
    BY <2>3
  <2>5. OwnOf(all) = {n + 1}
    BY <1>5, <1>8, <2>2, <2>3, <2>4 DEF OwnOf
  <2>6. Cardinality({n + 1}) = 1
    BY FS_Singleton
  <2>7. Len(probes) = 1 /\ probes[1] = d
    BY <1>8
  <2>. QED
    BY <2>2, <2>5, <2>6, <2>7 DEF all
<1>. QED
  BY <1>6, <1>7, <1>8 DEF probes

\* The positions of the snapshots that enrich the newest one.
LEMMA LatestIsPosition ==
    ASSUME NEW n \in Nat, NEW S \in SUBSET (1..n)
    PROVE  Latest(S) \in 0..n
<1>1. S \cup {0} \subseteq Nat /\ S \cup {0} # {} /\ \A k \in S \cup {0} : k <= n
  OBVIOUS
<1>2. Max(S \cup {0}) \in S \cup {0}
  BY <1>1, Greatest
<1>3. \A k \in S \cup {0} : k \in 0..n
  OBVIOUS
<1>4. Latest(S) \in S \cup {0}
  BY <1>2 DEF Latest
<1>. QED
  BY <1>3, <1>4

LEMMA EnrichingArePositions ==
    ASSUME NEW s \in Seq(Snapshot)
    PROVE  Enriching(s) \in Seq(1..Len(s))
<1>. DEFINE n == Len(s)
            X == 1..n
            responding == {r.snapshot : r \in ToSet(CurrentResponses(Checks(s)))}
            facts == Latest({i \in 1..n : s[i].profile # "local"})
            icmp == Latest({i \in 1..n : Made(s[i], Icmp)})
            deep == Latest({i \in 1..n : s[i].profile = "deep"})
            answering == {i \in 1..n : s[i].id \in responding}
            positions == <<facts, icmp, deep>> \o InOrder(answering)
<1>1. n \in Nat
  OBVIOUS
<1>2. Enriching(s) = Unique(positions)
  BY DEF Enriching
<1>. HIDE DEF n
<1>3. facts \in 0..n /\ icmp \in 0..n /\ deep \in 0..n
  <2>1. /\ {i \in 1..n : s[i].profile # "local"} \in SUBSET (1..n)
        /\ {i \in 1..n : Made(s[i], Icmp)} \in SUBSET (1..n)
        /\ {i \in 1..n : s[i].profile = "deep"} \in SUBSET (1..n)
    OBVIOUS
  <2>. QED
    BY <1>1, <2>1, LatestIsPosition
<1>4. InOrder(answering) \in Seq(X)
  <2>1. answering \subseteq 1..n /\ IsFiniteSet(1..n) /\ 1..n \subseteq Nat
    BY <1>1, FS_Interval
  <2>. HIDE DEF answering
  <2>2. IsFiniteSet(answering) /\ answering \subseteq Nat
    BY <2>1, FS_Subset
  <2>3. InOrder(answering) \in Seq(answering)
    BY <2>2, InOrderOfSet
  <2>4. answering \subseteq X
    BY <2>1
  <2>. DEFINE list == InOrder(answering)
  <2>. HIDE DEF list, X
  <2>5. list \in Seq(answering)
    BY <2>3 DEF list
  <2>6. list \in Seq(X)
    BY <2>4, <2>5
  <2>. QED
    BY <2>6 DEF list
<1>. HIDE DEF facts, icmp, deep, answering
<1>5. \A i \in 0..n : i \in X \cup {0}
  BY <1>1
<1>. HIDE DEF X
<1>6. <<facts, icmp, deep>> \in Seq(X \cup {0}) /\ InOrder(answering) \in Seq(X \cup {0})
  BY <1>3, <1>4, <1>5
<1>7. positions \in Seq(X \cup {0})
  BY <1>6
<1>. HIDE DEF positions
<1>8. Unique(positions) \in Seq(X)
  BY <1>7, UniqueIsList
<1>. QED
  BY <1>2, <1>8 DEF X, n

\* The devices of the current state, and the probe among them.
LEMMA ComposedDevicesHold ==
    ASSUME NEW s \in Seq(Snapshot), s # <<>>
    PROVE  LET devices == ComposedDevices(s)
               probes == Probes(Last(s).interfaces)
           IN  /\ Last(s) \in Snapshot /\ devices \in Seq(Device)
               /\ Cardinality(OwnOf(devices)) = Len(probes) /\ \A i \in OwnOf(devices) : devices[i] = probes[1]
<1>. DEFINE x == Last(s)
            newest == Devices(x)
            enriching == Enriching(s)
            q == [i \in 1..Len(enriching) |-> Devices(s[enriching[i]])]
            candidates == FlattenSeq(q)
            devices == ComposedDevices(s)
<1>2. x \in Snapshot
  BY DEF Last
<1>3. devices = FoldLeft(Enrich, newest, candidates)
  BY DEF ComposedDevices
<1>. HIDE DEF x
<1>4. enriching \in Seq(1..Len(s))
  BY EnrichingArePositions
<1>. HIDE DEF enriching
<1>5. q \in Seq(Seq(Device))
  <2>1. \A i \in 1..Len(enriching) : s[enriching[i]] \in Snapshot
    BY <1>4
  <2>2. \A i \in 1..Len(enriching) : Devices(s[enriching[i]]) \in Seq(Device)
    BY <2>1, DevicesOfSnapshot
  <2>3. Len(enriching) \in Nat
    BY <1>4
  <2>. QED
    BY <2>2, <2>3
<1>. HIDE DEF q
<1>6. candidates \in Seq(Device)
  BY <1>5, FlattenedElements
<1>7. /\ newest \in Seq(Device) /\ Cardinality(OwnOf(newest)) = Len(Probes(x.interfaces))
      /\ \A i \in OwnOf(newest) : newest[i] = Probes(x.interfaces)[1]
  BY <1>2, DevicesOfSnapshot
<1>. HIDE DEF candidates, newest, devices
<1>8. devices \in Seq(Device) /\ OwnOf(devices) = OwnOf(newest) /\ \A i \in OwnOf(newest) : devices[i] = newest[i]
  BY <1>3, <1>6, <1>7, EnrichedOwn
<1>9. Cardinality(OwnOf(devices)) = Len(Probes(x.interfaces)) /\ \A i \in OwnOf(devices) : devices[i] = Probes(x.interfaces)[1]
  BY <1>7, <1>8
<1>. QED
  BY <1>2, <1>8, <1>9 DEF devices, x

\* INV-18, of every history: the probe of the current state is the newest one, and the only one.
LEMMA SelfIsNewestHolds ==
    ASSUME HistoryInv, snapshots # <<>>
    PROVE  SelfIsNewest
<1>1. snapshots \in Seq(Snapshot)
  BY DEF HistoryInv
<1>. QED
  BY <1>1, ComposedDevicesHold DEF SelfIsNewest, OwnOf

\* INV-02, INV-18, OBS-05: the current state of every history is composed of what is newest.
THEOREM CurrentStateIsNewest == Spec => []NewestOfEach
<1>1. HistoryInv => NewestOfEach
  BY LastWordHolds, SelfIsNewestHolds DEF NewestOfEach
<1>. QED
  BY <1>1, HistoryIsWellFormed, PTL
-----------------------------------------------------------------------------
\* Facts, and the devices that they are made into.
Label == Mac \cup Name \cup {Unknown, ServiceInterface}
Knowing == Method \cup {"neighbor-cache", "local-interface", "kubernetes-api"}
RawDevice == [id : DeviceId, mac : Mac \cup {NoMac}, interface : Name \cup {NoName},
              addresses : SUBSET Address, sources : SUBSET Knowing]
RawFacts == [interfaces : Seq(Interface), devices : Seq(RawDevice), nodes : Seq(KubernetesNode),
             services : Seq(KubernetesService), responses : Seq(Response)]

\* The probe has addresses of its interfaces only.
ProbeIsAtHome(interfaces, devices) ==
    \A i \in OwnOf(devices) : devices[i].addresses \subseteq OwnAddresses(Real(interfaces))

LEMMA DeviceIsRaw == Device \subseteq RawDevice
<1>1. NeighborId \cup {Self} \subseteq DeviceId
  BY DeviceIdAssumption DEF NeighborId
<1>2. Source \subseteq Knowing
  BY DEF Source, Knowing
<1>. SUFFICES ASSUME NEW d \in Device PROVE d \in RawDevice
  OBVIOUS
<1>. QED
  BY <1>1, <1>2 DEF Device, RawDevice

LEMMA ProbeHasOwnAddresses ==
    ASSUME NEW interfaces \in Seq(Interface), Probes(interfaces) # <<>>
    PROVE  Probes(interfaces)[1].addresses \subseteq OwnAddresses(Real(interfaces))
<1>. DEFINE n == Len(interfaces)
            Some == {i \in 1..n : interfaces[i].name # Loopback /\ interfaces[i].addresses # <<>>}
            first == IF Some # {} THEN Min(Some) ELSE 0
            x == interfaces[first]
            d == [id |-> Self, mac |-> x.mac, interface |-> x.name, addresses |-> AddressesOf(x), sources |-> {"local-interface"}]
<1>1. n \in Nat /\ DOMAIN interfaces = 1..n
  OBVIOUS
<1>2. Probes(interfaces) = IF first = 0 THEN <<>> ELSE <<d>>
  BY Zenon DEF Probes, SelectInSeq
<1>3. Some # {} /\ first \in Some
  <2>1. Some \in SUBSET (1..n)
    OBVIOUS
  <2>2. Some # {}
    BY <1>2
  <2>. HIDE DEF Some, n
  <2>. QED
    BY <1>1, <2>1, <2>2, FirstOrNone
<1>4. first \in 1..n /\ x.name # Loopback
  BY <1>3
<1>. HIDE DEF first
<1>5. x \in ToSet(interfaces)
  BY <1>1, <1>4 DEF ToSet
<1>6. ToSet(Real(interfaces)) = {y \in ToSet(interfaces) : y \in {z \in ToSet(interfaces) : z.name # Loopback}}
  BY KeptElements DEF Real
<1>. HIDE DEF n, x
<1>7. x \in ToSet(Real(interfaces))
  BY <1>4, <1>5, <1>6
<1>8. Probes(interfaces) = <<d>>
  BY <1>1, <1>2, <1>4
<1>9. Probes(interfaces)[1].addresses = AddressesOf(x)
  BY <1>8
<1>. QED
  BY <1>7, <1>9 DEF OwnAddresses

\* What was read last is one of the lists that were read, or nothing.
LEMMA LastReadIsList ==
    ASSUME NEW T, NEW reads \in Seq(Seq(Seq(T)))
    PROVE  LastRead(reads) \in Seq(T)
<1>. DEFINE n == Len(reads)
            some == {j \in 1..n : reads[j] # Unread}
            i == Latest(some)
<1>1. n \in Nat /\ \A j \in 1..n : reads[j] \in Seq(Seq(T))
  OBVIOUS
<1>2. some \in SUBSET (1..n)
  OBVIOUS
<1>3. i \in some \cup {0}
  <2>. HIDE DEF some, n
  <2>1. some \cup {0} \subseteq Nat /\ some \cup {0} # {} /\ \A k \in some \cup {0} : k <= n
    BY <1>1, <1>2
  <2>. QED
    BY <1>1, <2>1, Greatest DEF Latest
<1>4. LastRead(reads) = IF i = 0 THEN <<>> ELSE reads[i][1]
  BY DEF LastRead
<1>. HIDE DEF i
<1>5. CASE i = 0
  BY <1>4, <1>5
<1>6. CASE i # 0
  <2>1. i \in 1..n /\ reads[i] # <<>>
    BY <1>3, <1>6 DEF Unread
  <2>2. reads[i] \in Seq(Seq(T))
    BY <1>1, <2>1
  <2>. DEFINE r == reads[i]
  <2>. HIDE DEF r
  <2>3. r \in Seq(Seq(T)) /\ r # <<>>
    BY <2>1, <2>2 DEF r
  <2>4. r[1] \in Seq(T)
    BY <2>3
  <2>. QED
    BY <1>4, <1>6, <2>4 DEF r
<1>. QED
  BY <1>5, <1>6

LEMMA OwnIsSome ==
    ASSUME NEW devices \in Seq(Device), NEW i \in OwnOf(devices), NEW probes, Cardinality(OwnOf(devices)) = Len(probes)
    PROVE  probes # <<>>
<1>. SUFFICES ASSUME probes = <<>> PROVE FALSE
  OBVIOUS
<1>. DEFINE own == OwnOf(devices)
            n == Len(devices)
<1>1. n \in Nat /\ own \subseteq 1..n
  BY DEF OwnOf
<1>2. i \in own /\ Cardinality(own) = 0
  OBVIOUS
<1>. HIDE DEF own, n
<1>3. IsFiniteSet(own)
  <2>1. IsFiniteSet(1..n)
    BY <1>1, FS_Interval
  <2>. QED
    BY <1>1, <2>1, FS_Subset
<1>. QED
  BY <1>2, <1>3, FS_EmptySet

\* The facts of a snapshot and those of the current state.
LEMMA FactsOfSnapshot ==
    ASSUME NEW x \in Snapshot
    PROVE  FactsOf(x) \in RawFacts /\ ProbeIsAtHome(FactsOf(x).interfaces, FactsOf(x).devices)
<1>1. /\ x.id \in SnapshotId /\ x.interfaces \in Seq(Interface) /\ x.checks \in Seq(Check)
      /\ x.nodes \in Seq(Seq(KubernetesNode)) /\ x.services \in Seq(Seq(KubernetesService))
  BY DEF Snapshot
<1>2. Devices(x) \in Seq(RawDevice)
  <2>1. Devices(x) \in Seq(Device)
    BY DevicesOfSnapshot
  <2>. QED
    BY <2>1, DeviceIsRaw
<1>3. LastRead(<<x.nodes>>) \in Seq(KubernetesNode)
  <2>1. <<x.nodes>> \in Seq(Seq(Seq(KubernetesNode)))
    BY <1>1
  <2>. QED
    BY <2>1, LastReadIsList
<1>4. LastRead(<<x.services>>) \in Seq(KubernetesService)
  <2>1. <<x.services>> \in Seq(Seq(Seq(KubernetesService)))
    BY <1>1
  <2>. QED
    BY <2>1, LastReadIsList
<1>5. CurrentResponses(ChecksOf(x)) \in Seq(Response)
  <2>1. ChecksOf(x) \in Seq(SnapshotId \X Check)
    <3>1. Len(x.checks) \in Nat /\ \A i \in 1..Len(x.checks) : <<x.id, x.checks[i]>> \in SnapshotId \X Check
      BY <1>1
    <3>. QED
      BY <3>1 DEF ChecksOf
  <2>. QED
    BY <2>1, LastWord
<1>6. FactsOf(x) \in RawFacts
  BY <1>1, <1>2, <1>3, <1>4, <1>5 DEF FactsOf, RawFacts
<1>7. ProbeIsAtHome(x.interfaces, Devices(x))
  <2>. SUFFICES ASSUME NEW i \in OwnOf(Devices(x)) PROVE Devices(x)[i].addresses \subseteq OwnAddresses(Real(x.interfaces))
    BY DEF ProbeIsAtHome
  <2>1. Cardinality(OwnOf(Devices(x))) = Len(Probes(x.interfaces)) /\ Devices(x)[i] = Probes(x.interfaces)[1]
    BY DevicesOfSnapshot
  <2>2. Probes(x.interfaces) # <<>>
    <3>1. Devices(x) \in Seq(Device)
      BY DevicesOfSnapshot
    <3>. QED
      BY <2>1, <3>1, OwnIsSome
  <2>. QED
    BY <1>1, <2>1, <2>2, ProbeHasOwnAddresses
<1>. QED
  BY <1>6, <1>7 DEF FactsOf

LEMMA FactsOfHistory ==
    ASSUME NEW s \in Seq(Snapshot), s # <<>>
    PROVE  Compose(s) \in RawFacts /\ ProbeIsAtHome(Compose(s).interfaces, Compose(s).devices)
<1>. DEFINE x == Last(s)
            n == Len(s)
            devices == ComposedDevices(s)
            probes == Probes(x.interfaces)
<1>1. x \in Snapshot /\ devices \in Seq(Device) /\ Cardinality(OwnOf(devices)) = Len(probes) /\ \A i \in OwnOf(devices) : devices[i] = probes[1]
  BY ComposedDevicesHold
<1>2. n \in Nat /\ \A i \in 1..n : s[i] \in Snapshot
  OBVIOUS
<1>3. \A y \in Snapshot : y.interfaces \in Seq(Interface) /\ y.nodes \in Seq(Seq(KubernetesNode)) /\ y.services \in Seq(Seq(KubernetesService))
  BY DEF Snapshot
<1>4. Compose(s) = [interfaces |-> x.interfaces, devices |-> devices, nodes |-> LastRead([i \in 1..n |-> s[i].nodes]),
                    services |-> LastRead([i \in 1..n |-> s[i].services]), responses |-> CurrentResponses(Checks(s))]
  BY DEF Compose
<1>. HIDE DEF x, devices, n, probes
<1>5. LastRead([i \in 1..n |-> s[i].nodes]) \in Seq(KubernetesNode)
  <2>1. [i \in 1..n |-> s[i].nodes] \in Seq(Seq(Seq(KubernetesNode)))
    BY <1>2, <1>3
  <2>. QED
    BY <2>1, LastReadIsList
<1>6. LastRead([i \in 1..n |-> s[i].services]) \in Seq(KubernetesService)
  <2>1. [i \in 1..n |-> s[i].services] \in Seq(Seq(Seq(KubernetesService)))
    BY <1>2, <1>3
  <2>. QED
    BY <2>1, LastReadIsList
<1>7. CurrentResponses(Checks(s)) \in Seq(Response)
  <2>1. Checks(s) \in Seq(SnapshotId \X Check)
    BY ChecksOfHistory
  <2>. QED
    BY <2>1, LastWord
<1>8. devices \in Seq(RawDevice)
  BY <1>1, DeviceIsRaw
<1>9. Compose(s) \in RawFacts
  BY <1>1, <1>3, <1>4, <1>5, <1>6, <1>7, <1>8 DEF RawFacts
<1>10. ProbeIsAtHome(x.interfaces, devices)
  <2>. SUFFICES ASSUME NEW i \in OwnOf(devices) PROVE devices[i].addresses \subseteq OwnAddresses(Real(x.interfaces))
    BY DEF ProbeIsAtHome
  <2>1. probes # <<>>
    BY <1>1, OwnIsSome
  <2>2. x.interfaces \in Seq(Interface)
    BY <1>1, <1>3
  <2>. QED
    BY <1>1, <2>1, <2>2, ProbeHasOwnAddresses DEF probes
<1>. QED
  BY <1>4, <1>9, <1>10
-----------------------------------------------------------------------------
\* The addresses that a list of devices has.
Listed(devices) == UNION {d.addresses : d \in ToSet(devices)}

LEMMA ListedAt ==
    ASSUME NEW devices \in Seq(RawDevice)
    PROVE  \A a : a \in Listed(devices) <=> \E i \in 1..Len(devices) : a \in devices[i].addresses
<1>1. DOMAIN devices = 1..Len(devices)
  OBVIOUS
<1>2. ToSet(devices) = {devices[i] : i \in 1..Len(devices)}
  BY <1>1 DEF ToSet
<1>. QED
  BY <1>2 DEF Listed

\* A list that goes on as another one: what is there keeps its identity, and addresses that
\* are known stay where they are.
GoesOn(before, after) ==
    /\ Len(before) <= Len(after)
    /\ \A i \in 1..Len(before) :
          /\ after[i].id = before[i].id /\ after[i].interface = before[i].interface
          /\ before[i].addresses \subseteq after[i].addresses
          /\ after[i].addresses \cap Listed(before) \subseteq before[i].addresses
    /\ \A i \in (Len(before) + 1)..Len(after) : after[i].id # Self /\ after[i].interface = NoName

LEMMA GoesOnKeeps ==
    ASSUME NEW before \in Seq(RawDevice), NEW after \in Seq(RawDevice), GoesOn(before, after)
    PROVE  Listed(before) \subseteq Listed(after)
<1>. SUFFICES ASSUME NEW a \in Listed(before) PROVE a \in Listed(after)
  OBVIOUS
<1>1. PICK i \in 1..Len(before) : a \in before[i].addresses
  BY ListedAt
<1>2. Len(before) \in Nat /\ Len(after) \in Nat /\ Len(before) <= Len(after)
  BY DEF GoesOn
<1>3. i \in 1..Len(after)
  BY <1>2
<1>4. a \in after[i].addresses
  BY <1>1 DEF GoesOn
<1>. QED
  BY <1>3, <1>4, ListedAt

LEMMA GoesOnAndOn ==
    ASSUME NEW x \in Seq(RawDevice), NEW y \in Seq(RawDevice), NEW z \in Seq(RawDevice), GoesOn(x, y), GoesOn(y, z)
    PROVE  GoesOn(x, z)
<1>1. Len(x) \in Nat /\ Len(y) \in Nat /\ Len(z) \in Nat /\ Len(x) <= Len(y) /\ Len(y) <= Len(z)
  BY DEF GoesOn
<1>2. Listed(x) \subseteq Listed(y)
  BY GoesOnKeeps
<1>3. ASSUME NEW i \in 1..Len(x)
      PROVE  /\ z[i].id = x[i].id /\ z[i].interface = x[i].interface
             /\ x[i].addresses \subseteq z[i].addresses
             /\ z[i].addresses \cap Listed(x) \subseteq x[i].addresses
  <2>1. i \in 1..Len(y)
    BY <1>1
  <2>2. /\ y[i].id = x[i].id /\ y[i].interface = x[i].interface
        /\ x[i].addresses \subseteq y[i].addresses
        /\ y[i].addresses \cap Listed(x) \subseteq x[i].addresses
    BY DEF GoesOn
  <2>3. /\ z[i].id = y[i].id /\ z[i].interface = y[i].interface
        /\ y[i].addresses \subseteq z[i].addresses
        /\ z[i].addresses \cap Listed(y) \subseteq y[i].addresses
    BY <2>1 DEF GoesOn
  <2>. QED
    BY <1>2, <2>2, <2>3
<1>4. ASSUME NEW i \in (Len(x) + 1)..Len(z) PROVE z[i].id # Self /\ z[i].interface = NoName
  <2>1. CASE i <= Len(y)
    <3>1. i \in 1..Len(y) /\ i \in (Len(x) + 1)..Len(y)
      BY <1>1, <2>1
    <3>2. z[i].id = y[i].id /\ z[i].interface = y[i].interface
      BY <3>1 DEF GoesOn
    <3>3. y[i].id # Self /\ y[i].interface = NoName
      BY <3>1 DEF GoesOn
    <3>. QED
      BY <3>2, <3>3
  <2>2. CASE i > Len(y)
    <3>1. i \in (Len(y) + 1)..Len(z)
      BY <1>1, <2>2
    <3>. QED
      BY <3>1 DEF GoesOn
  <2>. QED
    BY <1>1, <2>1, <2>2
<1>5. Len(x) <= Len(z)
  BY <1>1
<1>. QED
  BY <1>3, <1>4, <1>5 DEF GoesOn

LEMMA GoesOnAsItIs ==
    ASSUME NEW x \in Seq(RawDevice)
    PROVE  GoesOn(x, x)
<1>1. Len(x) \in Nat /\ (Len(x) + 1)..Len(x) = {}
  OBVIOUS
<1>. QED
  BY <1>1 DEF GoesOn

\* One more device, that is not the probe.
LEMMA GoesOnWith ==
    ASSUME NEW x \in Seq(RawDevice), NEW d \in RawDevice, d.id # Self, d.interface = NoName
    PROVE  /\ Append(x, d) \in Seq(RawDevice) /\ GoesOn(x, Append(x, d))
           /\ Listed(Append(x, d)) = Listed(x) \cup d.addresses
<1>. DEFINE y == Append(x, d)
<1>1. /\ y \in Seq(RawDevice) /\ Len(x) \in Nat /\ Len(y) = Len(x) + 1
      /\ \A i \in 1..Len(x) : y[i] = x[i]
      /\ y[Len(x) + 1] = d
  OBVIOUS
<1>2. Listed(y) = Listed(x) \cup d.addresses
  <2>1. ToSet(y) = ToSet(x) \cup {d}
    BY AppendedElement
  <2>. QED
    BY <2>1 DEF Listed
<1>. HIDE DEF y
<1>3. \A i \in (Len(x) + 1)..Len(y) : i = Len(x) + 1
  BY <1>1
<1>4. Len(x) <= Len(y)
  BY <1>1
<1>5. GoesOn(x, y)
  BY <1>1, <1>3, <1>4 DEF GoesOn
<1>. QED
  BY <1>1, <1>2, <1>5 DEF y

LEMMA IpIsNotSelf == \A a, b : <<a, b>> # Self
<1>. SUFFICES ASSUME NEW a, NEW b, <<a, b>> = Self PROVE FALSE
  OBVIOUS
<1>1. Len(<<a, b>>) = 2 /\ Len(Self) = 1
  BY DEF Self
<1>. QED
  BY <1>1

\* A response gets a device, if nobody has its address.
LEMMA ResponseIsAdded ==
    ASSUME NEW devices \in Seq(RawDevice), NEW r \in Response
    PROVE  /\ AddResponse(devices, r) \in Seq(RawDevice) /\ GoesOn(devices, AddResponse(devices, r))
           /\ \A i \in 1..Len(devices) : AddResponse(devices, r)[i] = devices[i]
           /\ r.endpoint[1] \in Listed(AddResponse(devices, r))
<1>. DEFINE a == r.endpoint[1]
            d == [id |-> <<"ip", a>>, mac |-> NoMac, interface |-> NoName, addresses |-> {a}, sources |-> {r.method}]
<1>1. a \in Address /\ r.method \in Method
  BY DEF Response, Endpoint
<1>2. CASE a \in Listed(devices)
  <2>1. AddResponse(devices, r) = devices
    BY <1>2 DEF AddResponse, Listed
  <2>. QED
    BY <1>2, <2>1, GoesOnAsItIs
<1>3. CASE a \notin Listed(devices)
  <2>1. AddResponse(devices, r) = Append(devices, d)
    BY <1>3 DEF AddResponse, Listed
  <2>2. d \in RawDevice
    <3>1. <<"ip", a>> \in DeviceId /\ r.method \in Knowing
      BY <1>1, DeviceIdAssumption DEF Knowing
    <3>. HIDE DEF a
    <3>. QED
      BY <1>1, <3>1 DEF RawDevice
  <2>3. d.id # Self
    BY IpIsNotSelf
  <2>4. d.interface = NoName /\ d.addresses = {a}
    OBVIOUS
  <2>. HIDE DEF d
  <2>5. \A i \in 1..Len(devices) : Append(devices, d)[i] = devices[i]
    BY <2>2
  <2>. QED
    BY <2>1, <2>2, <2>3, <2>4, <2>5, GoesOnWith
<1>. QED
  BY <1>2, <1>3

\* One response after the other.
LEMMA ResponseRuns ==
    ASSUME NEW devices \in Seq(RawDevice), NEW responses \in Seq(Response)
    PROVE  \E states \in [0..Len(responses) -> Seq(RawDevice)] :
               /\ states[0] = devices /\ states[Len(responses)] = FoldLeft(AddResponse, devices, responses)
               /\ \A k \in 1..Len(responses) : states[k] = AddResponse(states[k - 1], responses[k])
<1>. DEFINE T == Seq(RawDevice)
            n == Len(responses)
            Follows(f) == f = [t \in SUBSET (1..n) |-> IF t = {} THEN devices ELSE AddResponse(f[t \ {Max(t)}], responses[Max(t)])]
            f == CHOOSE g : Follows(g)
            step == [p \in T \X (1..n) |-> AddResponse(p[1], responses[p[2]])]
<1>1. n \in Nat /\ DOMAIN responses = 1..n /\ devices \in T /\ \A k \in 1..n : responses[k] \in Response
  OBVIOUS
<1>2. FoldLeft(AddResponse, devices, responses) = f[1..n]
  <2>1. FoldLeft(AddResponse, devices, responses)
         = (CHOOSE g : g = [t \in SUBSET DOMAIN responses |->
                                 IF t = {} THEN devices ELSE AddResponse(g[t \ {Max(t)}], responses[Max(t)])])[DOMAIN responses]
    BY Zenon DEF FoldLeft, MapThenFoldSet
  <2>. QED
    BY <1>1, <2>1, Zenon
<1>3. step \in [T \X (1..n) -> T] /\ \A x \in T, k \in 1..n : step[<<x, k>>] = AddResponse(x, responses[k])
  BY <1>1, ResponseIsAdded
<1>. HIDE DEF step, n, T
<1>4. \E g : Follows(g)
  <2>1. PICK g \in [SUBSET (1..n) -> T] : FoldedBy(g, n, devices, step)
    BY <1>1, <1>3, FoldExists
  <2>2. \A t \in SUBSET (1..n) : t # {} => Max(t) \in 1..n /\ g[t \ {Max(t)}] \in T
    BY <1>1, <2>1, GreatestOfPart
  <2>3. \A t \in SUBSET (1..n) : g[t] = IF t = {} THEN devices ELSE AddResponse(g[t \ {Max(t)}], responses[Max(t)])
    BY <1>3, <2>1, <2>2 DEF FoldedBy
  <2>4. g = [t \in SUBSET (1..n) |-> g[t]]
    BY <2>1
  <2>. QED
    BY <2>3, <2>4, Zenon
<1>5. Follows(f)
  BY <1>4, Zenon
<1>. HIDE DEF f
<1>6. f[{}] = devices /\ \A t \in SUBSET (1..n) : t # {} => f[t] = AddResponse(f[t \ {Max(t)}], responses[Max(t)])
  BY <1>5
<1>7. \A t \in SUBSET (1..n) : t # {} /\ f[t \ {Max(t)}] \in T => f[t] = step[<<f[t \ {Max(t)}], Max(t)>>]
  BY <1>1, <1>3, <1>6, GreatestOfPart
<1>8. PICK states \in [0..n -> T] : Runs(states, n, devices, step, f[1..n])
  BY <1>1, <1>3, <1>6, <1>7, FoldRuns
<1>9. \A k \in 1..n : states[k] = AddResponse(states[k - 1], responses[k])
  <2>1. \A k \in 1..n : states[k - 1] \in T
    <3>1. \A k \in 1..n : k - 1 \in 0..n
      BY <1>1
    <3>. QED
      BY <3>1
  <2>. QED
    BY <1>3, <1>8, <2>1 DEF Runs
<1>. QED
  BY <1>2, <1>8, <1>9 DEF n, T, Runs

\* A node becomes a device, or is one.
LEMMA NodeIsAdded ==
    ASSUME NEW devices \in Seq(RawDevice), NEW node \in KubernetesNode
    PROVE  AddNode(devices, node) \in Seq(RawDevice) /\ GoesOn(devices, AddNode(devices, node))
<1>. DEFINE n == Len(devices)
            addresses == ToSet(node.addresses)
            known == Listed(devices)
            Some == {j \in 1..n : devices[j].addresses \cap addresses # {}}
            i == IF Some # {} THEN Min(Some) ELSE 0
            more == [devices EXCEPT ![i].addresses = @ \cup (addresses \ known)]
            d == [id |-> <<"node", node.name>>, mac |-> NoMac, interface |-> NoName,
                  addresses |-> addresses, sources |-> {"kubernetes-api"}]
<1>1. AddNode(devices, node) = CASE addresses = {} -> devices
                                 [] addresses # {} /\ i # 0 -> more
                                 [] OTHER -> Append(devices, d)
  BY Zenon DEF AddNode, SelectInSeq, Listed
<1>2. node.name \in NodeName /\ addresses \subseteq Address
  <2>1. node.addresses \in Seq(Address) /\ node.name \in NodeName
    BY DEF KubernetesNode
  <2>. QED
    BY <2>1 DEF ToSet
<1>3. n \in Nat /\ DOMAIN devices = 1..n /\ \A j \in 1..n : devices[j] \in RawDevice
  OBVIOUS
<1>4. i # 0 => i \in 1..n
  <2>1. Some \in SUBSET (1..n)
    OBVIOUS
  <2>. HIDE DEF Some, n
  <2>2. Some # {} => Min(Some) \in Some
    BY <1>3, <2>1, FirstOrNone
  <2>. QED
    BY <2>1, <2>2
<1>. HIDE DEF i
<1>5. CASE addresses = {}
  BY <1>1, <1>5, GoesOnAsItIs
<1>6. CASE addresses # {} /\ i # 0
  <2>. DEFINE added == [devices[i] EXCEPT !.addresses = @ \cup (addresses \ known)]
  <2>1. AddNode(devices, node) = more
    BY <1>1, <1>6
  <2>2. i \in 1..n /\ devices[i] \in RawDevice
    BY <1>3, <1>4, <1>6
  <2>3. /\ added \in RawDevice /\ added.id = devices[i].id /\ added.interface = devices[i].interface
        /\ added.addresses = devices[i].addresses \cup (addresses \ known)
    <3>. HIDE DEF addresses, known, n
    <3>. QED
      BY <1>2, <2>2 DEF RawDevice
  <2>4. /\ more \in Seq(RawDevice) /\ Len(more) = n /\ more[i] = added
        /\ \A j \in 1..n : j # i => more[j] = devices[j]
    <3>1. more = [devices EXCEPT ![i] = added]
      OBVIOUS
    <3>. HIDE DEF addresses, known, added, more
    <3>2. more \in Seq(RawDevice) /\ Len(more) = Len(devices)
      BY <2>2, <2>3, <3>1
    <3>. QED
      BY <1>3, <2>2, <3>1, <3>2
  <2>. HIDE DEF more, added, addresses
  <2>5. \A j \in 1..n : /\ more[j].id = devices[j].id /\ more[j].interface = devices[j].interface
                        /\ devices[j].addresses \subseteq more[j].addresses
                        /\ more[j].addresses \cap known \subseteq devices[j].addresses
    BY <2>3, <2>4
  <2>6. n <= n /\ (n + 1)..n = {}
    BY <1>3
  <2>. QED
    BY <2>1, <2>4, <2>5, <2>6 DEF GoesOn
<1>7. CASE addresses # {} /\ i = 0
  <2>1. AddNode(devices, node) = Append(devices, d)
    BY <1>1, <1>7
  <2>2. d \in RawDevice
    <3>1. <<"node", node.name>> \in DeviceId /\ "kubernetes-api" \in Knowing
      BY <1>2, DeviceIdAssumption DEF Knowing
    <3>. HIDE DEF addresses
    <3>. QED
      BY <1>2, <3>1 DEF RawDevice
  <2>3. d.id # Self
    BY IpIsNotSelf
  <2>4. d.interface = NoName
    OBVIOUS
  <2>. HIDE DEF d
  <2>. QED
    BY <2>1, <2>2, <2>3, <2>4, GoesOnWith
<1>. QED
  BY <1>5, <1>6, <1>7

\* One node after the other.
LEMMA NodeRuns ==
    ASSUME NEW devices \in Seq(RawDevice), NEW nodes \in Seq(KubernetesNode)
    PROVE  \E states \in [0..Len(nodes) -> Seq(RawDevice)] :
               /\ states[0] = devices /\ states[Len(nodes)] = FoldLeft(AddNode, devices, nodes)
               /\ \A k \in 1..Len(nodes) : states[k] = AddNode(states[k - 1], nodes[k])
<1>. DEFINE T == Seq(RawDevice)
            n == Len(nodes)
            Follows(f) == f = [t \in SUBSET (1..n) |-> IF t = {} THEN devices ELSE AddNode(f[t \ {Max(t)}], nodes[Max(t)])]
            f == CHOOSE g : Follows(g)
            step == [p \in T \X (1..n) |-> AddNode(p[1], nodes[p[2]])]
<1>1. n \in Nat /\ DOMAIN nodes = 1..n /\ devices \in T /\ \A k \in 1..n : nodes[k] \in KubernetesNode
  OBVIOUS
<1>2. FoldLeft(AddNode, devices, nodes) = f[1..n]
  <2>1. FoldLeft(AddNode, devices, nodes)
         = (CHOOSE g : g = [t \in SUBSET DOMAIN nodes |->
                                 IF t = {} THEN devices ELSE AddNode(g[t \ {Max(t)}], nodes[Max(t)])])[DOMAIN nodes]
    BY Zenon DEF FoldLeft, MapThenFoldSet
  <2>. QED
    BY <1>1, <2>1, Zenon
<1>3. step \in [T \X (1..n) -> T] /\ \A x \in T, k \in 1..n : step[<<x, k>>] = AddNode(x, nodes[k])
  BY <1>1, NodeIsAdded
<1>. HIDE DEF step, n, T
<1>4. \E g : Follows(g)
  <2>1. PICK g \in [SUBSET (1..n) -> T] : FoldedBy(g, n, devices, step)
    BY <1>1, <1>3, FoldExists
  <2>2. \A t \in SUBSET (1..n) : t # {} => Max(t) \in 1..n /\ g[t \ {Max(t)}] \in T
    BY <1>1, <2>1, GreatestOfPart
  <2>3. \A t \in SUBSET (1..n) : g[t] = IF t = {} THEN devices ELSE AddNode(g[t \ {Max(t)}], nodes[Max(t)])
    BY <1>3, <2>1, <2>2 DEF FoldedBy
  <2>4. g = [t \in SUBSET (1..n) |-> g[t]]
    BY <2>1
  <2>. QED
    BY <2>3, <2>4, Zenon
<1>5. Follows(f)
  BY <1>4, Zenon
<1>. HIDE DEF f
<1>6. f[{}] = devices /\ \A t \in SUBSET (1..n) : t # {} => f[t] = AddNode(f[t \ {Max(t)}], nodes[Max(t)])
  BY <1>5
<1>7. \A t \in SUBSET (1..n) : t # {} /\ f[t \ {Max(t)}] \in T => f[t] = step[<<f[t \ {Max(t)}], Max(t)>>]
  BY <1>1, <1>3, <1>6, GreatestOfPart
<1>8. PICK states \in [0..n -> T] : Runs(states, n, devices, step, f[1..n])
  BY <1>1, <1>3, <1>6, <1>7, FoldRuns
<1>9. \A k \in 1..n : states[k] = AddNode(states[k - 1], nodes[k])
  <2>1. \A k \in 1..n : states[k - 1] \in T
    <3>1. \A k \in 1..n : k - 1 \in 0..n
      BY <1>1
    <3>. QED
      BY <3>1
  <2>. QED
    BY <1>3, <1>8, <2>1 DEF Runs
<1>. QED
  BY <1>2, <1>8, <1>9 DEF n, T, Runs

\* All the responses, and then all the nodes.
LEMMA ResponsesAreAdded ==
    ASSUME NEW devices \in Seq(RawDevice), NEW responses \in Seq(Response)
    PROVE  LET all == FoldLeft(AddResponse, devices, responses)
           IN  /\ all \in Seq(RawDevice) /\ GoesOn(devices, all)
               /\ \A i \in 1..Len(devices) : all[i] = devices[i]
               /\ \A r \in ToSet(responses) : r.endpoint[1] \in Listed(all)
<1>. DEFINE n == Len(responses)
            all == FoldLeft(AddResponse, devices, responses)
<1>1. PICK states \in [0..n -> Seq(RawDevice)] :
         /\ states[0] = devices /\ states[n] = all
         /\ \A k \in 1..n : states[k] = AddResponse(states[k - 1], responses[k])
  BY ResponseRuns
<1>2. n \in Nat /\ DOMAIN responses = 1..n /\ \A k \in 1..n : responses[k] \in Response
  OBVIOUS
<1>. HIDE DEF n, all
<1>. DEFINE S == {k \in 0..n : /\ GoesOn(devices, states[k])
                               /\ \A i \in 1..Len(devices) : states[k][i] = devices[i]
                               /\ \A j \in 1..k : responses[j].endpoint[1] \in Listed(states[k])}
<1>3. 0 \in S
  <2>1. GoesOn(devices, states[0])
    BY <1>1, GoesOnAsItIs
  <2>2. 0 \in 0..n /\ 1..0 = {}
    BY <1>2
  <2>. QED
    BY <1>1, <2>1, <2>2
<1>4. \A k \in 0..(n - 1) : k \in S => k + 1 \in S
  <2>. SUFFICES ASSUME NEW k \in 0..(n - 1), k \in S PROVE k + 1 \in S
    OBVIOUS
  <2>1. k \in Nat /\ k + 1 \in 1..n /\ k \in 0..n /\ k + 1 \in 0..n /\ (k + 1) - 1 = k
    BY <1>2
  <2>2. states[k + 1] = AddResponse(states[k], responses[k + 1])
    BY <1>1, <2>1
  <2>3. states[k] \in Seq(RawDevice) /\ states[k + 1] \in Seq(RawDevice) /\ responses[k + 1] \in Response
    BY <1>1, <1>2, <2>1
  <2>4. /\ GoesOn(states[k], states[k + 1]) /\ responses[k + 1].endpoint[1] \in Listed(states[k + 1])
        /\ \A i \in 1..Len(states[k]) : states[k + 1][i] = states[k][i]
    <3>. DEFINE x == states[k]
                r == responses[k + 1]
    <3>1. x \in Seq(RawDevice) /\ r \in Response
      BY <2>3
    <3>. HIDE DEF x, r
    <3>2. /\ GoesOn(x, AddResponse(x, r)) /\ r.endpoint[1] \in Listed(AddResponse(x, r))
          /\ \A i \in 1..Len(x) : AddResponse(x, r)[i] = x[i]
      BY <3>1, ResponseIsAdded
    <3>. QED
      BY <2>2, <3>2 DEF x, r
  <2>5. GoesOn(devices, states[k + 1])
    BY <2>3, <2>4, GoesOnAndOn
  <2>6. Listed(states[k]) \subseteq Listed(states[k + 1])
    BY <2>3, <2>4, GoesOnKeeps
  <2>7. \A j \in 1..(k + 1) : j \in 1..k \/ j = k + 1
    BY <2>1
  <2>8. \A i \in 1..Len(devices) : states[k + 1][i] = devices[i]
    <3>1. Len(devices) \in Nat /\ Len(states[k]) \in Nat /\ Len(devices) <= Len(states[k])
      BY <2>3 DEF GoesOn
    <3>2. \A i \in 1..Len(devices) : i \in 1..Len(states[k])
      BY <3>1
    <3>. QED
      BY <2>4, <3>2
  <2>. QED
    BY <2>1, <2>4, <2>5, <2>6, <2>7, <2>8
<1>5. n \in S
  <2>. HIDE DEF S
  <2>1. \A k \in 0..n : k \in S
    BY <1>2, <1>3, <1>4, Induction
  <2>. QED
    BY <1>2, <2>1
<1>6. \A r \in ToSet(responses) : r.endpoint[1] \in Listed(all)
  <2>. SUFFICES ASSUME NEW r \in ToSet(responses) PROVE r.endpoint[1] \in Listed(all)
    OBVIOUS
  <2>1. PICK j \in 1..n : r = responses[j]
    BY <1>2 DEF ToSet
  <2>. QED
    BY <1>1, <1>5, <2>1
<1>7. n \in 0..n
  BY <1>2
<1>. QED
  BY <1>1, <1>5, <1>6, <1>7 DEF all

LEMMA NodesAreAdded ==
    ASSUME NEW devices \in Seq(RawDevice), NEW nodes \in Seq(KubernetesNode)
    PROVE  FoldLeft(AddNode, devices, nodes) \in Seq(RawDevice) /\ GoesOn(devices, FoldLeft(AddNode, devices, nodes))
<1>. DEFINE n == Len(nodes)
            all == FoldLeft(AddNode, devices, nodes)
<1>1. PICK states \in [0..n -> Seq(RawDevice)] :
         /\ states[0] = devices /\ states[n] = all
         /\ \A k \in 1..n : states[k] = AddNode(states[k - 1], nodes[k])
  BY NodeRuns
<1>2. n \in Nat /\ \A k \in 1..n : nodes[k] \in KubernetesNode
  OBVIOUS
<1>. HIDE DEF n, all
<1>. DEFINE S == {k \in 0..n : GoesOn(devices, states[k])}
<1>3. 0 \in S
  <2>1. GoesOn(devices, states[0]) /\ 0 \in 0..n
    BY <1>1, <1>2, GoesOnAsItIs
  <2>. QED
    BY <2>1
<1>4. \A k \in 0..(n - 1) : k \in S => k + 1 \in S
  <2>. SUFFICES ASSUME NEW k \in 0..(n - 1), k \in S PROVE k + 1 \in S
    OBVIOUS
  <2>1. k + 1 \in 1..n /\ k \in 0..n /\ k + 1 \in 0..n /\ (k + 1) - 1 = k
    BY <1>2
  <2>2. states[k + 1] = AddNode(states[k], nodes[k + 1])
    BY <1>1, <2>1
  <2>3. states[k] \in Seq(RawDevice) /\ states[k + 1] \in Seq(RawDevice) /\ nodes[k + 1] \in KubernetesNode
    BY <1>1, <1>2, <2>1
  <2>4. GoesOn(states[k], states[k + 1])
    BY <2>2, <2>3, NodeIsAdded
  <2>5. GoesOn(devices, states[k + 1])
    BY <2>3, <2>4, GoesOnAndOn
  <2>. QED
    BY <2>1, <2>5
<1>5. n \in S
  <2>. HIDE DEF S
  <2>1. \A k \in 0..n : k \in S
    BY <1>2, <1>3, <1>4, Induction
  <2>. QED
    BY <1>2, <2>1
<1>6. n \in 0..n
  BY <1>2
<1>. QED
  BY <1>1, <1>5, <1>6 DEF all

\* What the settings say of a device that was not seen on an interface.
LEMMA UnseenIsIdentified ==
    ASSUME NEW settings, IsSettings(settings), NEW d, d.interface = NoName
    PROVE  PolicyOf(d, settings).identity
<1>1. NoName \notin DOMAIN settings /\ NoName \notin VirtualName
  BY NameAssumption, IPv4Assumption DEF IsSettings
<1>2. PolicyOf(d, settings) = ResolvePolicy(settings, NoName, TRUE)
  BY DEF PolicyOf
<1>3. ResolvePolicy(settings, NoName, TRUE).identity
  <2>. DEFINE default == DefaultPolicy(NoName, TRUE)
              configured == IF NoName \in DOMAIN settings THEN settings[NoName] ELSE <<>>
  <2>1. default.identity /\ "identity" \in DOMAIN default
    BY <1>1 DEF DefaultPolicy
  <2>2. "identity" \notin DOMAIN configured
    BY <1>1
  <2>3. ResolvePolicy(settings, NoName, TRUE) = [f \in DOMAIN default |-> IF f \in DOMAIN configured THEN configured[f] ELSE default[f]]
    BY Zenon DEF ResolvePolicy
  <2>. HIDE DEF default, configured
  <2>. QED
    BY <2>1, <2>2, <2>3
<1>. QED
  BY <1>2, <1>3

\* What a snapshot or the current state is made into before the settings are looked at.
Found(facts) == FoldLeft(AddNode, FoldLeft(AddResponse, facts.devices, facts.responses), facts.nodes)

LEMMA FoundGoesOn ==
    ASSUME NEW facts \in RawFacts
    PROVE  /\ Found(facts) \in Seq(RawDevice) /\ GoesOn(facts.devices, Found(facts))
           /\ \A r \in ToSet(facts.responses) :
                 /\ r.endpoint[1] \in Listed(Found(facts))
                 /\ \A i \in 1..Len(facts.devices) :
                       r.endpoint[1] \in Found(facts)[i].addresses => r.endpoint[1] \in facts.devices[i].addresses
<1>. DEFINE devices == facts.devices
            answered == FoldLeft(AddResponse, devices, facts.responses)
            all == FoldLeft(AddNode, answered, facts.nodes)
<1>1. devices \in Seq(RawDevice) /\ facts.responses \in Seq(Response) /\ facts.nodes \in Seq(KubernetesNode)
  BY DEF RawFacts
<1>2. Found(facts) = all
  BY DEF Found
<1>3. /\ answered \in Seq(RawDevice) /\ GoesOn(devices, answered)
      /\ \A i \in 1..Len(devices) : answered[i] = devices[i]
      /\ \A r \in ToSet(facts.responses) : r.endpoint[1] \in Listed(answered)
  BY <1>1, ResponsesAreAdded
<1>. HIDE DEF answered
<1>4. all \in Seq(RawDevice) /\ GoesOn(answered, all)
  BY <1>1, <1>3, NodesAreAdded
<1>. HIDE DEF all, devices
<1>5. GoesOn(devices, all)
  BY <1>1, <1>3, <1>4, GoesOnAndOn
<1>6. Listed(answered) \subseteq Listed(all)
  BY <1>3, <1>4, GoesOnKeeps
<1>7. ASSUME NEW r \in ToSet(facts.responses), NEW i \in 1..Len(devices), r.endpoint[1] \in all[i].addresses
      PROVE  r.endpoint[1] \in devices[i].addresses
  <2>1. Len(devices) \in Nat /\ Len(answered) \in Nat /\ Len(devices) <= Len(answered)
    BY <1>1, <1>3 DEF GoesOn
  <2>2. i \in 1..Len(answered)
    BY <2>1
  <2>3. all[i].addresses \cap Listed(answered) \subseteq answered[i].addresses
    BY <1>4, <2>2 DEF GoesOn
  <2>. QED
    BY <1>3, <1>7, <2>3
<1>. QED
  BY <1>2, <1>3, <1>4, <1>5, <1>6, <1>7 DEF devices

\* The devices that the settings leave, and the interfaces of the probe.
LEMMA EligibleDevices ==
    ASSUME NEW facts \in RawFacts, NEW settings
    PROVE  /\ Eligible(facts, settings) \in Seq(RawDevice)
           /\ ToSet(Eligible(facts, settings)) =
                 {d \in ToSet(Found(facts)) : d.id = Self \/ PolicyOf(d, settings).identity}
           /\ ProbeInterfaces(facts, Eligible(facts, settings)) \in Seq(Interface)
<1>. DEFINE all == Found(facts)
            some == {d \in ToSet(all) : d.id = Self \/ PolicyOf(d, settings).identity}
<1>1. all \in Seq(RawDevice)
  BY FoundGoesOn
<1>2. Eligible(facts, settings) = Kept(all, some)
  BY Zenon DEF Eligible, Found
<1>3. Kept(all, some) \in Seq(RawDevice) /\ ToSet(Kept(all, some)) = {x \in ToSet(all) : x \in some}
  <2>. HIDE DEF all, some
  <2>. QED
    BY <1>1, KeptElements
<1>4. ProbeInterfaces(facts, Eligible(facts, settings)) \in Seq(Interface)
  <2>1. facts.interfaces \in Seq(Interface)
    BY DEF RawFacts
  <2>2. Real(facts.interfaces) \in Seq(Interface)
    BY <2>1, KeptElements DEF Real
  <2>3. <<>> \in Seq(Interface)
    OBVIOUS
  <2>. QED
    BY <2>2, <2>3 DEF ProbeInterfaces
<1>. HIDE DEF all
<1>. QED
  BY <1>2, <1>3, <1>4 DEF all

LEMMA PolicyIsBoolean ==
    ASSUME NEW settings, IsSettings(settings), NEW name, NEW up \in BOOLEAN
    PROVE  ResolvePolicy(settings, name, up).map \in BOOLEAN
<1>. DEFINE default == DefaultPolicy(name, up)
            configured == IF name \in DOMAIN settings THEN settings[name] ELSE <<>>
<1>1. "map" \in DOMAIN default /\ default["map"] \in BOOLEAN
  BY DEF DefaultPolicy
<1>2. "map" \in DOMAIN configured => configured["map"] \in BOOLEAN
  <2>1. DOMAIN <<>> = {}
    OBVIOUS
  <2>. QED
    BY <2>1 DEF IsSettings
<1>3. ResolvePolicy(settings, name, up) = [f \in DOMAIN default |-> IF f \in DOMAIN configured THEN configured[f] ELSE default[f]]
  BY Zenon DEF ResolvePolicy
<1>. HIDE DEF default, configured
<1>. QED
  BY <1>1, <1>2, <1>3

\* The first device that lists an address, and the addresses of others than the probe.
Owner(raw, a) == raw[SelectInSeq(raw, LAMBDA d : a \in d.addresses)]
OfOthers(raw) == {a \in Listed(raw) : Owner(raw, a).id # Self}

LEMMA OwnerListsIt ==
    ASSUME NEW raw \in Seq(RawDevice), NEW a \in Listed(raw)
    PROVE  Owner(raw, a) \in ToSet(raw) /\ a \in Owner(raw, a).addresses
<1>. DEFINE n == Len(raw)
            Some == {j \in 1..n : a \in raw[j].addresses}
            i == IF Some # {} THEN Min(Some) ELSE 0
<1>1. Owner(raw, a) = raw[i]
  BY Zenon DEF Owner, SelectInSeq
<1>2. n \in Nat /\ DOMAIN raw = 1..n
  OBVIOUS
<1>3. Some \in SUBSET (1..n) /\ Some # {}
  BY ListedAt
<1>4. i \in Some
  <2>. HIDE DEF Some, n
  <2>. QED
    BY <1>2, <1>3, FirstOrNone
<1>. HIDE DEF i
<1>. QED
  BY <1>1, <1>2, <1>4 DEF ToSet

\* The interface of the probe that has an address.
LEMMA PortHasIt ==
    ASSUME NEW own \in Seq(Interface), NEW a \in OwnAddresses(own)
    PROVE  LET i == SelectInSeq(own, LAMBDA x : a \in AddressesOf(x)) IN own[i] \in ToSet(own)
<1>. DEFINE n == Len(own)
            Some == {j \in 1..n : a \in AddressesOf(own[j])}
            i == IF Some # {} THEN Min(Some) ELSE 0
<1>1. SelectInSeq(own, LAMBDA x : a \in AddressesOf(x)) = i
  BY Zenon DEF SelectInSeq
<1>2. n \in Nat /\ DOMAIN own = 1..n
  OBVIOUS
<1>3. Some \in SUBSET (1..n) /\ Some # {}
  <2>1. PICK x \in ToSet(own) : a \in AddressesOf(x)
    BY DEF OwnAddresses
  <2>2. PICK j \in 1..n : own[j] = x
    BY <1>2 DEF ToSet
  <2>. QED
    BY <2>1, <2>2
<1>4. i \in Some
  <2>. HIDE DEF Some, n
  <2>. QED
    BY <1>2, <1>3, FirstOrNone
<1>. HIDE DEF i
<1>. QED
  BY <1>1, <1>2, <1>4 DEF ToSet

\* Whose each address is.
OwnedByOne(owned, raw, own, settings) ==
    /\ owned = [a \in OfOthers(raw) \cup OwnAddresses(own) |-> owned[a]]
    /\ \A a \in OfOthers(raw) : \E d \in ToSet(raw) :
          /\ d.id # Self /\ a \in d.addresses
          /\ owned[a] = [device |-> d.id, interface |-> <<d.id, LabelOf(d)>>, advertisedBy |-> {},
                         visible |-> PolicyOf(d, settings).map]
    /\ \A a \in OwnAddresses(own) \ OfOthers(raw) : \E x \in ToSet(own) :
          owned[a] = [device |-> Self, interface |-> <<Self, x.name>>, advertisedBy |-> {},
                      visible |-> ResolvePolicy(settings, x.name, x.up).map]

LEMMA OwnedByFirst ==
    ASSUME NEW raw \in Seq(RawDevice), NEW own \in Seq(Interface), NEW settings
    PROVE  OwnedByOne(Owned(raw, own, settings), raw, own, settings)
<1>. DEFINE Port(a) == own[SelectInSeq(own, LAMBDA x : a \in AddressesOf(x))]
            Of(d) == [device |-> d.id, interface |-> <<d.id, LabelOf(d)>>, advertisedBy |-> {},
                      visible |-> PolicyOf(d, settings).map]
            Probed(x) == [device |-> Self, interface |-> <<Self, x.name>>, advertisedBy |-> {},
                          visible |-> ResolvePolicy(settings, x.name, x.up).map]
            others == OfOthers(raw)
            owned == Owned(raw, own, settings)
<1>1. owned = [a \in others \cup OwnAddresses(own) |-> IF a \in others THEN Of(Owner(raw, a)) ELSE Probed(Port(a))]
  BY Zenon DEF Owned, OfOthers, Owner, Listed
<1>2. \A a \in others : Owner(raw, a) \in ToSet(raw) /\ a \in Owner(raw, a).addresses /\ Owner(raw, a).id # Self
  BY OwnerListsIt DEF OfOthers
<1>3. \A a \in OwnAddresses(own) : Port(a) \in ToSet(own)
  BY PortHasIt
<1>. HIDE DEF Port, Of, Probed, others, owned
<1>4. owned = [a \in others \cup OwnAddresses(own) |-> owned[a]]
  BY <1>1
<1>5. \A a \in others : owned[a] = Of(Owner(raw, a))
  BY <1>1
<1>6. \A a \in OwnAddresses(own) \ others : owned[a] = Probed(Port(a))
  BY <1>1
<1>7. \A a \in others : \E d \in ToSet(raw) : d.id # Self /\ a \in d.addresses /\ owned[a] = Of(d)
  BY <1>2, <1>5
<1>8. \A a \in OwnAddresses(own) \ others : \E x \in ToSet(own) : owned[a] = Probed(x)
  BY <1>3, <1>6
<1>. QED
  BY <1>4, <1>7, <1>8, Zenon DEF OwnedByOne, Of, Probed, others, owned

\* A response has an address that is assigned, but when the settings exclude who had it.
LEMMA AnswersAreOwned ==
    ASSUME NEW facts \in RawFacts, ProbeIsAtHome(facts.interfaces, facts.devices),
           NEW settings, IsSettings(settings), NEW r \in ToSet(facts.responses)
    PROVE  LET raw == Eligible(facts, settings)
           IN  \/ r.endpoint[1] \in OfOthers(raw) \cup OwnAddresses(ProbeInterfaces(facts, raw))
               \/ \E i \in 1..Len(facts.devices) : /\ r.endpoint[1] \in facts.devices[i].addresses
                                                   /\ ~PolicyOf(facts.devices[i], settings).identity
<1>. DEFINE raw == Eligible(facts, settings)
            own == ProbeInterfaces(facts, raw)
            all == Found(facts)
            devices == facts.devices
            a == r.endpoint[1]
<1>1. /\ all \in Seq(RawDevice) /\ GoesOn(devices, all) /\ a \in Listed(all)
      /\ \A i \in 1..Len(devices) : a \in all[i].addresses => a \in devices[i].addresses
  BY FoundGoesOn
<1>2. devices \in Seq(RawDevice)
  BY DEF RawFacts
<1>3. /\ raw \in Seq(RawDevice)
      /\ ToSet(raw) = {d \in ToSet(all) : d.id = Self \/ PolicyOf(d, settings).identity}
  BY EligibleDevices
<1>4. own = IF \E i \in 1..Len(raw) : raw[i].id = Self THEN Real(facts.interfaces) ELSE <<>>
  BY DEF ProbeInterfaces
<1>5. Len(devices) \in Nat /\ Len(all) \in Nat /\ Len(raw) \in Nat
  BY <1>1, <1>2, <1>3
<1>. HIDE DEF raw, own, all, devices, a
\* One of the first devices is still of its interface, and is the probe if it was.
<1>6. \A j \in 1..Len(all) : j \in 1..Len(devices) \/ (all[j].id # Self /\ all[j].interface = NoName)
  <2>1. \A j \in 1..Len(all) : j \in 1..Len(devices) \/ j \in (Len(devices) + 1)..Len(all)
    BY <1>5
  <2>. QED
    BY <1>1, <2>1 DEF GoesOn
<1>7. \A j \in 1..Len(devices) : all[j].id = devices[j].id /\ all[j].interface = devices[j].interface
  BY <1>1 DEF GoesOn
<1>8. PICK j \in 1..Len(all) : a \in all[j].addresses
  BY <1>1, ListedAt
<1>9. CASE all[j].id # Self /\ ~PolicyOf(all[j], settings).identity
  <2>1. all[j].interface # NoName
    BY <1>9, UnseenIsIdentified
  <2>2. j \in 1..Len(devices)
    BY <1>6, <2>1
  <2>3. PolicyOf(devices[j], settings) = PolicyOf(all[j], settings)
    BY <1>7, <2>2 DEF PolicyOf
  <2>. QED
    BY <1>1, <1>8, <1>9, <2>2, <2>3 DEF a, devices
<1>10. CASE all[j].id = Self \/ PolicyOf(all[j], settings).identity
  <2>1. all[j] \in ToSet(raw)
    BY <1>1, <1>3, <1>10 DEF ToSet
  <2>2. a \in Listed(raw)
    BY <1>8, <2>1 DEF Listed
  <2>. DEFINE owner == Owner(raw, a)
  <2>3. owner \in ToSet(raw) /\ a \in owner.addresses
    BY <1>3, <2>2, OwnerListsIt
  <2>4. CASE owner.id # Self
    <3>1. a \in OfOthers(raw)
      BY <2>2, <2>4 DEF OfOthers
    <3>. QED
      BY <3>1 DEF a, raw
  <2>5. CASE owner.id = Self
    <3>. HIDE DEF owner
    <3>1. PICK k \in 1..Len(all) : owner = all[k]
      BY <1>1, <1>3, <2>3 DEF ToSet
    <3>2. k \in 1..Len(devices) /\ devices[k].id = Self
      BY <1>6, <1>7, <2>5, <3>1
    <3>3. a \in devices[k].addresses
      BY <1>1, <2>3, <3>1, <3>2
    <3>4. k \in OwnOf(devices)
      BY <3>2 DEF OwnOf
    <3>5. a \in OwnAddresses(Real(facts.interfaces))
      BY <3>3, <3>4 DEF ProbeIsAtHome, devices
    <3>6. PICK i \in 1..Len(raw) : raw[i] = owner
      BY <1>3, <2>3 DEF ToSet
    <3>7. own = Real(facts.interfaces)
      BY <1>4, <2>5, <3>6
    <3>. QED
      BY <3>5, <3>7 DEF a, own, raw
  <2>. QED
    BY <2>4, <2>5
<1>. QED
  BY <1>9, <1>10

-----------------------------------------------------------------------------
\* An inventory of which no reference dangles and each device has an interface, but the probe.
Sound(inv) == I!IsInventory(inv) /\ I!ReferencesHold(inv)
Ready(inv) == \A d \in DOMAIN inv.devices : d # Self => inv.devices[d].interfaces # {}

LEMMA LabelsAreLabels == \A d \in RawDevice : LabelOf(d) \in Label
  BY DEF RawDevice, LabelOf, Label

\* What the tables of devices and assignments make is an inventory.
LEMMA TablesAreSound ==
    ASSUME NEW raw \in Seq(RawDevice), NEW own \in Seq(Interface), NEW settings, IsSettings(settings),
           own # <<>> => \E i \in 1..Len(raw) : raw[i].id = Self,
           NEW owned, DOMAIN owned \subseteq Address, owned \in [DOMAIN owned -> I!Assignment],
           \A a \in DOMAIN owned :
              \/ \E d \in ToSet(raw) : d.id # Self /\ owned[a].device = d.id /\ owned[a].interface = <<d.id, LabelOf(d)>>
              \/ \E x \in ToSet(own) : owned[a].device = Self /\ owned[a].interface = <<Self, x.name>>,
           \A a \in DOMAIN owned : owned[a].advertisedBy = {}
    PROVE  LET inv == Tables(raw, own, owned, settings)
           IN  Sound(inv) /\ Ready(inv) /\ inv.assignments = owned
<1>. DEFINE inv == Tables(raw, own, owned, settings)
            others == {raw[i] : i \in {j \in 1..Len(raw) : raw[j].id # Self}}
            Having(id) == {a \in DOMAIN owned : owned[a].device = id}
            Of(id) == CHOOSE d \in others : d.id = id
            ids == {d.id : d \in others}
            probe == IF \E i \in 1..Len(raw) : raw[i].id = Self THEN {Self} ELSE {}
            ofOthers == {<<d.id, LabelOf(d)>> : d \in others}
            ofProbe == {<<Self, x.name>> : x \in ToSet(own)}
            Port(name) == CHOOSE x \in ToSet(own) : x.name = name
            Entry(id) == IF id = Self
                         THEN [interfaces |-> ofProbe, assignments |-> Having(id), sources |-> {"local-interface"}]
                         ELSE [interfaces |-> {<<id, LabelOf(Of(id))>>}, assignments |-> Having(id), sources |-> Of(id).sources]
            Of2(i) == IF i[1] = Self
                      THEN [device |-> Self, mac |-> Port(i[2]).mac,
                            visible |-> ResolvePolicy(settings, i[2], Port(i[2]).up).map]
                      ELSE [device |-> i[1], mac |-> i[2], visible |-> PolicyOf(Of(i[1]), settings).map]
<1>1. inv = [devices |-> [id \in ids \cup probe |-> Entry(id)],
             interfaces |-> [i \in ofOthers \cup ofProbe |-> Of2(i)],
             assignments |-> owned]
  BY Zenon DEF Tables
<1>2. /\ inv.devices = [id \in ids \cup probe |-> Entry(id)]
      /\ inv.interfaces = [i \in ofOthers \cup ofProbe |-> Of2(i)]
      /\ inv.assignments = owned
      /\ inv = [devices |-> inv.devices, interfaces |-> inv.interfaces, assignments |-> inv.assignments]
  <2>. HIDE DEF inv, ids, probe, Entry, ofOthers, ofProbe, Of2
  <2>. QED
    BY <1>1
<1>3. DOMAIN raw = 1..Len(raw) /\ \A i \in 1..Len(raw) : raw[i] \in RawDevice
  OBVIOUS
<1>4. others = {d \in ToSet(raw) : d.id # Self} /\ others \subseteq RawDevice
  BY <1>3 DEF ToSet
<1>5. \A x \in ToSet(own) : x \in Interface
  BY DEF ToSet
<1>. HIDE DEF inv, others
<1>6. \A id \in ids : Of(id) \in others /\ Of(id).id = id
  OBVIOUS
<1>7. \A x \in ToSet(own) : Port(x.name) \in ToSet(own) /\ Port(x.name).name = x.name
  OBVIOUS
<1>8. \A d \in others : d \in RawDevice /\ d.id # Self /\ d.id \in DeviceId /\ d.sources \subseteq Knowing /\ LabelOf(d) \in Label
  BY <1>4, LabelsAreLabels DEF RawDevice
<1>9. Self \in DeviceId /\ Self # NoDevice /\ NoDevice \notin DeviceId
  BY DeviceIdAssumption
<1>10. ofOthers \subseteq DeviceId \X Label /\ ofProbe \subseteq DeviceId \X Label
  <2>1. \A x \in ToSet(own) : x.name \in Label
    BY <1>5 DEF Interface, Label
  <2>. QED
    BY <1>8, <1>9, <2>1
<1>11. I!InterfaceId = DeviceId \X Label
  BY DEF I!InterfaceId, Label
<1>12. own # <<>> => probe = {Self}
  OBVIOUS
<1>13. ToSet(own) # {} => own # <<>>
  BY DEF ToSet
<1>14. \A id \in ids : id # Self /\ id \in DeviceId
  BY <1>8
<1>15. probe \subseteq {Self}
  OBVIOUS
<1>16. \A i \in ofOthers : i[1] \in ids /\ i[1] # Self /\ i[2] \in Label
  BY <1>8
<1>17. \A i \in ofProbe : i[1] = Self /\ \E x \in ToSet(own) : i[2] = x.name
  OBVIOUS
<1>18. \A id : Having(id) \subseteq DOMAIN owned /\ \A a \in Having(id) : owned[a].device = id
  OBVIOUS
<1>. HIDE DEF Port, Of
<1>19. \A i \in ofOthers \cup ofProbe : Of2(i) \in I!Interface /\ Of2(i).device = i[1]
  <2>1. ASSUME NEW i \in ofOthers PROVE Of2(i) \in I!Interface /\ Of2(i).device = i[1]
    <3>1. i[1] \in ids /\ i[1] # Self /\ i[2] \in Label /\ i[1] \in DeviceId
      BY <1>14, <1>16
    <3>2. PolicyOf(Of(i[1]), settings).map \in BOOLEAN
      BY PolicyIsBoolean DEF PolicyOf
    <3>3. Of2(i) = [device |-> i[1], mac |-> i[2], visible |-> PolicyOf(Of(i[1]), settings).map]
      BY <3>1
    <3>. HIDE DEF Of2, ids, ofOthers
    <3>. QED
      BY <3>1, <3>2, <3>3 DEF I!Interface, Label
  <2>2. ASSUME NEW i \in ofProbe PROVE Of2(i) \in I!Interface /\ Of2(i).device = i[1]
    <3>1. PICK x \in ToSet(own) : i[2] = x.name
      BY <1>17
    <3>. DEFINE p == Port(i[2])
    <3>2. i[1] = Self /\ p \in Interface
      BY <1>5, <1>7, <1>17, <3>1
    <3>3. p.mac \in Mac /\ p.up \in BOOLEAN
      BY <3>2 DEF Interface
    <3>4. ResolvePolicy(settings, i[2], p.up).map \in BOOLEAN
      BY <3>3, PolicyIsBoolean
    <3>5. Of2(i) = [device |-> Self, mac |-> p.mac, visible |-> ResolvePolicy(settings, i[2], p.up).map]
      BY <3>2
    <3>. HIDE DEF Of2, ofProbe, p
    <3>. QED
      BY <1>9, <3>2, <3>3, <3>4, <3>5 DEF I!Interface
  <2>. HIDE DEF Of2, ofProbe, ofOthers
  <2>. QED
    BY <2>1, <2>2
<1>20. \A id \in ids : /\ Entry(id).interfaces = {<<id, LabelOf(Of(id))>>} /\ Entry(id).interfaces \subseteq ofOthers
                       /\ Entry(id).assignments = Having(id) /\ Entry(id).sources \subseteq Knowing
                       /\ Entry(id) = [interfaces |-> Entry(id).interfaces, assignments |-> Entry(id).assignments, sources |-> Entry(id).sources]
  <2>. SUFFICES ASSUME NEW id \in ids
                PROVE  /\ Entry(id).interfaces = {<<id, LabelOf(Of(id))>>} /\ Entry(id).interfaces \subseteq ofOthers
                       /\ Entry(id).assignments = Having(id) /\ Entry(id).sources \subseteq Knowing
                       /\ Entry(id) = [interfaces |-> Entry(id).interfaces, assignments |-> Entry(id).assignments, sources |-> Entry(id).sources]
    OBVIOUS
  <2>1. id # Self /\ Of(id) \in others /\ Of(id).id = id /\ Of(id).sources \subseteq Knowing
    BY <1>6, <1>8, <1>14
  <2>2. <<id, LabelOf(Of(id))>> \in ofOthers
    BY <2>1
  <2>3. Entry(id) = [interfaces |-> {<<id, LabelOf(Of(id))>>}, assignments |-> Having(id), sources |-> Of(id).sources]
    BY <2>1
  <2>. HIDE DEF Entry, Having, ofOthers
  <2>. QED
    BY <2>1, <2>2, <2>3
<1>21. /\ Entry(Self).interfaces = ofProbe /\ Entry(Self).assignments = Having(Self) /\ Entry(Self).sources \subseteq Knowing
       /\ Entry(Self) = [interfaces |-> Entry(Self).interfaces, assignments |-> Entry(Self).assignments, sources |-> Entry(Self).sources]
  <2>1. Entry(Self) = [interfaces |-> ofProbe, assignments |-> Having(Self), sources |-> {"local-interface"}]
    OBVIOUS
  <2>. HIDE DEF Entry, Having, ofProbe
  <2>. QED
    BY <2>1 DEF Knowing
<1>22. \A id \in ids \cup probe : id \in DeviceId /\ Entry(id) \in I!Device
  <2>. SUFFICES ASSUME NEW id \in ids \cup probe PROVE id \in DeviceId /\ Entry(id) \in I!Device
    OBVIOUS
  <2>1. id \in DeviceId
    BY <1>9, <1>14, <1>15
  <2>2. id \in ids \/ id = Self
    BY <1>15
  <2>3. Having(id) \subseteq Address
    BY <1>18
  <2>4. /\ Entry(id).interfaces \subseteq I!InterfaceId /\ Entry(id).assignments \subseteq Address /\ Entry(id).sources \subseteq Knowing
        /\ Entry(id) = [interfaces |-> Entry(id).interfaces, assignments |-> Entry(id).assignments, sources |-> Entry(id).sources]
    <3>. HIDE DEF Entry, Having, ofProbe, ofOthers, ids, probe
    <3>. QED
      BY <1>10, <1>11, <1>20, <1>21, <2>2, <2>3
  <2>. HIDE DEF Entry
  <2>. QED
    BY <2>1, <2>4 DEF I!Device, Knowing
<1>. HIDE DEF Entry, Of2, Having
<1>23. I!IsInventory(inv)
  <2>1. I!IsTable(inv.devices, DeviceId, I!Device)
    <3>. HIDE DEF ids, probe
    <3>. QED
      BY <1>2, <1>22 DEF I!IsTable
  <2>2. I!IsTable(inv.interfaces, I!InterfaceId, I!Interface)
    <3>. HIDE DEF ofProbe, ofOthers
    <3>. QED
      BY <1>2, <1>10, <1>11, <1>19 DEF I!IsTable
  <2>3. I!IsTable(inv.assignments, Address, I!Assignment)
    BY <1>2 DEF I!IsTable
  <2>. QED
    BY <1>2, <2>1, <2>2, <2>3 DEF I!IsInventory
<1>24. ASSUME NEW a \in DOMAIN owned PROVE owned[a].device \in ids \cup probe /\ owned[a].interface \in ofOthers \cup ofProbe
  <2>1. CASE \E d \in ToSet(raw) : d.id # Self /\ owned[a].device = d.id /\ owned[a].interface = <<d.id, LabelOf(d)>>
    BY <1>4, <2>1
  <2>2. CASE \E x \in ToSet(own) : owned[a].device = Self /\ owned[a].interface = <<Self, x.name>>
    BY <1>12, <1>13, <2>2
  <2>. QED
    BY <2>1, <2>2
<1>25. ofProbe # {} => probe = {Self}
  BY <1>12, <1>13
<1>. HIDE DEF ids, probe, ofOthers, ofProbe
<1>26. /\ DOMAIN inv.devices = ids \cup probe /\ \A d \in ids \cup probe : inv.devices[d] = Entry(d)
       /\ DOMAIN inv.interfaces = ofOthers \cup ofProbe /\ \A i \in ofOthers \cup ofProbe : inv.interfaces[i] = Of2(i)
  BY <1>2
<1>27. \A i \in ofOthers \cup ofProbe : i[1] \in ids \cup probe
  BY <1>16, <1>17, <1>25
<1>28. \A d \in ids \cup probe : /\ Entry(d).interfaces \subseteq ofOthers \cup ofProbe
                                 /\ Entry(d).assignments = Having(d)
  BY <1>15, <1>20, <1>21
<1>29. I!ReferencesHold(inv)
  <2>1. \A a \in DOMAIN inv.assignments :
           /\ inv.assignments[a].device \in DOMAIN inv.devices /\ inv.assignments[a].interface \in DOMAIN inv.interfaces
           /\ inv.assignments[a].advertisedBy \subseteq DOMAIN inv.devices
    BY <1>2, <1>24, <1>26
  <2>2. \A i \in DOMAIN inv.interfaces : inv.interfaces[i].device \in DOMAIN inv.devices
    BY <1>19, <1>26, <1>27
  <2>3. \A d \in DOMAIN inv.devices :
           /\ inv.devices[d].interfaces \subseteq DOMAIN inv.interfaces
           /\ \A a \in inv.devices[d].assignments : a \in DOMAIN inv.assignments /\ inv.assignments[a].device = d
    BY <1>2, <1>18, <1>26, <1>28
  <2>. QED
    BY <2>1, <2>2, <2>3 DEF I!ReferencesHold
<1>30. Ready(inv)
  BY <1>15, <1>20, <1>26 DEF Ready
<1>. QED
  BY <1>2, <1>23, <1>29, <1>30 DEF Sound, inv

\* The inventory before services and corrections: nothing in it is virtual, and every
\* response has its address in it.
LEMMA ObservedIsSound ==
    ASSUME NEW facts \in RawFacts, ProbeIsAtHome(facts.interfaces, facts.devices), NEW settings, IsSettings(settings)
    PROVE  LET inv == Observed(facts, settings)
           IN  /\ Sound(inv) /\ Ready(inv)
               /\ \A a \in DOMAIN inv.assignments : inv.assignments[a].device # NoDevice /\ inv.assignments[a].advertisedBy = {}
               /\ \A r \in ToSet(facts.responses) :
                     \/ r.endpoint[1] \in DOMAIN inv.assignments
                     \/ \E i \in 1..Len(facts.devices) : /\ r.endpoint[1] \in facts.devices[i].addresses
                                                         /\ ~PolicyOf(facts.devices[i], settings).identity
<1>. DEFINE raw == Eligible(facts, settings)
            own == ProbeInterfaces(facts, raw)
            owned == Owned(raw, own, settings)
            inv == Observed(facts, settings)
<1>1. raw \in Seq(RawDevice) /\ own \in Seq(Interface)
  BY EligibleDevices
<1>2. inv = Tables(raw, own, owned, settings)
  BY DEF Observed
<1>3. own # <<>> => \E i \in 1..Len(raw) : raw[i].id = Self
  BY DEF ProbeInterfaces
<1>4. \A r \in ToSet(facts.responses) :
         \/ r.endpoint[1] \in OfOthers(raw) \cup OwnAddresses(own)
         \/ \E i \in 1..Len(facts.devices) : /\ r.endpoint[1] \in facts.devices[i].addresses
                                             /\ ~PolicyOf(facts.devices[i], settings).identity
  BY AnswersAreOwned
<1>. HIDE DEF raw, own
<1>5. OwnedByOne(owned, raw, own, settings)
  BY <1>1, OwnedByFirst
<1>6. \A d \in ToSet(raw) : d \in RawDevice
  BY <1>1 DEF ToSet
<1>7. \A x \in ToSet(own) : x \in Interface
  BY <1>1 DEF ToSet
<1>8. OfOthers(raw) \subseteq Address
  <2>1. \A d \in ToSet(raw) : d.addresses \subseteq Address
    BY <1>6 DEF RawDevice
  <2>. QED
    BY <2>1 DEF OfOthers, Listed
<1>9. OwnAddresses(own) \subseteq Address
  <2>. SUFFICES ASSUME NEW x \in ToSet(own), NEW c \in ToSet(x.addresses) PROVE c.address \in Address
    BY DEF OwnAddresses, AddressesOf
  <2>1. x.addresses \in Seq(CIDR)
    BY <1>7 DEF Interface
  <2>2. c \in CIDR
    BY <2>1 DEF ToSet
  <2>. QED
    BY <2>2 DEF CIDR
<1>. HIDE DEF owned
<1>10. DOMAIN owned = OfOthers(raw) \cup OwnAddresses(own)
  BY <1>5 DEF OwnedByOne
<1>11. Self \in DeviceId /\ NoDevice \notin DeviceId
  BY DeviceIdAssumption
<1>12. ASSUME NEW a \in DOMAIN owned
       PROVE  /\ owned[a] \in I!Assignment /\ owned[a].advertisedBy = {} /\ owned[a].device # NoDevice
              /\ \/ \E d \in ToSet(raw) : d.id # Self /\ owned[a].device = d.id /\ owned[a].interface = <<d.id, LabelOf(d)>>
                 \/ \E x \in ToSet(own) : owned[a].device = Self /\ owned[a].interface = <<Self, x.name>>
  <2>1. CASE a \in OfOthers(raw)
    <3>1. PICK d \in ToSet(raw) :
            /\ d.id # Self
            /\ owned[a] = [device |-> d.id, interface |-> <<d.id, LabelOf(d)>>, advertisedBy |-> {},
                           visible |-> PolicyOf(d, settings).map]
      BY <1>5, <2>1 DEF OwnedByOne
    <3>2. d.id \in DeviceId /\ LabelOf(d) \in Label
      BY <1>6, LabelsAreLabels DEF RawDevice
    <3>3. PolicyOf(d, settings).map \in BOOLEAN
      BY PolicyIsBoolean DEF PolicyOf
    <3>4. owned[a] \in I!Assignment
      BY <3>1, <3>2, <3>3 DEF I!Assignment, I!InterfaceId, Label
    <3>. QED
      BY <1>11, <3>1, <3>2, <3>4
  <2>2. CASE a \in OwnAddresses(own) \ OfOthers(raw)
    <3>1. PICK x \in ToSet(own) :
            owned[a] = [device |-> Self, interface |-> <<Self, x.name>>, advertisedBy |-> {},
                        visible |-> ResolvePolicy(settings, x.name, x.up).map]
      BY <1>5, <2>2 DEF OwnedByOne
    <3>2. x.name \in Label /\ x.up \in BOOLEAN
      BY <1>7 DEF Interface, Label
    <3>3. ResolvePolicy(settings, x.name, x.up).map \in BOOLEAN
      BY <3>2, PolicyIsBoolean
    <3>4. owned[a] \in I!Assignment
      BY <1>11, <3>1, <3>2, <3>3 DEF I!Assignment, I!InterfaceId, Label
    <3>. QED
      BY <1>11, <3>1, <3>4
  <2>. QED
    BY <1>10, <2>1, <2>2
<1>13. DOMAIN owned \subseteq Address /\ owned \in [DOMAIN owned -> I!Assignment]
  <2>1. owned = [a \in DOMAIN owned |-> owned[a]]
    BY <1>5, <1>10 DEF OwnedByOne
  <2>. QED
    BY <1>8, <1>9, <1>10, <1>12, <2>1
<1>14. Sound(inv) /\ Ready(inv) /\ inv.assignments = owned
  <2>. HIDE DEF inv
  <2>. QED
    BY <1>1, <1>2, <1>3, <1>12, <1>13, TablesAreSound
<1>. HIDE DEF inv
<1>. QED
  BY <1>4, <1>10, <1>12, <1>14 DEF inv

\* Services in Kubernetes: their addresses are nobody's from now on, and whoever had them
\* advertises them.
LEMMA KubernetesIsApplied ==
    ASSUME NEW facts \in RawFacts, NEW inv, Sound(inv), Ready(inv),
           \A a \in DOMAIN inv.assignments : inv.assignments[a].device # NoDevice /\ inv.assignments[a].advertisedBy = {}
    PROVE  LET new == WithKubernetes(facts, inv)
               virtual == UNION {x.addresses : x \in ToSet(facts.services)}
           IN  /\ Sound(new) /\ Ready(new)
               /\ DOMAIN new.assignments = DOMAIN inv.assignments \cup virtual
               /\ \A a \in virtual : /\ new.assignments[a].device = NoDevice
                                     /\ new.assignments[a].advertisedBy # {} <=> a \in DOMAIN inv.assignments
<1>. DEFINE new == WithKubernetes(facts, inv)
            virtual == UNION {x.addresses : x \in ToSet(facts.services)}
            nodes == Registered(facts, inv)
            fresh == [device |-> NoDevice, interface |-> I!NoInterface, advertisedBy |-> {}, visible |-> TRUE]
            devices == [d \in DOMAIN inv.devices |-> IF d \in nodes THEN RegisteredDevice(inv.devices[d]) ELSE inv.devices[d]]
            assignments == [a \in DOMAIN inv.assignments \cup virtual |->
                                CASE a \notin virtual -> inv.assignments[a]
                                  [] a \in virtual /\ a \in DOMAIN inv.assignments -> Virtual(inv.assignments[a])
                                  [] OTHER -> fresh]
<1>1. /\ inv = [devices |-> inv.devices, interfaces |-> inv.interfaces, assignments |-> inv.assignments]
      /\ DOMAIN inv.devices \subseteq DeviceId /\ \A d \in DOMAIN inv.devices : inv.devices[d] \in I!Device
      /\ I!IsTable(inv.interfaces, I!InterfaceId, I!Interface)
      /\ DOMAIN inv.assignments \subseteq Address /\ \A a \in DOMAIN inv.assignments : inv.assignments[a] \in I!Assignment
  BY DEF Sound, I!IsInventory, I!IsTable
<1>2. /\ new.devices = devices /\ new.interfaces = inv.interfaces /\ new.assignments = assignments
      /\ new = [devices |-> new.devices, interfaces |-> new.interfaces, assignments |-> new.assignments]
  <2>1. new = [inv EXCEPT !.devices = devices, !.assignments = assignments]
    BY Zenon DEF WithKubernetes
  <2>. HIDE DEF new, devices, assignments
  <2>. QED
    BY <1>1, <2>1
<1>3. virtual \subseteq Address
  <2>1. facts.services \in Seq(KubernetesService)
    BY DEF RawFacts
  <2>2. \A x \in ToSet(facts.services) : x \in KubernetesService
    BY <2>1 DEF ToSet
  <2>. QED
    BY <2>2 DEF KubernetesService
<1>. HIDE DEF virtual, nodes
<1>4. \A x \in I!Device : /\ RegisteredDevice(x) \in I!Device /\ RegisteredDevice(x).interfaces = x.interfaces
                          /\ RegisteredDevice(x).assignments = x.assignments
  BY DEF I!Device, RegisteredDevice
<1>5. fresh \in I!Assignment
  BY DEF I!Assignment
<1>6. \A x \in I!Assignment : /\ Virtual(x) \in I!Assignment /\ Virtual(x).device = NoDevice
                              /\ Virtual(x).advertisedBy = x.advertisedBy \cup ({x.device} \ {NoDevice})
  BY DEF I!Assignment, Virtual
<1>7. /\ DOMAIN new.devices = DOMAIN inv.devices
      /\ \A d \in DOMAIN inv.devices : /\ new.devices[d] \in I!Device
                                       /\ new.devices[d].interfaces = inv.devices[d].interfaces
                                       /\ new.devices[d].assignments = inv.devices[d].assignments
  <2>. QED
    BY <1>1, <1>2, <1>4
<1>8. /\ DOMAIN new.assignments = DOMAIN inv.assignments \cup virtual
      /\ \A a \in DOMAIN inv.assignments \ virtual : new.assignments[a] = inv.assignments[a]
      /\ \A a \in DOMAIN inv.assignments \cap virtual : new.assignments[a] = Virtual(inv.assignments[a])
      /\ \A a \in virtual \ DOMAIN inv.assignments : new.assignments[a] = fresh
  <2>. HIDE DEF fresh
  <2>. QED
    BY <1>2
<1>9. new.devices \in [DOMAIN new.devices -> I!Device] /\ new.assignments = [a \in DOMAIN new.assignments |-> new.assignments[a]]
  <2>1. new.devices = [d \in DOMAIN new.devices |-> new.devices[d]]
    BY <1>2
  <2>2. new.assignments = [a \in DOMAIN new.assignments |-> new.assignments[a]]
    BY <1>2
  <2>. HIDE DEF new
  <2>. QED
    BY <1>7, <2>1, <2>2
<1>10. fresh.device = NoDevice /\ fresh.advertisedBy = {}
  OBVIOUS
<1>. HIDE DEF new, devices, assignments, fresh
<1>11. \A a \in DOMAIN new.assignments : new.assignments[a] \in I!Assignment
  BY <1>1, <1>5, <1>6, <1>8
<1>12. I!IsInventory(new)
  <2>1. I!IsTable(new.devices, DeviceId, I!Device)
    BY <1>1, <1>7, <1>9 DEF I!IsTable
  <2>2. I!IsTable(new.assignments, Address, I!Assignment)
    <3>1. new.assignments \in [DOMAIN new.assignments -> I!Assignment]
      BY <1>9, <1>11
    <3>. QED
      BY <1>1, <1>3, <1>8, <3>1 DEF I!IsTable
  <2>. QED
    BY <1>1, <1>2, <2>1, <2>2 DEF I!IsInventory
<1>13. \A a \in DOMAIN inv.assignments : inv.assignments[a].device \in DOMAIN inv.devices
  BY DEF Sound, I!ReferencesHold
<1>14. \A a \in DOMAIN inv.assignments \cap virtual :
          new.assignments[a].device = NoDevice /\ new.assignments[a].advertisedBy = {inv.assignments[a].device}
  BY <1>1, <1>6, <1>8
<1>15. ASSUME NEW a \in DOMAIN new.assignments
       PROVE  /\ new.assignments[a].device # NoDevice => /\ new.assignments[a].device \in DOMAIN new.devices
                                                         /\ new.assignments[a].interface \in DOMAIN new.interfaces
              /\ new.assignments[a].advertisedBy \subseteq DOMAIN new.devices
  <2>1. CASE a \in DOMAIN inv.assignments \ virtual
    BY <1>2, <1>7, <1>8, <2>1 DEF Sound, I!ReferencesHold
  <2>2. CASE a \in DOMAIN inv.assignments \cap virtual
    BY <1>7, <1>13, <1>14, <2>2
  <2>3. CASE a \in virtual \ DOMAIN inv.assignments
    BY <1>8, <1>10, <2>3
  <2>. QED
    BY <1>8, <2>1, <2>2, <2>3
<1>16. ASSUME NEW d \in DOMAIN new.devices
       PROVE  /\ new.devices[d].interfaces \subseteq DOMAIN new.interfaces
              /\ \A a \in new.devices[d].assignments :
                    /\ a \in DOMAIN new.assignments
                    /\ new.assignments[a].device = d \/ d \in new.assignments[a].advertisedBy
  <2>1. /\ inv.devices[d].interfaces \subseteq DOMAIN inv.interfaces
        /\ \A a \in inv.devices[d].assignments : a \in DOMAIN inv.assignments /\ inv.assignments[a].device = d
    BY <1>7 DEF Sound, I!ReferencesHold
  <2>. QED
    BY <1>2, <1>7, <1>8, <1>14, <2>1
<1>17. \A i \in DOMAIN new.interfaces : new.interfaces[i].device \in DOMAIN new.devices
  BY <1>2, <1>7 DEF Sound, I!ReferencesHold
<1>18. I!ReferencesHold(new)
  BY <1>15, <1>16, <1>17 DEF I!ReferencesHold
<1>19. Ready(new)
  BY <1>7 DEF Ready
<1>20. \A a \in virtual : /\ new.assignments[a].device = NoDevice
                          /\ new.assignments[a].advertisedBy # {} <=> a \in DOMAIN inv.assignments
  BY <1>8, <1>10, <1>14
<1>. QED
  BY <1>8, <1>12, <1>18, <1>19, <1>20 DEF Sound, new, virtual

\* Addresses stay assigned, and virtual ones virtual, advertised or not as they were.
Keeps(before, after) ==
    /\ DOMAIN before.assignments \subseteq DOMAIN after.assignments
    /\ \A a \in DOMAIN before.assignments :
          before.assignments[a].device = NoDevice =>
             /\ after.assignments[a].device = NoDevice
             /\ after.assignments[a].advertisedBy = {} <=> before.assignments[a].advertisedBy = {}

LEMMA KeepsOn ==
    ASSUME NEW x, NEW y, NEW z, Keeps(x, y), Keeps(y, z)
    PROVE  Keeps(x, z)
  BY DEF Keeps

\* A service that responds at an address that nobody has is of a new device.
LEMMA ServiceIsApplied ==
    ASSUME NEW inv, Sound(inv), Ready(inv), NEW r \in Response
    PROVE  Sound(WithService(inv, r)) /\ Ready(WithService(inv, r)) /\ Keeps(inv, WithService(inv, r))
<1>. DEFINE new == WithService(inv, r)
            a == r.endpoint[1]
            device == <<"ip", a>>
            interface == <<device, ServiceInterface>>
            unassigned == a \notin DOMAIN inv.assignments
            made == IF unassigned /\ device \notin DOMAIN inv.devices THEN {device} ELSE {}
            port == IF made # {} THEN interface ELSE CHOOSE i \in inv.devices[device].interfaces : TRUE
            fresh == [device |-> device, interface |-> port, advertisedBy |-> {}, visible |-> TRUE]
            assignments ==
                IF ~unassigned THEN inv.assignments
                ELSE [b \in DOMAIN inv.assignments \cup {a} |-> IF b # a THEN inv.assignments[b] ELSE fresh]
            first == [interfaces |-> {interface}, assignments |-> {}, sources |-> {r.method}]
            devices == [d \in DOMAIN inv.devices \cup made |-> IF d \in made THEN first ELSE inv.devices[d]]
            owner == assignments[a].device
            Answering(x) == [x EXCEPT !.sources = @ \cup {r.method}, !.assignments = IF unassigned THEN @ \cup {a} ELSE @]
            answered == [d \in DOMAIN devices |-> IF d # owner THEN devices[d] ELSE Answering(devices[d])]
            known == [device |-> device, mac |-> Unknown, visible |-> TRUE]
            ports == {<<d, ServiceInterface>> : d \in made}
            interfaces == [i \in DOMAIN inv.interfaces \cup ports |->
                              IF i \in DOMAIN inv.interfaces THEN inv.interfaces[i] ELSE known]
<1>1. /\ new.devices = answered /\ new.interfaces = interfaces /\ new.assignments = assignments
      /\ new = [devices |-> new.devices, interfaces |-> new.interfaces, assignments |-> new.assignments]
  <2>1. new = [devices |-> answered, interfaces |-> interfaces, assignments |-> assignments]
    BY Zenon DEF WithService
  <2>. HIDE DEF new, answered, interfaces, assignments
  <2>. QED
    BY <2>1
<1>2. a \in Address /\ r.method \in Knowing
  BY DEF Response, Endpoint, Knowing
<1>3. device \in DeviceId /\ device # Self /\ NoDevice \notin DeviceId
  BY <1>2, DeviceIdAssumption, IpIsNotSelf
<1>4. /\ DOMAIN inv.devices \subseteq DeviceId /\ \A d \in DOMAIN inv.devices : inv.devices[d] \in I!Device
      /\ DOMAIN inv.interfaces \subseteq I!InterfaceId /\ \A i \in DOMAIN inv.interfaces : inv.interfaces[i] \in I!Interface
      /\ DOMAIN inv.assignments \subseteq Address /\ \A b \in DOMAIN inv.assignments : inv.assignments[b] \in I!Assignment
      /\ inv.assignments = [b \in DOMAIN inv.assignments |-> inv.assignments[b]]
  BY DEF Sound, I!IsInventory, I!IsTable
<1>5. /\ \A b \in DOMAIN inv.assignments :
            /\ inv.assignments[b].device # NoDevice => /\ inv.assignments[b].device \in DOMAIN inv.devices
                                                       /\ inv.assignments[b].interface \in DOMAIN inv.interfaces
            /\ inv.assignments[b].advertisedBy \subseteq DOMAIN inv.devices
      /\ \A i \in DOMAIN inv.interfaces : inv.interfaces[i].device \in DOMAIN inv.devices
      /\ \A d \in DOMAIN inv.devices :
            /\ inv.devices[d].interfaces \subseteq DOMAIN inv.interfaces
            /\ \A b \in inv.devices[d].assignments :
                  /\ b \in DOMAIN inv.assignments
                  /\ inv.assignments[b].device = d \/ d \in inv.assignments[b].advertisedBy
  BY DEF Sound, I!ReferencesHold
<1>6. made \subseteq {device} /\ (made # {} => unassigned /\ device \notin DOMAIN inv.devices)
  OBVIOUS
<1>7. unassigned => device \in DOMAIN inv.devices \cup made
  OBVIOUS
<1>8. interface \in I!InterfaceId /\ I!NoInterface = <<>>
  BY <1>3 DEF I!InterfaceId, I!NoInterface
<1>. HIDE DEF device, a, interface, new
<1>9. unassigned => port \in I!InterfaceId /\ port \in DOMAIN inv.interfaces \cup {interface}
                    /\ (made = {} => port \in DOMAIN inv.interfaces)
  <2>1. CASE made # {}
    BY <1>8, <2>1
  <2>2. CASE made = {} /\ unassigned
    <3>1. device \in DOMAIN inv.devices
      BY <1>7, <2>2
    <3>2. inv.devices[device].interfaces # {} /\ inv.devices[device].interfaces \subseteq DOMAIN inv.interfaces
      BY <1>3, <1>5, <3>1 DEF Ready
    <3>3. port \in DOMAIN inv.interfaces
      BY <2>2, <3>2
    <3>. QED
      BY <1>4, <3>3
  <2>. QED
    BY <2>1, <2>2
<1>. HIDE DEF port
<1>10. ports = IF made # {} THEN {interface} ELSE {}
  BY <1>6 DEF interface
<1>. HIDE DEF ports
<1>11. first \in I!Device /\ first.interfaces = {interface} /\ first.assignments = {}
  BY <1>2, <1>8 DEF I!Device, Knowing
<1>. HIDE DEF first
<1>12. known \in I!Interface /\ known.device = device
  BY <1>3 DEF I!Interface
<1>. HIDE DEF known
<1>13. unassigned => fresh \in I!Assignment /\ fresh.device = device /\ fresh.interface = port /\ fresh.advertisedBy = {}
  BY <1>3, <1>9 DEF I!Assignment
<1>. HIDE DEF fresh, made
<1>14. \A x \in I!Device : /\ Answering(x) \in I!Device /\ Answering(x).interfaces = x.interfaces
                           /\ Answering(x).assignments = x.assignments \cup (IF unassigned THEN {a} ELSE {})
  <2>. HIDE DEF unassigned
  <2>. QED
    BY <1>2 DEF I!Device, Knowing
<1>. HIDE DEF Answering
\* The assignments.
<1>15. /\ DOMAIN assignments = DOMAIN inv.assignments \cup {a}
       /\ \A b \in DOMAIN inv.assignments : assignments[b] = inv.assignments[b]
       /\ unassigned => assignments[a] = fresh
       /\ assignments = [b \in DOMAIN assignments |-> assignments[b]]
  <2>1. CASE unassigned
    <3>1. assignments = [b \in DOMAIN inv.assignments \cup {a} |-> IF b # a THEN inv.assignments[b] ELSE fresh]
      BY <2>1
    <3>. HIDE DEF assignments
    <3>. QED
      BY <2>1, <3>1
  <2>2. CASE ~unassigned
    <3>1. assignments = inv.assignments /\ a \in DOMAIN inv.assignments
      BY <2>2
    <3>2. DOMAIN inv.assignments \cup {a} = DOMAIN inv.assignments
      BY <3>1
    <3>. HIDE DEF assignments
    <3>. QED
      BY <1>4, <2>2, <3>1, <3>2
  <2>. QED
    BY <2>1, <2>2
<1>16. \A b \in DOMAIN assignments : b \in Address /\ assignments[b] \in I!Assignment
  BY <1>2, <1>4, <1>13, <1>15
<1>. HIDE DEF assignments
<1>17. I!IsTable(assignments, Address, I!Assignment)
  BY <1>15, <1>16 DEF I!IsTable
\* The devices.
<1>18. DOMAIN devices = DOMAIN inv.devices \cup made /\ \A d \in DOMAIN devices :
          /\ d \in DeviceId /\ devices[d] \in I!Device
          /\ d \in made => devices[d] = first
          /\ d \notin made => devices[d] = inv.devices[d]
  BY <1>3, <1>4, <1>6, <1>11
<1>. HIDE DEF devices, owner
<1>19. /\ DOMAIN answered = DOMAIN devices /\ answered = [d \in DOMAIN answered |-> answered[d]]
       /\ \A d \in DOMAIN devices :
             /\ answered[d] \in I!Device /\ answered[d].interfaces = devices[d].interfaces
             /\ answered[d].assignments = devices[d].assignments \cup (IF d = owner /\ unassigned THEN {a} ELSE {})
  <2>. HIDE DEF unassigned
  <2>. QED
    BY <1>14, <1>18
<1>. HIDE DEF answered
<1>20. I!IsTable(answered, DeviceId, I!Device)
  BY <1>18, <1>19 DEF I!IsTable
\* The interfaces.
<1>21. /\ DOMAIN interfaces = DOMAIN inv.interfaces \cup ports /\ interfaces = [i \in DOMAIN interfaces |-> interfaces[i]]
       /\ \A i \in DOMAIN inv.interfaces : interfaces[i] = inv.interfaces[i]
       /\ \A i \in ports \ DOMAIN inv.interfaces : interfaces[i] = known
  OBVIOUS
<1>. HIDE DEF interfaces
<1>22. \A i \in DOMAIN interfaces : i \in I!InterfaceId /\ interfaces[i] \in I!Interface
  <2>1. ports \subseteq {interface}
    BY <1>10
  <2>2. \A i \in DOMAIN inv.interfaces : i \in I!InterfaceId /\ interfaces[i] \in I!Interface
    BY <1>4, <1>21
  <2>3. \A i \in ports \ DOMAIN inv.interfaces : i \in I!InterfaceId /\ interfaces[i] \in I!Interface
    BY <1>8, <1>12, <1>21, <2>1
  <2>. QED
    BY <1>21, <2>2, <2>3
<1>23. I!IsTable(interfaces, I!InterfaceId, I!Interface)
  BY <1>21, <1>22 DEF I!IsTable
<1>24. I!IsInventory(new)
  BY <1>1, <1>17, <1>20, <1>23 DEF I!IsInventory
\* The references.
<1>25. unassigned => owner = device
  BY <1>13, <1>15 DEF owner
<1>26. ASSUME NEW b \in DOMAIN assignments
       PROVE  /\ assignments[b].device # NoDevice => /\ assignments[b].device \in DOMAIN answered
                                                     /\ assignments[b].interface \in DOMAIN interfaces
              /\ assignments[b].advertisedBy \subseteq DOMAIN answered
  <2>1. CASE b \in DOMAIN inv.assignments
    BY <1>5, <1>15, <1>18, <1>19, <1>21, <2>1
  <2>2. CASE b \notin DOMAIN inv.assignments
    <3>1. b = a /\ unassigned
      BY <1>15, <2>2
    <3>2. port \in DOMAIN interfaces
      BY <1>9, <1>10, <1>21, <3>1
    <3>. QED
      BY <1>7, <1>13, <1>15, <1>18, <1>19, <3>1, <3>2
  <2>. QED
    BY <2>1, <2>2
<1>27. ASSUME NEW i \in DOMAIN interfaces PROVE interfaces[i].device \in DOMAIN answered
  <2>1. CASE i \in DOMAIN inv.interfaces
    BY <1>5, <1>18, <1>19, <1>21, <2>1
  <2>2. CASE i \notin DOMAIN inv.interfaces
    <3>1. i \in ports /\ made # {}
      BY <1>10, <1>21, <2>2
    <3>2. interfaces[i] = known
      BY <1>21, <2>2, <3>1
    <3>3. device \in DOMAIN answered
      BY <1>6, <1>7, <1>18, <1>19, <3>1
    <3>. QED
      BY <1>12, <3>2, <3>3
  <2>. QED
    BY <2>1, <2>2
<1>28. ASSUME NEW d \in DOMAIN answered
       PROVE  /\ answered[d].interfaces \subseteq DOMAIN interfaces
              /\ \A b \in answered[d].assignments :
                    /\ b \in DOMAIN assignments
                    /\ assignments[b].device = d \/ d \in assignments[b].advertisedBy
  <2>1. CASE d \in made
    <3>1. devices[d] = first /\ d = device /\ ports = {interface}
      BY <1>6, <1>10, <1>18, <2>1
    <3>2. answered[d].interfaces = {interface} /\ answered[d].assignments \subseteq {a}
      BY <1>11, <1>18, <1>19, <2>1, <3>1
    <3>. QED
      BY <1>6, <1>13, <1>15, <1>21, <2>1, <3>1, <3>2
  <2>2. CASE d \notin made
    <3>1. d \in DOMAIN inv.devices /\ devices[d] = inv.devices[d]
      BY <1>18, <1>19, <2>2
    <3>2. answered[d].interfaces \subseteq DOMAIN interfaces
      BY <1>5, <1>18, <1>19, <1>21, <3>1
    <3>3. ASSUME NEW b \in answered[d].assignments
          PROVE  b \in DOMAIN assignments /\ (assignments[b].device = d \/ d \in assignments[b].advertisedBy)
      <4>1. b \in inv.devices[d].assignments \/ (b = a /\ d = owner /\ unassigned)
        BY <1>18, <1>19, <3>1
      <4>2. CASE b \in inv.devices[d].assignments
        BY <1>5, <1>15, <3>1, <4>2
      <4>3. CASE b = a /\ d = owner /\ unassigned
        BY <1>15, <4>3 DEF owner
      <4>. QED
        BY <4>1, <4>2, <4>3
    <3>. QED
      BY <3>2, <3>3
  <2>. QED
    BY <2>1, <2>2
<1>29. I!ReferencesHold(new)
  BY <1>1, <1>26, <1>27, <1>28 DEF I!ReferencesHold
<1>30. Ready(new)
  <2>. SUFFICES ASSUME NEW d \in DOMAIN answered, d # Self PROVE answered[d].interfaces # {}
    BY <1>1 DEF Ready
  <2>1. d \in DOMAIN devices /\ answered[d].interfaces = devices[d].interfaces
    BY <1>19
  <2>2. CASE d \in made
    BY <1>11, <1>18, <2>1, <2>2
  <2>3. CASE d \notin made
    BY <1>18, <2>1, <2>3 DEF Ready
  <2>. QED
    BY <2>2, <2>3
<1>31. Keeps(inv, new)
  BY <1>1, <1>15 DEF Keeps
<1>. QED
  BY <1>24, <1>29, <1>30, <1>31 DEF Sound, new

-----------------------------------------------------------------------------
\* Merges and splits of the inventories of this module, to which the argument of StoreProofs
\* applies as it stands.
\* A merge, whatever its members and its target, leaves no reference dangling.
LEMMA MergeKeepsReferences ==
    ASSUME NEW inv, I!IsInventory(inv), I!ReferencesHold(inv),
           NEW m, m.sources \subseteq DeviceId, m.target \in DeviceId
    PROVE  I!ReferencesHold(I!ApplyMerge(inv, m))
<1>1. CASE I!Members(inv, m) = {}
  BY <1>1 DEF I!ApplyMerge
<1>2. CASE I!Members(inv, m) # {}
  <2> DEFINE members == I!Members(inv, m)
             new == I!Merged(inv, m)
             Renamed(d) == IF d \in members THEN m.target ELSE d
  <2>1. I!ApplyMerge(inv, m) = new
    BY <1>2 DEF I!ApplyMerge
  <2>2. /\ DOMAIN new.devices = (DOMAIN inv.devices \ members) \cup {m.target}
        /\ DOMAIN new.interfaces = DOMAIN inv.interfaces
        /\ DOMAIN new.assignments = DOMAIN inv.assignments
    BY DEF I!Merged
  <2>3. \A d \in DOMAIN inv.devices : Renamed(d) \in DOMAIN new.devices
    BY <2>2
  <2>4. m.target # NoDevice /\ NoDevice \notin members
    BY DeviceIdAssumption DEF I!Members
  <2>5. ASSUME NEW a \in DOMAIN new.assignments
        PROVE  LET x == new.assignments[a]
               IN  /\ x.device # NoDevice => /\ x.device \in DOMAIN new.devices
                                             /\ x.interface \in DOMAIN new.interfaces
                   /\ x.advertisedBy \subseteq DOMAIN new.devices
    <3> DEFINE old == inv.assignments[a]
    <3>1. a \in DOMAIN inv.assignments /\ old \in I!Assignment
      BY <2>2 DEF I!IsInventory, I!IsTable
    <3>2. /\ new.assignments[a].device = Renamed(old.device)
          /\ new.assignments[a].interface = old.interface
          /\ new.assignments[a].advertisedBy = {Renamed(d) : d \in old.advertisedBy}
      BY <3>1 DEF I!Merged, I!Assignment
    <3>3. /\ old.device # NoDevice => old.device \in DOMAIN inv.devices
                                      /\ old.interface \in DOMAIN inv.interfaces
          /\ old.advertisedBy \subseteq DOMAIN inv.devices
      BY <3>1 DEF I!ReferencesHold
    <3>4. new.assignments[a].device # NoDevice => old.device # NoDevice
      BY <3>2, <2>4
    <3> QED BY <3>2, <3>3, <3>4, <2>2, <2>3
  <2>6. ASSUME NEW i \in DOMAIN new.interfaces
        PROVE  new.interfaces[i].device \in DOMAIN new.devices
    <3>1. i \in DOMAIN inv.interfaces /\ inv.interfaces[i] \in I!Interface
      BY <2>2 DEF I!IsInventory, I!IsTable
    <3>2. new.interfaces[i].device = Renamed(inv.interfaces[i].device)
      BY <3>1 DEF I!Merged, I!Interface
    <3> QED BY <3>1, <3>2, <2>3 DEF I!ReferencesHold
  <2>7. ASSUME NEW d \in DOMAIN new.devices
        PROVE  /\ new.devices[d].interfaces \subseteq DOMAIN new.interfaces
               /\ \A a \in new.devices[d].assignments :
                     /\ a \in DOMAIN new.assignments
                     /\ new.assignments[a].device = d \/ d \in new.assignments[a].advertisedBy
    <3>0. \A a \in DOMAIN inv.assignments :
             /\ inv.assignments[a] \in I!Assignment
             /\ new.assignments[a].device = Renamed(inv.assignments[a].device)
             /\ new.assignments[a].advertisedBy = {Renamed(e) : e \in inv.assignments[a].advertisedBy}
      BY DEF I!IsInventory, I!IsTable, I!Merged, I!Assignment
    <3>1. CASE d = m.target
      <4>1. /\ new.devices[d].interfaces = UNION {inv.devices[e].interfaces : e \in members}
            /\ new.devices[d].assignments = UNION {inv.devices[e].assignments : e \in members}
        BY <3>1, <2>2 DEF I!Merged
      <4>2. ASSUME NEW e \in members
            PROVE  /\ inv.devices[e].interfaces \subseteq DOMAIN inv.interfaces
                   /\ \A a \in inv.devices[e].assignments :
                         /\ a \in DOMAIN inv.assignments
                         /\ inv.assignments[a].device = e \/ e \in inv.assignments[a].advertisedBy
        BY <4>2 DEF I!ReferencesHold, I!Members
      <4> QED BY <4>1, <4>2, <3>0, <3>1, <2>2
    <3>2. CASE d # m.target
      <4>1. d \in DOMAIN inv.devices /\ d \notin members /\ new.devices[d] = inv.devices[d]
        BY <3>2, <2>2 DEF I!Merged
      <4>2. /\ inv.devices[d].interfaces \subseteq DOMAIN inv.interfaces
            /\ \A a \in inv.devices[d].assignments :
                  /\ a \in DOMAIN inv.assignments
                  /\ inv.assignments[a].device = d \/ d \in inv.assignments[a].advertisedBy
        BY <4>1 DEF I!ReferencesHold
      <4> QED BY <4>1, <4>2, <3>0, <2>2
    <3> QED BY <3>1, <3>2
  <2>8. I!ReferencesHold(new)
    BY <2>5, <2>6, <2>7 DEF I!ReferencesHold
  <2> QED BY <2>1, <2>8
<1> QED BY <1>1, <1>2

\* A split, whatever its addresses and its target, leaves no reference dangling, also when
\* the target is a device already.
LEMMA SplitKeepsReferences ==
    ASSUME NEW inv, I!IsInventory(inv), I!ReferencesHold(inv),
           NEW s, s.source \in DeviceId, s.target \in DeviceId
    PROVE  I!ReferencesHold(I!ApplySplit(inv, s))
<1>1. CASE s.source \notin DOMAIN inv.devices \/ I!Moved(inv, s) = {}
  BY <1>1 DEF I!ApplySplit
<1>2. CASE s.source \in DOMAIN inv.devices /\ I!Moved(inv, s) # {}
  <2> DEFINE moved == I!Moved(inv, s)
             Port(a) == <<s.target, inv.interfaces[inv.assignments[a].interface].mac>>
             made == {Port(a) : a \in moved}
             new == I!Parted(inv, s)
  <2>1. I!ApplySplit(inv, s) = new
    BY <1>2 DEF I!ApplySplit
  <2>2. /\ DOMAIN new.devices = DOMAIN inv.devices \cup {s.target}
        /\ DOMAIN new.interfaces = DOMAIN inv.interfaces \cup made
        /\ DOMAIN new.assignments = DOMAIN inv.assignments
    BY DEF I!Parted
  <2>3. \A a \in moved : a \in DOMAIN inv.assignments /\ inv.assignments[a].device = s.source
    BY DEF I!Moved
  <2>4. \A a \in DOMAIN inv.assignments :
           /\ inv.assignments[a] \in I!Assignment
           /\ new.assignments[a].advertisedBy = inv.assignments[a].advertisedBy
           /\ a \in moved => /\ new.assignments[a].device = s.target
                             /\ new.assignments[a].interface = Port(a)
           /\ a \notin moved => new.assignments[a] = inv.assignments[a]
    BY DEF I!IsInventory, I!IsTable, I!Parted, I!Assignment
  <2>5. ASSUME NEW a \in DOMAIN new.assignments
        PROVE  LET x == new.assignments[a]
               IN  /\ x.device # NoDevice => /\ x.device \in DOMAIN new.devices
                                             /\ x.interface \in DOMAIN new.interfaces
                   /\ x.advertisedBy \subseteq DOMAIN new.devices
    <3> DEFINE was == inv.assignments[a]
    <3>1. a \in DOMAIN inv.assignments
      BY <2>5, <2>2
    <3>2. /\ was.device # NoDevice => /\ was.device \in DOMAIN inv.devices
                                      /\ was.interface \in DOMAIN inv.interfaces
          /\ was.advertisedBy \subseteq DOMAIN inv.devices
      BY <3>1 DEF I!ReferencesHold
    <3>3. new.assignments[a].advertisedBy \subseteq DOMAIN new.devices
      BY <3>1, <3>2, <2>2, <2>4
    <3>4. CASE a \in moved
      BY <3>1, <3>3, <3>4, <2>2, <2>4
    <3>5. CASE a \notin moved
      BY <3>1, <3>2, <3>5, <2>2, <2>4
    <3> QED BY <3>4, <3>5, <3>3
  <2>6. ASSUME NEW i \in DOMAIN new.interfaces
        PROVE  new.interfaces[i].device \in DOMAIN new.devices
    <3>1. CASE i \in DOMAIN inv.interfaces
      <4>1. new.interfaces[i] = inv.interfaces[i]
        BY <3>1 DEF I!Parted
      <4> QED BY <4>1, <3>1, <2>2 DEF I!ReferencesHold
    <3>2. CASE i \notin DOMAIN inv.interfaces
      <4> DEFINE a == CHOOSE x \in moved : Port(x) = i
                 original == inv.interfaces[inv.assignments[a].interface]
      <4>1. a \in moved
        BY <2>6, <3>2, <2>2
      <4>2. inv.assignments[a].interface \in DOMAIN inv.interfaces
        BY <4>1, <2>3, DeviceIdAssumption DEF I!ReferencesHold
      <4>3. original \in I!Interface
        BY <4>2 DEF I!IsInventory, I!IsTable
      <4>4. new.interfaces[i] = [original EXCEPT !.device = s.target]
        BY <3>2, <2>6, <2>2 DEF I!Parted
      <4>5. new.interfaces[i].device = s.target
        BY <4>3, <4>4 DEF I!Interface
      <4> QED BY <4>5, <2>2
    <3> QED BY <3>1, <3>2
  <2>7. ASSUME NEW d \in DOMAIN new.devices
        PROVE  /\ new.devices[d].interfaces \subseteq DOMAIN new.interfaces
               /\ \A a \in new.devices[d].assignments :
                     /\ a \in DOMAIN new.assignments
                     /\ new.assignments[a].device = d \/ d \in new.assignments[a].advertisedBy
    <3>1. CASE d = s.target
      <4>1. new.devices[d].interfaces = made /\ new.devices[d].assignments = moved
        BY <3>1, <2>2 DEF I!Parted
      <4> QED BY <4>1, <3>1, <2>2, <2>3, <2>4
    <3>2. CASE d # s.target
      <4>1. d \in DOMAIN inv.devices
        BY <3>2, <2>2
      <4>2. /\ inv.devices[d].interfaces \subseteq DOMAIN inv.interfaces
            /\ \A a \in inv.devices[d].assignments :
                  /\ a \in DOMAIN inv.assignments
                  /\ inv.assignments[a].device = d \/ d \in inv.assignments[a].advertisedBy
        BY <4>1 DEF I!ReferencesHold
      <4>3. CASE d = s.source
        <5>1. inv.devices[d] \in I!Device
          BY <4>1 DEF I!IsInventory, I!IsTable
        <5>2. /\ new.devices[d].interfaces = inv.devices[d].interfaces
              /\ new.devices[d].assignments = inv.devices[d].assignments \ moved
          BY <3>2, <4>1, <4>3, <5>1 DEF I!Parted, I!Device
        <5> QED BY <5>2, <4>2, <2>2, <2>4
      <4>4. CASE d # s.source
        <5>1. new.devices[d] = inv.devices[d]
          BY <3>2, <4>1, <4>4 DEF I!Parted
        <5>2. ASSUME NEW a \in inv.devices[d].assignments
              PROVE  new.assignments[a].device = d \/ d \in new.assignments[a].advertisedBy
          <6>1. a \in DOMAIN inv.assignments
            BY <4>2
          <6>2. CASE inv.assignments[a].device = d
            BY <6>1, <6>2, <4>4, <2>3, <2>4
          <6>3. CASE d \in inv.assignments[a].advertisedBy
            BY <6>1, <6>3, <2>4
          <6> QED BY <4>2, <6>2, <6>3
        <5> QED BY <5>1, <5>2, <4>2, <2>2
      <4> QED BY <4>3, <4>4
    <3> QED BY <3>1, <3>2
  <2>8. I!ReferencesHold(new)
    BY <2>5, <2>6, <2>7 DEF I!ReferencesHold
  <2> QED BY <2>1, <2>8
<1> QED BY <1>1, <1>2
\* A merge makes an inventory of an inventory.
LEMMA MergeKeepsTables ==
    ASSUME NEW inv, I!IsInventory(inv), NEW m, m.target \in DeviceId
    PROVE  I!IsInventory(I!ApplyMerge(inv, m))
<1>1. CASE I!Members(inv, m) = {}
  BY <1>1 DEF I!ApplyMerge
<1>2. CASE I!Members(inv, m) # {}
  <2> DEFINE members == I!Members(inv, m)
             new == I!Merged(inv, m)
             Renamed(d) == IF d \in members THEN m.target ELSE d
  <2>1. I!ApplyMerge(inv, m) = new
    BY <1>2 DEF I!ApplyMerge
  <2>2. /\ DOMAIN inv.devices \subseteq DeviceId /\ members \subseteq DOMAIN inv.devices
        /\ \A d \in DOMAIN inv.devices : inv.devices[d] \in I!Device
        /\ DOMAIN inv.interfaces \subseteq I!InterfaceId
        /\ \A i \in DOMAIN inv.interfaces : inv.interfaces[i] \in I!Interface
        /\ DOMAIN inv.assignments \subseteq Address
        /\ \A a \in DOMAIN inv.assignments : inv.assignments[a] \in I!Assignment
    BY DEF I!IsInventory, I!IsTable, I!Members
  <2>3. I!IsTable(new.devices, DeviceId, I!Device)
    <3> DEFINE target == [interfaces  |-> UNION {inv.devices[d].interfaces : d \in members},
                          assignments |-> UNION {inv.devices[d].assignments : d \in members},
                          sources     |-> UNION {inv.devices[d].sources : d \in members}]
    <3>1. new.devices = [d \in (DOMAIN inv.devices \ members) \cup {m.target} |->
                             IF d = m.target THEN target ELSE inv.devices[d]]
      BY DEF I!Merged
    <3>2. target \in I!Device
      <4>1. \A d \in members : /\ inv.devices[d].interfaces \subseteq I!InterfaceId
                               /\ inv.devices[d].assignments \subseteq Address
                               /\ inv.devices[d].sources \subseteq Knowing
        BY <2>2 DEF I!Device, Knowing
      <4>. QED
        BY <4>1 DEF I!Device, Knowing
    <3>. HIDE DEF target, new, members
    <3>. QED
      BY <2>2, <3>1, <3>2 DEF I!IsTable
  <2>4. I!IsTable(new.interfaces, I!InterfaceId, I!Interface)
    <3>1. new.interfaces = [i \in DOMAIN inv.interfaces |-> [inv.interfaces[i] EXCEPT !.device = Renamed(@)]]
      BY DEF I!Merged
    <3>2. \A i \in DOMAIN inv.interfaces : [inv.interfaces[i] EXCEPT !.device = Renamed(@)] \in I!Interface
      BY <2>2 DEF I!Interface
    <3>. HIDE DEF Renamed, new
    <3>. QED
      BY <2>2, <3>1, <3>2 DEF I!IsTable
  <2>5. I!IsTable(new.assignments, Address, I!Assignment)
    <3> DEFINE Moving(x) == [x EXCEPT !.device = Renamed(@), !.advertisedBy = {Renamed(d) : d \in @}]
    <3>1. new.assignments = [a \in DOMAIN inv.assignments |-> Moving(inv.assignments[a])]
      BY DEF I!Merged
    <3>2. \A x \in I!Assignment : Moving(x) \in I!Assignment
      <4>1. \A d \in DeviceId \cup {NoDevice} : Renamed(d) \in DeviceId \cup {NoDevice}
        OBVIOUS
      <4>2. \A d \in DeviceId : Renamed(d) \in DeviceId
        OBVIOUS
      <4>. HIDE DEF Renamed
      <4>. QED
        BY <4>1, <4>2 DEF I!Assignment
    <3>. HIDE DEF Moving, new
    <3>. QED
      BY <2>2, <3>1, <3>2 DEF I!IsTable
  <2>6. new = [devices |-> new.devices, interfaces |-> new.interfaces, assignments |-> new.assignments]
    BY DEF I!Merged
  <2>. HIDE DEF new
  <2>. QED
    BY <2>1, <2>3, <2>4, <2>5, <2>6 DEF I!IsInventory
<1>. QED
  BY <1>1, <1>2

\* A split makes an inventory of an inventory of which no reference dangles.
LEMMA SplitKeepsTables ==
    ASSUME NEW inv, I!IsInventory(inv), I!ReferencesHold(inv),
           NEW s, s.source \in DeviceId, s.target \in DeviceId
    PROVE  I!IsInventory(I!ApplySplit(inv, s))
<1>1. CASE s.source \notin DOMAIN inv.devices \/ I!Moved(inv, s) = {}
  BY <1>1 DEF I!ApplySplit
<1>2. CASE s.source \in DOMAIN inv.devices /\ I!Moved(inv, s) # {}
  <2> DEFINE moved == I!Moved(inv, s)
             Original(a) == inv.interfaces[inv.assignments[a].interface]
             Port(a) == <<s.target, Original(a).mac>>
             made == {Port(a) : a \in moved}
             new == I!Parted(inv, s)
  <2>1. I!ApplySplit(inv, s) = new
    BY <1>2 DEF I!ApplySplit
  <2>2. /\ DOMAIN inv.devices \subseteq DeviceId
        /\ \A d \in DOMAIN inv.devices : inv.devices[d] \in I!Device
        /\ DOMAIN inv.interfaces \subseteq I!InterfaceId
        /\ \A i \in DOMAIN inv.interfaces : inv.interfaces[i] \in I!Interface
        /\ DOMAIN inv.assignments \subseteq Address
        /\ \A a \in DOMAIN inv.assignments : inv.assignments[a] \in I!Assignment
    BY DEF I!IsInventory, I!IsTable
  <2>3. \A a \in moved : a \in DOMAIN inv.assignments /\ inv.assignments[a].interface \in DOMAIN inv.interfaces
    BY DeviceIdAssumption DEF I!Moved, I!ReferencesHold
  <2>4. \A a \in moved : Original(a) \in I!Interface /\ Port(a) \in I!InterfaceId
    <3>1. \A a \in moved : Original(a) \in I!Interface
      BY <2>2, <2>3
    <3>2. \A x \in I!Interface : <<s.target, x.mac>> \in I!InterfaceId
      BY DEF I!Interface, I!InterfaceId
    <3>. HIDE DEF moved, Original
    <3>. QED
      BY <3>1, <3>2
  <2>5. I!IsTable(new.devices, DeviceId, I!Device)
    <3> DEFINE target == [interfaces |-> made, assignments |-> moved, sources |-> inv.devices[s.source].sources]
    <3>1. /\ DOMAIN new.devices = DOMAIN inv.devices \cup {s.target}
          /\ new.devices[s.target] = target
          /\ \A d \in DOMAIN inv.devices \ {s.target} :
                new.devices[d] \in {inv.devices[d], [inv.devices[d] EXCEPT !.assignments = @ \ moved]}
          /\ new.devices = [d \in DOMAIN new.devices |-> new.devices[d]]
      BY DEF I!Parted
    <3>2. target \in I!Device
      <4>1. moved \subseteq Address /\ made \subseteq I!InterfaceId
        BY <2>2, <2>3, <2>4
      <4>2. inv.devices[s.source].sources \subseteq Knowing
        BY <1>2, <2>2 DEF I!Device, Knowing
      <4>. HIDE DEF moved, made
      <4>. QED
        BY <4>1, <4>2 DEF I!Device, Knowing
    <3>3. \A d \in DOMAIN inv.devices : [inv.devices[d] EXCEPT !.assignments = @ \ moved] \in I!Device
      BY <2>2 DEF I!Device, Knowing
    <3>. HIDE DEF target, new, moved
    <3>4. \A d \in DOMAIN new.devices : new.devices[d] \in I!Device
      BY <2>2, <3>1, <3>2, <3>3
    <3>5. new.devices \in [DOMAIN new.devices -> I!Device]
      BY <3>1, <3>4
    <3>. QED
      BY <2>2, <3>1, <3>5 DEF I!IsTable
  <2>6. I!IsTable(new.interfaces, I!InterfaceId, I!Interface)
    <3>1. /\ DOMAIN new.interfaces = DOMAIN inv.interfaces \cup made
          /\ \A i \in DOMAIN inv.interfaces : new.interfaces[i] = inv.interfaces[i]
          /\ \A i \in made \ DOMAIN inv.interfaces :
                new.interfaces[i] = [Original(CHOOSE a \in moved : Port(a) = i) EXCEPT !.device = s.target]
          /\ new.interfaces = [i \in DOMAIN new.interfaces |-> new.interfaces[i]]
      BY DEF I!Parted
    <3>2. \A i \in made : (CHOOSE a \in moved : Port(a) = i) \in moved
      OBVIOUS
    <3>3. \A x \in I!Interface : [x EXCEPT !.device = s.target] \in I!Interface
      BY DEF I!Interface
    <3>4. made \subseteq I!InterfaceId
      BY <2>4
    <3>. HIDE DEF new, made, Original, Port, moved
    <3>5. ASSUME NEW i \in DOMAIN new.interfaces PROVE new.interfaces[i] \in I!Interface
      <4>1. CASE i \in DOMAIN inv.interfaces
        BY <2>2, <3>1, <4>1
      <4>2. CASE i \notin DOMAIN inv.interfaces
        <5>1. i \in made \ DOMAIN inv.interfaces
          BY <3>1, <4>2
        <5>2. PICK x \in I!Interface : new.interfaces[i] = [x EXCEPT !.device = s.target]
          BY <2>4, <3>1, <3>2, <5>1
        <5>. QED
          BY <3>3, <5>2
      <4>. QED
        BY <4>1, <4>2
    <3>6. new.interfaces \in [DOMAIN new.interfaces -> I!Interface]
      BY <3>1, <3>5
    <3>. QED
      BY <2>2, <3>1, <3>4, <3>6 DEF I!IsTable
  <2>7. I!IsTable(new.assignments, Address, I!Assignment)
    <3>1. /\ DOMAIN new.assignments = DOMAIN inv.assignments
          /\ \A a \in DOMAIN inv.assignments : new.assignments[a] =
                IF a \in moved THEN [inv.assignments[a] EXCEPT !.device = s.target, !.interface = Port(a)]
                ELSE inv.assignments[a]
          /\ new.assignments = [a \in DOMAIN new.assignments |-> new.assignments[a]]
      BY DEF I!Parted
    <3>2. \A x \in I!Assignment, i \in I!InterfaceId : [x EXCEPT !.device = s.target, !.interface = i] \in I!Assignment
      BY DEF I!Assignment
    <3>. HIDE DEF new, moved, Port
    <3>3. ASSUME NEW a \in DOMAIN new.assignments PROVE new.assignments[a] \in I!Assignment
      <4>1. CASE a \in moved
        <5>1. /\ new.assignments[a] = [inv.assignments[a] EXCEPT !.device = s.target, !.interface = Port(a)]
              /\ inv.assignments[a] \in I!Assignment
          BY <2>2, <3>1, <4>1
        <5>2. Port(a) \in I!InterfaceId
          BY <2>4, <4>1
        <5>. QED
          BY <3>2, <5>1, <5>2
      <4>2. CASE a \notin moved
        BY <2>2, <3>1, <4>2
      <4>. QED
        BY <4>1, <4>2
    <3>4. new.assignments \in [DOMAIN new.assignments -> I!Assignment]
      BY <3>1, <3>3
    <3>. QED
      BY <2>2, <3>1, <3>4 DEF I!IsTable
  <2>8. new = [devices |-> new.devices, interfaces |-> new.interfaces, assignments |-> new.assignments]
    BY DEF I!Parted
  <2>. HIDE DEF new
  <2>. QED
    BY <2>1, <2>5, <2>6, <2>7, <2>8 DEF I!IsInventory
<1>. QED
  BY <1>1, <1>2
-----------------------------------------------------------------------------
\* A correction leaves an inventory sound, its addresses assigned and virtual ones virtual.
LEMMA CorrectionIsApplied ==
    ASSUME NEW inv, Sound(inv), NEW operation \in Correction
    PROVE  Sound(Corrected(inv, operation)) /\ Keeps(inv, Corrected(inv, operation))
<1>1. /\ I!IsInventory(inv) /\ I!ReferencesHold(inv) /\ DOMAIN inv.devices \subseteq DeviceId /\ NoDevice \notin DeviceId
      /\ \A a \in DOMAIN inv.assignments : inv.assignments[a] \in I!Assignment
  BY DeviceIdAssumption DEF Sound, I!IsInventory, I!IsTable
<1>2. Keeps(inv, inv)
  BY DEF Keeps
<1>3. CASE operation.kind = "merge"
  <2>. DEFINE members == I!Members(inv, operation)
              Renamed(d) == IF d \in members THEN operation.target ELSE d
              new == I!Merged(inv, operation)
  <2>1. operation.sources \subseteq DeviceId /\ operation.target \in DeviceId
    BY <1>3 DEF Correction
  <2>2. Corrected(inv, operation) = I!ApplyMerge(inv, operation)
    BY <1>3 DEF Corrected
  <2>3. Sound(I!ApplyMerge(inv, operation))
    BY <1>1, <2>1, MergeKeepsReferences, MergeKeepsTables DEF Sound
  <2>4. Keeps(inv, new)
    <3>1. DOMAIN new.assignments = DOMAIN inv.assignments
      BY DEF I!Merged
    <3>2. \A a \in DOMAIN inv.assignments :
             /\ new.assignments[a].device = Renamed(inv.assignments[a].device)
             /\ new.assignments[a].advertisedBy = {Renamed(d) : d \in inv.assignments[a].advertisedBy}
      BY <1>1 DEF I!Merged, I!Assignment
    <3>3. NoDevice \notin members
      BY <1>1 DEF I!Members
    <3>. HIDE DEF members, new
    <3>. QED
      BY <3>1, <3>2, <3>3 DEF Keeps
  <2>5. I!ApplyMerge(inv, operation) = IF members = {} THEN inv ELSE new
    BY DEF I!ApplyMerge
  <2>. QED
    BY <1>2, <2>2, <2>3, <2>4, <2>5
<1>4. CASE operation.kind # "merge"
  <2>. DEFINE moved == I!Moved(inv, operation)
              new == I!Parted(inv, operation)
  <2>1. operation.source \in DeviceId /\ operation.target \in DeviceId
    BY <1>4 DEF Correction
  <2>2. Corrected(inv, operation) = I!ApplySplit(inv, operation)
    BY <1>4 DEF Corrected
  <2>3. Sound(I!ApplySplit(inv, operation))
    BY <1>1, <2>1, SplitKeepsReferences, SplitKeepsTables DEF Sound
  <2>4. Keeps(inv, new)
    <3>1. DOMAIN new.assignments = DOMAIN inv.assignments
      BY DEF I!Parted
    <3>2. \A a \in DOMAIN inv.assignments : a \notin moved => new.assignments[a] = inv.assignments[a]
      BY DEF I!Parted
    <3>3. \A a \in moved : inv.assignments[a].device # NoDevice
      BY <1>1, <2>1 DEF I!Moved
    <3>. HIDE DEF moved, new
    <3>. QED
      BY <3>1, <3>2, <3>3 DEF Keeps
  <2>5. I!ApplySplit(inv, operation) = IF operation.source \notin DOMAIN inv.devices \/ moved = {} THEN inv ELSE new
    BY DEF I!ApplySplit
  <2>. QED
    BY <1>2, <2>2, <2>3, <2>4, <2>5
<1>. QED
  BY <1>3, <1>4

\* The inventories of which no reference dangles, as a set, and those that are ready.
TablesOf(keys, values) == UNION {[D -> values] : D \in SUBSET keys}
SoundOnes == {inv \in [devices : TablesOf(DeviceId, I!Device), interfaces : TablesOf(I!InterfaceId, I!Interface),
                       assignments : TablesOf(Address, I!Assignment)] : I!ReferencesHold(inv)}
ReadyOnes == {inv \in SoundOnes : Ready(inv)}

LEMMA SoundIs ==
    ASSUME NEW inv
    PROVE  /\ inv \in SoundOnes <=> Sound(inv)
           /\ inv \in ReadyOnes <=> Sound(inv) /\ Ready(inv)
<1>1. ASSUME NEW t, NEW keys, NEW values
      PROVE  t \in TablesOf(keys, values) <=> I!IsTable(t, keys, values)
  BY DEF TablesOf, I!IsTable
<1>. DEFINE R == [devices : TablesOf(DeviceId, I!Device), interfaces : TablesOf(I!InterfaceId, I!Interface),
                  assignments : TablesOf(Address, I!Assignment)]
<1>2. inv \in R <=> I!IsInventory(inv)
  <2>1. inv \in R <=> /\ inv = [devices |-> inv.devices, interfaces |-> inv.interfaces, assignments |-> inv.assignments]
                      /\ inv.devices \in TablesOf(DeviceId, I!Device)
                      /\ inv.interfaces \in TablesOf(I!InterfaceId, I!Interface)
                      /\ inv.assignments \in TablesOf(Address, I!Assignment)
    OBVIOUS
  <2>. QED
    BY <1>1, <2>1 DEF I!IsInventory
<1>. HIDE DEF R
<1>3. inv \in SoundOnes <=> inv \in R /\ I!ReferencesHold(inv)
  BY DEF SoundOnes, R
<1>4. inv \in SoundOnes <=> Sound(inv)
  BY <1>2, <1>3 DEF Sound
<1>. QED
  BY <1>4 DEF ReadyOnes

LEMMA ServiceStaysReady == \A inv \in ReadyOnes, r \in Response : WithService(inv, r) \in ReadyOnes
<1>. SUFFICES ASSUME NEW inv \in ReadyOnes, NEW r \in Response PROVE WithService(inv, r) \in ReadyOnes
  OBVIOUS
<1>1. Sound(inv) /\ Ready(inv)
  BY SoundIs
<1>2. Sound(WithService(inv, r)) /\ Ready(WithService(inv, r))
  BY <1>1, ServiceIsApplied
<1>. QED
  BY <1>2, SoundIs

LEMMA CorrectionStaysSound == \A inv \in SoundOnes, operation \in Correction : Corrected(inv, operation) \in SoundOnes
<1>. SUFFICES ASSUME NEW inv \in SoundOnes, NEW operation \in Correction PROVE Corrected(inv, operation) \in SoundOnes
  OBVIOUS
<1>1. Sound(inv)
  BY SoundIs
<1>2. Sound(Corrected(inv, operation))
  BY <1>1, CorrectionIsApplied
<1>. QED
  BY <1>2, SoundIs

\* One service after the other.
LEMMA ServiceRuns ==
    ASSUME NEW inv \in ReadyOnes, NEW responses \in Seq(Response)
    PROVE  \E states \in [0..Len(responses) -> ReadyOnes] :
               /\ states[0] = inv /\ states[Len(responses)] = FoldLeft(WithService, inv, responses)
               /\ \A k \in 1..Len(responses) : states[k] = WithService(states[k - 1], responses[k])
<1>. DEFINE T == ReadyOnes
            n == Len(responses)
            Follows(f) == f = [t \in SUBSET (1..n) |-> IF t = {} THEN inv ELSE WithService(f[t \ {Max(t)}], responses[Max(t)])]
            f == CHOOSE g : Follows(g)
            step == [p \in T \X (1..n) |-> WithService(p[1], responses[p[2]])]
<1>1. n \in Nat /\ DOMAIN responses = 1..n /\ inv \in T /\ \A k \in 1..n : responses[k] \in Response
  OBVIOUS
<1>2. FoldLeft(WithService, inv, responses) = f[1..n]
  <2>1. FoldLeft(WithService, inv, responses)
         = (CHOOSE g : g = [t \in SUBSET DOMAIN responses |->
                                 IF t = {} THEN inv ELSE WithService(g[t \ {Max(t)}], responses[Max(t)])])[DOMAIN responses]
    BY Zenon DEF FoldLeft, MapThenFoldSet
  <2>. QED
    BY <1>1, <2>1, Zenon
<1>3. step \in [T \X (1..n) -> T] /\ \A x \in T, k \in 1..n : step[<<x, k>>] = WithService(x, responses[k])
  BY <1>1, ServiceStaysReady
<1>. HIDE DEF step, n, T
<1>4. \E g : Follows(g)
  <2>1. PICK g \in [SUBSET (1..n) -> T] : FoldedBy(g, n, inv, step)
    BY <1>1, <1>3, FoldExists
  <2>2. \A t \in SUBSET (1..n) : t # {} => Max(t) \in 1..n /\ g[t \ {Max(t)}] \in T
    BY <1>1, <2>1, GreatestOfPart
  <2>3. \A t \in SUBSET (1..n) : g[t] = IF t = {} THEN inv ELSE WithService(g[t \ {Max(t)}], responses[Max(t)])
    BY <1>3, <2>1, <2>2 DEF FoldedBy
  <2>4. g = [t \in SUBSET (1..n) |-> g[t]]
    BY <2>1
  <2>. QED
    BY <2>3, <2>4, Zenon
<1>5. Follows(f)
  BY <1>4, Zenon
<1>. HIDE DEF f
<1>6. f[{}] = inv /\ \A t \in SUBSET (1..n) : t # {} => f[t] = WithService(f[t \ {Max(t)}], responses[Max(t)])
  BY <1>5
<1>7. \A t \in SUBSET (1..n) : t # {} /\ f[t \ {Max(t)}] \in T => f[t] = step[<<f[t \ {Max(t)}], Max(t)>>]
  BY <1>1, <1>3, <1>6, GreatestOfPart
<1>8. PICK states \in [0..n -> T] : Runs(states, n, inv, step, f[1..n])
  BY <1>1, <1>3, <1>6, <1>7, FoldRuns
<1>9. \A k \in 1..n : states[k] = WithService(states[k - 1], responses[k])
  <2>1. \A k \in 1..n : states[k - 1] \in T
    <3>1. \A k \in 1..n : k - 1 \in 0..n
      BY <1>1
    <3>. QED
      BY <3>1
  <2>. QED
    BY <1>3, <1>8, <2>1 DEF Runs
<1>. QED
  BY <1>2, <1>8, <1>9 DEF n, T, Runs

\* One correction after the other.
LEMMA CorrectionRuns ==
    ASSUME NEW inv \in SoundOnes, NEW corrections \in Seq(Correction)
    PROVE  \E states \in [0..Len(corrections) -> SoundOnes] :
               /\ states[0] = inv /\ states[Len(corrections)] = FoldLeft(Corrected, inv, corrections)
               /\ \A k \in 1..Len(corrections) : states[k] = Corrected(states[k - 1], corrections[k])
<1>. DEFINE T == SoundOnes
            n == Len(corrections)
            Follows(f) == f = [t \in SUBSET (1..n) |-> IF t = {} THEN inv ELSE Corrected(f[t \ {Max(t)}], corrections[Max(t)])]
            f == CHOOSE g : Follows(g)
            step == [p \in T \X (1..n) |-> Corrected(p[1], corrections[p[2]])]
<1>1. n \in Nat /\ DOMAIN corrections = 1..n /\ inv \in T /\ \A k \in 1..n : corrections[k] \in Correction
  OBVIOUS
<1>2. FoldLeft(Corrected, inv, corrections) = f[1..n]
  <2>1. FoldLeft(Corrected, inv, corrections)
         = (CHOOSE g : g = [t \in SUBSET DOMAIN corrections |->
                                 IF t = {} THEN inv ELSE Corrected(g[t \ {Max(t)}], corrections[Max(t)])])[DOMAIN corrections]
    BY Zenon DEF FoldLeft, MapThenFoldSet
  <2>. QED
    BY <1>1, <2>1, Zenon
<1>3. step \in [T \X (1..n) -> T] /\ \A x \in T, k \in 1..n : step[<<x, k>>] = Corrected(x, corrections[k])
  BY <1>1, CorrectionStaysSound
<1>. HIDE DEF step, n, T
<1>4. \E g : Follows(g)
  <2>1. PICK g \in [SUBSET (1..n) -> T] : FoldedBy(g, n, inv, step)
    BY <1>1, <1>3, FoldExists
  <2>2. \A t \in SUBSET (1..n) : t # {} => Max(t) \in 1..n /\ g[t \ {Max(t)}] \in T
    BY <1>1, <2>1, GreatestOfPart
  <2>3. \A t \in SUBSET (1..n) : g[t] = IF t = {} THEN inv ELSE Corrected(g[t \ {Max(t)}], corrections[Max(t)])
    BY <1>3, <2>1, <2>2 DEF FoldedBy
  <2>4. g = [t \in SUBSET (1..n) |-> g[t]]
    BY <2>1
  <2>. QED
    BY <2>3, <2>4, Zenon
<1>5. Follows(f)
  BY <1>4, Zenon
<1>. HIDE DEF f
<1>6. f[{}] = inv /\ \A t \in SUBSET (1..n) : t # {} => f[t] = Corrected(f[t \ {Max(t)}], corrections[Max(t)])
  BY <1>5
<1>7. \A t \in SUBSET (1..n) : t # {} /\ f[t \ {Max(t)}] \in T => f[t] = step[<<f[t \ {Max(t)}], Max(t)>>]
  BY <1>1, <1>3, <1>6, GreatestOfPart
<1>8. PICK states \in [0..n -> T] : Runs(states, n, inv, step, f[1..n])
  BY <1>1, <1>3, <1>6, <1>7, FoldRuns
<1>9. \A k \in 1..n : states[k] = Corrected(states[k - 1], corrections[k])
  <2>1. \A k \in 1..n : states[k - 1] \in T
    <3>1. \A k \in 1..n : k - 1 \in 0..n
      BY <1>1
    <3>. QED
      BY <3>1
  <2>. QED
    BY <1>3, <1>8, <2>1 DEF Runs
<1>. QED
  BY <1>2, <1>8, <1>9 DEF n, T, Runs

\* All services that respond.
LEMMA ServicesAreApplied ==
    ASSUME NEW inv \in ReadyOnes, NEW responses \in Seq(Response)
    PROVE  FoldLeft(WithService, inv, responses) \in ReadyOnes /\ Keeps(inv, FoldLeft(WithService, inv, responses))
<1>. DEFINE n == Len(responses)
            all == FoldLeft(WithService, inv, responses)
<1>1. PICK states \in [0..n -> ReadyOnes] :
         /\ states[0] = inv /\ states[n] = all
         /\ \A k \in 1..n : states[k] = WithService(states[k - 1], responses[k])
  BY ServiceRuns
<1>2. n \in Nat /\ \A k \in 1..n : responses[k] \in Response
  OBVIOUS
<1>. HIDE DEF n, all
<1>. DEFINE S == {k \in 0..n : Keeps(inv, states[k])}
<1>3. 0 \in S
  <2>1. Keeps(inv, states[0]) /\ 0 \in 0..n
    BY <1>1, <1>2 DEF Keeps
  <2>. QED
    BY <2>1
<1>4. \A k \in 0..(n - 1) : k \in S => k + 1 \in S
  <2>. SUFFICES ASSUME NEW k \in 0..(n - 1), k \in S PROVE k + 1 \in S
    OBVIOUS
  <2>1. k + 1 \in 1..n /\ k \in 0..n /\ k + 1 \in 0..n /\ (k + 1) - 1 = k
    BY <1>2
  <2>2. states[k + 1] = WithService(states[k], responses[k + 1])
    BY <1>1, <2>1
  <2>3. states[k] \in ReadyOnes /\ responses[k + 1] \in Response
    BY <1>1, <1>2, <2>1
  <2>4. Sound(states[k]) /\ Ready(states[k])
    BY <2>3, SoundIs
  <2>5. Keeps(states[k], states[k + 1])
    BY <2>2, <2>3, <2>4, ServiceIsApplied
  <2>6. Keeps(inv, states[k + 1])
    BY <2>5, KeepsOn
  <2>. QED
    BY <2>1, <2>6
<1>5. n \in S
  <2>. HIDE DEF S
  <2>1. \A k \in 0..n : k \in S
    BY <1>2, <1>3, <1>4, Induction
  <2>. QED
    BY <1>2, <2>1
<1>6. n \in 0..n
  BY <1>2
<1>. QED
  BY <1>1, <1>5, <1>6 DEF all

\* All corrections, in whatever order.
LEMMA CorrectionsAreApplied ==
    ASSUME NEW inv \in SoundOnes, NEW corrections \in Seq(Correction)
    PROVE  FoldLeft(Corrected, inv, corrections) \in SoundOnes /\ Keeps(inv, FoldLeft(Corrected, inv, corrections))
<1>. DEFINE n == Len(corrections)
            all == FoldLeft(Corrected, inv, corrections)
<1>1. PICK states \in [0..n -> SoundOnes] :
         /\ states[0] = inv /\ states[n] = all
         /\ \A k \in 1..n : states[k] = Corrected(states[k - 1], corrections[k])
  BY CorrectionRuns
<1>2. n \in Nat /\ \A k \in 1..n : corrections[k] \in Correction
  OBVIOUS
<1>. HIDE DEF n, all
<1>. DEFINE S == {k \in 0..n : Keeps(inv, states[k])}
<1>3. 0 \in S
  <2>1. Keeps(inv, states[0]) /\ 0 \in 0..n
    BY <1>1, <1>2 DEF Keeps
  <2>. QED
    BY <2>1
<1>4. \A k \in 0..(n - 1) : k \in S => k + 1 \in S
  <2>. SUFFICES ASSUME NEW k \in 0..(n - 1), k \in S PROVE k + 1 \in S
    OBVIOUS
  <2>1. k + 1 \in 1..n /\ k \in 0..n /\ k + 1 \in 0..n /\ (k + 1) - 1 = k
    BY <1>2
  <2>2. states[k + 1] = Corrected(states[k], corrections[k + 1])
    BY <1>1, <2>1
  <2>3. states[k] \in SoundOnes /\ corrections[k + 1] \in Correction
    BY <1>1, <1>2, <2>1
  <2>4. Sound(states[k])
    BY <2>3, SoundIs
  <2>5. Keeps(states[k], states[k + 1])
    BY <2>2, <2>3, <2>4, CorrectionIsApplied
  <2>6. Keeps(inv, states[k + 1])
    BY <2>5, KeepsOn
  <2>. QED
    BY <2>1, <2>6
<1>5. n \in S
  <2>. HIDE DEF S
  <2>1. \A k \in 0..n : k \in S
    BY <1>2, <1>3, <1>4, Induction
  <2>. QED
    BY <1>2, <2>1
<1>6. n \in 0..n
  BY <1>2
<1>. QED
  BY <1>1, <1>5, <1>6 DEF all

\* What is projected of facts, under any settings and after any corrections.
LEMMA FactsAreProjected ==
    ASSUME NEW facts \in RawFacts, ProbeIsAtHome(facts.interfaces, facts.devices),
           NEW settings, IsSettings(settings), NEW corrections \in Seq(Correction)
    PROVE  Projects(Inventory(facts, settings, corrections), facts, settings)
<1>. DEFINE seen == Observed(facts, settings)
            virtual == UNION {x.addresses : x \in ToSet(facts.services)}
            registered == WithKubernetes(facts, seen)
            Of(method) == Kept(facts.responses, {r \in ToSet(facts.responses) : r.method = method})
            responses == Of("tcp-connect") \o Of("udp-probe")
            served == FoldLeft(WithService, registered, responses)
            inv == FoldLeft(Corrected, served, corrections)
<1>1. Inventory(facts, settings, corrections) = inv
  BY Zenon DEF Inventory, WithServices
<1>2. /\ Sound(seen) /\ Ready(seen)
      /\ \A a \in DOMAIN seen.assignments : seen.assignments[a].device # NoDevice /\ seen.assignments[a].advertisedBy = {}
      /\ \A r \in ToSet(facts.responses) :
            \/ r.endpoint[1] \in DOMAIN seen.assignments
            \/ \E i \in 1..Len(facts.devices) : /\ r.endpoint[1] \in facts.devices[i].addresses
                                                /\ ~PolicyOf(facts.devices[i], settings).identity
  BY ObservedIsSound
<1>. HIDE DEF seen
<1>3. /\ Sound(registered) /\ Ready(registered)
      /\ DOMAIN registered.assignments = DOMAIN seen.assignments \cup virtual
      /\ \A a \in virtual : /\ registered.assignments[a].device = NoDevice
                            /\ registered.assignments[a].advertisedBy # {} <=> a \in DOMAIN seen.assignments
  BY <1>2, KubernetesIsApplied
<1>4. responses \in Seq(Response)
  <2>1. facts.responses \in Seq(Response)
    BY DEF RawFacts
  <2>2. \A method : Of(method) \in Seq(Response)
    BY <2>1, KeptElements
  <2>. HIDE DEF Of
  <2>. QED
    BY <2>2
<1>. HIDE DEF virtual, registered, responses
<1>5. served \in ReadyOnes /\ Keeps(registered, served)
  <2>1. registered \in ReadyOnes
    BY <1>3, SoundIs
  <2>. QED
    BY <1>4, <2>1, ServicesAreApplied
<1>. HIDE DEF served
<1>6. inv \in SoundOnes /\ Keeps(served, inv)
  <2>1. served \in SoundOnes
    BY <1>5 DEF ReadyOnes
  <2>. QED
    BY <2>1, CorrectionsAreApplied
<1>. HIDE DEF inv
<1>7. Sound(inv) /\ Keeps(registered, inv)
  BY <1>5, <1>6, SoundIs, KeepsOn
<1>8. \A r \in ToSet(facts.responses) :
         \/ r.endpoint[1] \in DOMAIN inv.assignments
         \/ \E i \in 1..Len(facts.devices) : /\ r.endpoint[1] \in facts.devices[i].addresses
                                             /\ ~PolicyOf(facts.devices[i], settings).identity
  BY <1>2, <1>3, <1>7 DEF Keeps
<1>9. \A a \in virtual : /\ inv.assignments[a].device = NoDevice
                         /\ inv.assignments[a].advertisedBy # {} <=> a \in DOMAIN seen.assignments
  BY <1>3, <1>7 DEF Keeps
<1>. QED
  BY <1>1, <1>7, <1>8, <1>9 DEF Projects, Sound, virtual, seen

\* For any readings, sweeps, scans and number of snapshots kept, any settings and any
\* corrections: what is shown of the current state and of the newest snapshot is an
\* inventory, no reference in it dangles, no response is lost, and the address of a service
\* is no device's but advertised by whoever had it.
THEOREM InventoriesHold == Spec => []InventoryHolds
<1>1. HistoryInv => InventoryHolds
  <2>. SUFFICES ASSUME HistoryInv, snapshots # <<>>, NEW x \in Context
                PROVE  ProjectionHolds(Compose(snapshots), x) /\ ProjectionHolds(FactsOf(Last(snapshots)), x)
    BY DEF InventoryHolds
  <2>1. snapshots \in Seq(Snapshot) /\ Last(snapshots) \in Snapshot
    <3>1. snapshots \in Seq(Snapshot)
      BY DEF HistoryInv
    <3>. QED
      BY <3>1 DEF Last
  <2>2. IsSettings(x.settings) /\ x.corrections \in Seq(Correction)
    BY CurrentStateAssumption
  <2>3. Compose(snapshots) \in RawFacts /\ ProbeIsAtHome(Compose(snapshots).interfaces, Compose(snapshots).devices)
    BY <2>1, FactsOfHistory
  <2>4. /\ FactsOf(Last(snapshots)) \in RawFacts
        /\ ProbeIsAtHome(FactsOf(Last(snapshots)).interfaces, FactsOf(Last(snapshots)).devices)
    BY <2>1, FactsOfSnapshot
  <2>. QED
    BY <2>2, <2>3, <2>4, FactsAreProjected DEF ProjectionHolds
<1>. QED
  BY <1>1, HistoryIsWellFormed, PTL
=============================================================================
