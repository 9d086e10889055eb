--------------------------- MODULE PacketPoolProofs -------------------------
(***************************************************************************)
(* The pools of packets for every number of destinations, every window and *)
(* every set of pools that are large enough.                               *)
(***************************************************************************)
EXTENDS PacketPool, SequenceTheorems, TLAPS

Singles == of.messages \subseteq {<<"single">>}
Large == of.released /\ of.size > MostInFlight

Flight(d) == 1 .. Len(InFlight(d))
KindOf(d, k) == pool[InFlight(d)[k]].kind

(* A pair of which destination d has been sent the first packet only *)
Expects(d) ==
  \/ todo = <<"shadow">> /\ d >= dest
  \/ todo = <<"pair", "shadow">> /\ d < dest

(* The packets in flight for d are framed, and cut where the receiver is.  *)
FlightFramed(d) ==
  /\ \A k \in Flight(d) :
       /\ KindOf(d, k) = "shadow" => k > 1 /\ KindOf(d, k - 1) = "pair"
       /\ KindOf(d, k) = "pair" /\ k < Len(InFlight(d)) => KindOf(d, k + 1) = "shadow"
  /\ Expects(d) <=> Len(InFlight(d)) > 0 /\ KindOf(d, Len(InFlight(d))) = "pair"
ReceiverAt(d) ==
  /\ Len(q[d]) <= Window
  /\ rpc[d] = "idle" => Len(hold[d]) = 0
  /\ rpc[d] = "shadow" => Len(hold[d]) = 1 /\ KindOf(d, 1) = "pair"
  /\ rpc[d] = "use" => \/ Len(hold[d]) = 1 /\ KindOf(d, 1) # "pair"
                       \/ Len(hold[d]) = 2 /\ KindOf(d, 1) = "pair"

(* A packet in flight has its ptr set unless it is the second of a pair.   *)
PtrsSet ==
  \A d \in Dest : \A k \in Flight(d) :
    /\ pool[InFlight(d)[k]].ptr <=> KindOf(d, k) # "shadow"
    /\ Singles => KindOf(d, k) = "single"

(* In a large pool packets are handed out in the order they lie in, as no  *)
(* packet has to be passed over: the packet sent Age packets ago lies Age  *)
(* before cur.                                                             *)
Since(d) == IF d < dest THEN dest - d ELSE (dest + NumDest) - d
Rounds(n) == n * NumDest
Age(d, k) == Since(d) + Rounds(Len(InFlight(d)) - k)
Before(c, n) == IF c >= n THEN c - n ELSE (c + of.size) - n
Ordered ==
  /\ cur = next
  /\ \A d \in Dest : \A k \in Flight(d) : InFlight(d)[k] = Before(cur, Age(d, k))

PoolInv ==
  /\ TypeOK
  /\ todo = <<>> => dest = 1
  /\ Singles => todo # <<"shadow">>
  /\ \A d \in Dest : FlightFramed(d) /\ ReceiverAt(d)
  /\ PtrsSet
  /\ NoReuseInFlight
  /\ NoPacketLost
  /\ Large => Ordered

-----------------------------------------------------------------------------
LEMMA Facts ==
  ASSUME PoolInv
  PROVE  /\ NumDest \in Nat \ {0} /\ Window \in Nat \ {0}
         /\ of \in Pools /\ of.size \in Nat \ {0}
         /\ of.messages \subseteq {<<"single">>, <<"pair", "shadow">>}
         /\ todo \in {<<>>, <<"shadow">>, <<"single">>, <<"pair", "shadow">>}
         /\ cur \in Index /\ next \in Index /\ dest \in Dest
         /\ Singles \/ Large
BY PoolAssumption, LargeEnough DEF PoolAssumption, LargeEnough, PoolInv, TypeOK, Singles, Large

LEMMA Messages ==
  /\ Head(<<"shadow">>) = "shadow" /\ Tail(<<"shadow">>) = <<>>
  /\ Head(<<"single">>) = "single" /\ Tail(<<"single">>) = <<>>
  /\ Head(<<"pair", "shadow">>) = "pair" /\ Tail(<<"pair", "shadow">>) = <<"shadow">>
  /\ <<>> # <<"shadow">> /\ <<>> # <<"single">> /\ <<>> # <<"pair", "shadow">>
  /\ <<"shadow">> # <<"single">> /\ <<"shadow">> # <<"pair", "shadow">>
  /\ <<"single">> # <<"pair", "shadow">>
<1>1. /\ Len(<<>>) = 0 /\ Len(<<"shadow">>) = 1 /\ Len(<<"single">>) = 1
      /\ Len(<<"pair", "shadow">>) = 2
      /\ <<"shadow">>[1] = "shadow" /\ <<"single">>[1] = "single"
  OBVIOUS
<1> QED
  BY <1>1

LEMMA OneOrTwo ==
  ASSUME NEW n, n = 1 \/ n = 2
  PROVE  n \in 1 .. 2 /\ 1 \in 1 .. n /\ (n = 2 => 2 \in 1 .. n)
OBVIOUS

LEMMA Remainder ==
  ASSUME NEW W \in Nat, NEW x \in 0 .. 2, NEW y \in 0 .. W, NEW k \in 1 .. x + y
  PROVE  (x + y) - k \in 0 .. W + 1
OBVIOUS

LEMMA CatSeq ==
  ASSUME NEW S, NEW s \in Seq(S), NEW t \in Seq(S)
  PROVE  /\ s \o t \in Seq(S) /\ Len(s \o t) = Len(s) + Len(t)
         /\ Len(s) \in Nat /\ Len(t) \in Nat
         /\ \A k \in 1 .. Len(s) : (s \o t)[k] = s[k] /\ s[k] \in S
         /\ \A k \in 1 .. Len(t) : (s \o t)[Len(s) + k] = t[k] /\ t[k] \in S
OBVIOUS

LEMMA CatIndex ==
  ASSUME NEW s \in Seq(Index), NEW t \in Seq(Index)
  PROVE  /\ s \o t \in Seq(Index) /\ Len(s \o t) = Len(s) + Len(t)
         /\ \A k \in 1 .. Len(s) : (s \o t)[k] = s[k]
         /\ \A k \in 1 .. Len(t) : (s \o t)[Len(s) + k] = t[k]
OBVIOUS

LEMMA TailSeq ==
  ASSUME NEW S, NEW s \in Seq(S), s # <<>>
  PROVE  /\ Tail(s) \in Seq(S) /\ Len(Tail(s)) = Len(s) - 1 /\ Len(s) \in Nat \ {0}
         /\ Head(s) = s[1] /\ s[1] \in S
         /\ <<Head(s)>> \o Tail(s) = s
<1>1. /\ Tail(s) \in Seq(S) /\ Len(Tail(s)) = Len(s) - 1 /\ Len(s) \in Nat \ {0}
      /\ Head(s) = s[1] /\ s[1] \in S
      /\ \A k \in 1 .. Len(s) - 1 : Tail(s)[k] = s[k + 1]
  OBVIOUS
<1> QED
  BY <1>1, HeadTailProperties

LEMMA EmptyCat ==
  ASSUME NEW S, NEW s \in Seq(S), NEW t \in Seq(S), Len(s) = 0
  PROVE  s = <<>> /\ s \o t = t
<1>1. s = <<>>
  BY EmptySeq
<1> QED
  BY <1>1, ConcatEmptySeq

LEMMA AppendCat ==
  ASSUME NEW S, NEW s \in Seq(S), NEW t \in Seq(S), NEW x \in S
  PROVE  /\ Append(s, x) \in Seq(S) /\ Len(Append(s, x)) = Len(s) + 1
         /\ Append(s, x) \o t = s \o (<<x>> \o t)
<1>1. Append(s, x) = s \o <<x>> /\ <<x>> \in Seq(S)
  BY AppendIsConcat
<1>2. (s \o <<x>>) \o t = s \o (<<x>> \o t)
  BY <1>1, ConcatAssociative
<1> QED
  BY <1>1, <1>2, AppendProperties

LEMMA CatAppend ==
  ASSUME NEW S, NEW s \in Seq(S), NEW t \in Seq(S), NEW x \in S
  PROVE  s \o Append(t, x) = Append(s \o t, x)
<1>1. Append(t, x) = t \o <<x>> /\ <<x>> \in Seq(S) /\ s \o t \in Seq(S)
  BY AppendIsConcat, ConcatProperties
<1>2. (s \o t) \o <<x>> = s \o (t \o <<x>>)
  BY <1>1, ConcatAssociative
<1>3. Append(s \o t, x) = (s \o t) \o <<x>>
  BY <1>1, AppendIsConcat
<1> QED
  BY <1>1, <1>2, <1>3

LEMMA InFlightIs ==
  ASSUME PoolInv, NEW d \in Dest
  PROVE  /\ InFlight(d) \in Seq(Index) /\ Len(InFlight(d)) = Len(hold[d]) + Len(q[d])
         /\ Len(hold[d]) \in 0 .. 2 /\ Len(q[d]) \in 0 .. Window
         /\ \A k \in 1 .. Len(hold[d]) : InFlight(d)[k] = hold[d][k]
         /\ \A k \in 1 .. Len(q[d]) : InFlight(d)[Len(hold[d]) + k] = q[d][k]
         /\ \A k \in Flight(d) : InFlight(d)[k] \in Index
         /\ hold[d] \in Seq(Index) /\ q[d] \in Seq(Index)
         /\ rpc[d] \in {"idle", "shadow", "use"}
<1>1. hold[d] \in Seq(Index) /\ q[d] \in Seq(Index) /\ rpc[d] \in {"idle", "shadow", "use"}
  BY DEF PoolInv, TypeOK
<1>2. Len(hold[d]) \in 0 .. 2
  BY <1>1 DEF PoolInv, ReceiverAt
<1>3. Len(q[d]) \in 0 .. Window
  BY <1>1, Facts DEF PoolInv, ReceiverAt
<1>4. \A k \in Flight(d) : InFlight(d)[k] \in Index
  <2>1. InFlight(d) \in Seq(Index)
    BY <1>1, CatSeq DEF InFlight
  <2> QED
    BY <2>1 DEF Flight
<1>5. /\ InFlight(d) \in Seq(Index) /\ Len(InFlight(d)) = Len(hold[d]) + Len(q[d])
      /\ \A k \in 1 .. Len(hold[d]) : InFlight(d)[k] = hold[d][k]
      /\ \A k \in 1 .. Len(q[d]) : InFlight(d)[Len(hold[d]) + k] = q[d][k]
  BY <1>1, CatIndex, Zenon DEF InFlight
<1> QED
  BY <1>1, <1>2, <1>3, <1>4, <1>5

-----------------------------------------------------------------------------
(* Ages *)

LEMMA Multiples ==
  ASSUME NEW n \in Nat, NEW m \in Nat, NEW D \in Nat
  PROVE  /\ n * D \in Nat /\ m * D \in Nat
         /\ n <= m => n * D <= m * D
         /\ n < m => n * D + D <= m * D
<1>1. n * D \in Nat /\ m * D \in Nat
  OBVIOUS
<1>2. ASSUME n < m PROVE n * D + D <= m * D
  <2> PICK r \in Nat : m = (n + 1) + r
    <3>1. m - (n + 1) \in Nat /\ m = (n + 1) + (m - (n + 1))
      BY <1>2
    <3> QED
      BY <3>1
  <2>1. m * D = n * D + D + r * D
    OBVIOUS
  <2>2. r * D \in Nat
    OBVIOUS
  <2> QED
    BY <1>1, <2>1, <2>2
<1>3. n <= m => n * D <= m * D
  BY <1>1, <1>2
<1> QED
  BY <1>1, <1>2, <1>3

LEMMA RoundsAre ==
  ASSUME NEW n \in Nat, NEW m \in Nat
  PROVE  /\ Rounds(n) \in Nat
         /\ Rounds(0) = 0 /\ Rounds(n + 1) = Rounds(n) + NumDest
         /\ n <= m => Rounds(n) <= Rounds(m)
         /\ n < m => Rounds(n) + NumDest <= Rounds(m)
         /\ Rounds(Window + 2) = MostInFlight
<1>1. NumDest \in Nat /\ Window \in Nat
  BY PoolAssumption DEF PoolAssumption
<1>2. (n + 1) * NumDest = n * NumDest + NumDest /\ 0 * NumDest = 0
      /\ (Window + 2) * NumDest = NumDest * (Window + 2)
  BY <1>1
<1> QED
  BY <1>1, <1>2, Multiples DEF Rounds, MostInFlight

LEMMA SinceRange ==
  ASSUME PoolInv, NEW d \in Dest
  PROVE  /\ Since(d) \in 1 .. NumDest
         /\ \A e \in Dest : Since(d) = Since(e) => d = e
BY Facts DEF Since, Dest

LEMMA AgeRange ==
  ASSUME PoolInv, NEW d \in Dest, NEW k \in Flight(d)
  PROVE  Age(d, k) \in 1 .. MostInFlight /\ MostInFlight \in Nat
<1>1. Len(InFlight(d)) - k \in 0 .. Window + 1
  <2>1. /\ Len(InFlight(d)) = Len(hold[d]) + Len(q[d])
        /\ Len(hold[d]) \in 0 .. 2 /\ Len(q[d]) \in 0 .. Window /\ Window \in Nat
    BY InFlightIs, Facts
  <2> PICK x \in 0 .. 2 : x = Len(hold[d])
    BY <2>1
  <2> PICK y \in 0 .. Window : y = Len(q[d])
    BY <2>1
  <2>2. Len(InFlight(d)) = x + y /\ Window \in Nat
    BY <2>1
  <2>3. k \in 1 .. x + y
    BY <2>2 DEF Flight
  <2>4. (x + y) - k \in 0 .. Window + 1
    BY <2>2, <2>3, Remainder
  <2> QED
    BY <2>2, <2>4
<1> PICK n \in 0 .. Window + 1 : n = Len(InFlight(d)) - k
  BY <1>1
<1>2. /\ Rounds(n) \in Nat /\ Rounds(n) + NumDest <= MostInFlight /\ MostInFlight \in Nat
  <2>1. n \in Nat /\ Window + 2 \in Nat /\ n < Window + 2
    BY Facts
  <2> QED
    BY <2>1, RoundsAre
<1>3. Age(d, k) = Since(d) + Rounds(n)
  BY DEF Age
<1> QED
  BY <1>2, <1>3, SinceRange, Facts

LEMMA AgeUnique ==
  ASSUME PoolInv, NEW d \in Dest, NEW e \in Dest, NEW k \in Flight(d), NEW j \in Flight(e),
         Age(d, k) = Age(e, j)
  PROVE  d = e /\ k = j
<1>1. Len(InFlight(d)) - k \in Nat /\ Len(InFlight(e)) - j \in Nat
  <2>1. InFlight(d) \in Seq(Index) /\ InFlight(e) \in Seq(Index)
    BY InFlightIs
  <2> QED
    BY <2>1 DEF Flight
<1> PICK n \in Nat : n = Len(InFlight(d)) - k
  BY <1>1
<1> PICK m \in Nat : m = Len(InFlight(e)) - j
  BY <1>1
<1>2. Since(d) + Rounds(n) = Since(e) + Rounds(m)
  BY DEF Age
<1>3. /\ Since(d) \in 1 .. NumDest /\ Since(e) \in 1 .. NumDest
      /\ Rounds(n) \in Nat /\ Rounds(m) \in Nat /\ NumDest \in Nat
      /\ n < m => Rounds(n) + NumDest <= Rounds(m)
      /\ m < n => Rounds(m) + NumDest <= Rounds(n)
  BY SinceRange, RoundsAre, Facts
<1>4. n = m
  BY <1>2, <1>3
<1>5. Since(d) = Since(e)
  BY <1>2, <1>3, <1>4
<1>6. d = e
  BY <1>5, SinceRange
<1> QED
  BY <1>4, <1>6, InFlightIs DEF Flight

(* Going back in the pool *)
LEMMA BeforeIs ==
  ASSUME PoolInv, NEW c \in Index, NEW n \in 1 .. of.size - 1
  PROVE  /\ Before(c, n) \in Index /\ Before(c, n) # c
         /\ Behind(c) \in Index /\ Before(Behind(c), n + 1) = Before(c, n)
         /\ \A m \in 1 .. of.size - 1 : Before(c, n) = Before(c, m) => n = m
<1>1. of.size \in Nat \ {0} /\ c \in 0 .. of.size - 1
  BY Facts DEF Index
<1>2. Before(c, n) \in Index /\ Before(c, n) # c
  BY <1>1 DEF Before, Index
<1>3. Behind(c) \in Index /\ Before(Behind(c), n + 1) = Before(c, n)
  BY <1>1 DEF Before, Behind, Index
<1>4. ASSUME NEW m \in 1 .. of.size - 1, Before(c, n) = Before(c, m) PROVE n = m
  BY <1>1, <1>4 DEF Before
<1> QED
  BY <1>2, <1>3, <1>4

LEMMA BehindIs ==
  ASSUME PoolInv, NEW c \in Index
  PROVE  Behind(c) \in Index /\ Before(Behind(c), 1) = c
BY Facts DEF Before, Behind, Index

(* In a large pool no packet in flight is the one to be handed out next,   *)
(* and none has to be passed over.                                         *)
LEMMA LargeAges ==
  ASSUME PoolInv, Large, NEW d \in Dest, NEW k \in Flight(d)
  PROVE  Age(d, k) \in 1 .. of.size - 1
<1>1. of.size \in Nat
  BY Facts
<1> QED
  BY <1>1, AgeRange DEF Large

LEMMA CurIsFree ==
  ASSUME PoolInv, Large
  PROVE  /\ \A d \in Dest : \A k \in Flight(d) : InFlight(d)[k] # cur
         /\ IsAvailable(cur)
<1>1. ASSUME NEW d \in Dest, NEW k \in Flight(d) PROVE InFlight(d)[k] # cur
  <2>1. InFlight(d)[k] = Before(cur, Age(d, k))
    BY DEF PoolInv, Ordered
  <2> QED
    BY <2>1, LargeAges, BeforeIs, Facts
<1>2. ~ pool[cur].ptr
  BY <1>1, Facts DEF PoolInv, NoPacketLost, IsAvailable, Large, Flight
<1> QED
  BY <1>1, <1>2 DEF IsAvailable

LEMMA AvailableIsFree ==
  ASSUME PoolInv, IsAvailable(cur)
  PROVE  \A d \in Dest : \A k \in Flight(d) : InFlight(d)[k] # cur
<1>1. CASE Large
  BY <1>1, CurIsFree
<1>2. CASE Singles
  <2>1. \A d \in Dest : \A k \in Flight(d) : pool[InFlight(d)[k]].ptr
    BY <1>2 DEF PoolInv, PtrsSet
  <2> QED
    BY <2>1, Zenon DEF IsAvailable
<1> QED
  BY <1>1, <1>2, Facts

-----------------------------------------------------------------------------
(* Steps that leave the packets in flight as they are *)

LEMMA FlightKept ==
  ASSUME PoolInv, UNCHANGED <<of, pool, next>>,
         \A d \in Dest : InFlight(d)' = InFlight(d),
         \A d \in Dest : Expects(d)' <=> Expects(d),
         \A d \in Dest : ReceiverAt(d)',
         TypeOK', dest' = dest, Large => cur' = cur,
         todo' = <<>> => dest = 1, Singles => todo' # <<"shadow">>
  PROVE  PoolInv'
<1>1. Index' = Index /\ (Singles' <=> Singles) /\ (Large' <=> Large)
  BY DEF Index, Singles, Large
<1>2. \A d \in Dest : Flight(d)' = Flight(d)
  BY DEF Flight
<1>3. \A d \in Dest : \A k : KindOf(d, k)' = KindOf(d, k)
  BY DEF KindOf
<1>4. ASSUME NEW d \in Dest PROVE FlightFramed(d)'
  BY <1>2, <1>3 DEF PoolInv, FlightFramed
<1>5. PtrsSet'
  BY <1>1, <1>2, <1>3 DEF PoolInv, PtrsSet
<1>6. NoReuseInFlight'
  BY DEF PoolInv, NoReuseInFlight
<1>7. ASSUME Large PROVE Ordered'
  <2>1. cur' = cur /\ of' = of
    BY <1>7
  <2>2. \A d \in Dest : \A k : Age(d, k)' = Age(d, k)
    BY DEF Age, Since
  <2>3. \A n : Before(cur, n)' = Before(cur, n)
    BY <2>1 DEF Before
  <2>4. Ordered
    BY <1>7 DEF PoolInv
  <2>5. \A d \in Dest : \A k \in Flight(d) : InFlight(d)'[k] = Before(cur, Age(d, k))'
    BY <2>1, <2>2, <2>3, <2>4 DEF Ordered, Before
  <2> QED
    BY <1>1, <1>2, <2>1, <2>4, <2>5 DEF Ordered
<1>8. NoPacketLost'
  BY <1>1 DEF PoolInv, NoPacketLost, IsAvailable
<1> QED
  BY <1>1, <1>4, <1>5, <1>6, <1>7, <1>8 DEF PoolInv

LEMMA BeginMessageKeeps == PoolInv /\ BeginMessage => PoolInv'
<1> SUFFICES ASSUME PoolInv, BeginMessage PROVE PoolInv'
  OBVIOUS
<1>1. /\ todo = <<>> /\ todo' \in of.messages /\ cur' = next /\ dest' = 1 /\ dest = 1
      /\ UNCHANGED <<of, pool, next, q, rpc, hold>>
      /\ of.released \/ sent < of.most
      /\ sent' = IF of.released THEN sent ELSE sent + 1
  BY DEF BeginMessage, PoolInv
<1>2. \A d \in Dest : InFlight(d)' = InFlight(d)
  BY <1>1 DEF InFlight
<1>3. todo' = <<"single">> \/ todo' = <<"pair", "shadow">>
  BY <1>1, Facts
<1>4. \A d \in Dest : ~Expects(d) /\ ~Expects(d)'
  BY <1>1, <1>3, Messages DEF Expects, Dest
<1>5. TypeOK'
  <2>1. sent' \in 0 .. of.most
    <3>1. of.most \in Nat /\ sent \in 0 .. of.most
      BY Facts, PoolAssumption DEF PoolAssumption, PoolInv, TypeOK
    <3> QED
      BY <1>1, <3>1
  <2>2. Index' = Index
    BY <1>1 DEF Index
  <2> QED
    BY <1>1, <2>1, <2>2, Facts DEF PoolInv, TypeOK
<1>6. \A d \in Dest : ReceiverAt(d)'
  BY <1>1, <1>2 DEF PoolInv, ReceiverAt, KindOf
<1>7. Large => cur' = cur
  BY <1>1 DEF PoolInv, Ordered
<1> QED
  BY <1>1, <1>2, <1>3, <1>4, <1>5, <1>6, <1>7, Messages, FlightKept

LEMMA PassOverKeeps == PoolInv /\ PassOver => PoolInv'
<1> SUFFICES ASSUME PoolInv, PassOver PROVE PoolInv'
  OBVIOUS
<1>1. /\ todo # <<>> /\ ~IsAvailable(cur) /\ cur' = Behind(cur)
      /\ UNCHANGED <<of, pool, sent, next, todo, dest, q, rpc, hold>>
  BY DEF PassOver
<1>2. ~Large
  BY <1>1, CurIsFree
<1>3. \A d \in Dest : InFlight(d)' = InFlight(d)
  BY <1>1 DEF InFlight
<1>4. \A d \in Dest : Expects(d)' <=> Expects(d)
  BY <1>1 DEF Expects
<1>5. TypeOK'
  <2>1. cur' \in Index /\ Index' = Index
    BY <1>1, BehindIs, Facts DEF Index
  <2> QED
    BY <1>1, <2>1 DEF PoolInv, TypeOK
<1>6. \A d \in Dest : ReceiverAt(d)'
  BY <1>1, <1>3 DEF PoolInv, ReceiverAt, KindOf
<1>7. todo' # <<>> /\ (Singles => todo' # <<"shadow">>) /\ dest' = dest
  BY <1>1 DEF PoolInv
<1> QED
  BY <1>1, <1>2, <1>3, <1>4, <1>5, <1>6, <1>7, FlightKept

(* A receiver takes a packet out of its queue and holds it. *)
LEMMA TakeFirstKeeps ==
  ASSUME PoolInv, NEW d \in Dest, TakeFirst(d)
  PROVE  PoolInv'
<1>1. /\ rpc[d] = "idle" /\ q[d] # <<>>
      /\ hold' = [hold EXCEPT ![d] = <<Head(q[d])>>]
      /\ rpc' = [rpc EXCEPT ![d] = IF pool[Head(q[d])].kind = "pair" THEN "shadow" ELSE "use"]
      /\ q' = [q EXCEPT ![d] = Tail(q[d])]
      /\ UNCHANGED <<of, pool, sent, next, cur, todo, dest>>
  BY DEF TakeFirst, sender
<1>2. /\ q \in [Dest -> Seq(Index)] /\ hold \in [Dest -> Seq(Index)]
      /\ rpc \in [Dest -> {"idle", "shadow", "use"}]
  BY DEF PoolInv, TypeOK
<1>3. q[d] \in Seq(Index) /\ hold[d] \in Seq(Index) /\ Len(hold[d]) = 0
  BY <1>1, <1>2 DEF PoolInv, ReceiverAt
<1>4. /\ Tail(q[d]) \in Seq(Index) /\ Len(Tail(q[d])) = Len(q[d]) - 1
      /\ Len(q[d]) \in Nat \ {0} /\ Head(q[d]) \in Index
      /\ <<Head(q[d])>> \o Tail(q[d]) = q[d]
  BY <1>1, <1>3, TailSeq
<1>5. <<Head(q[d])>> \in Seq(Index) /\ Len(<<Head(q[d])>>) = 1
  BY <1>4
<1>6. /\ hold'[d] = <<Head(q[d])>> /\ q'[d] = Tail(q[d])
      /\ rpc'[d] = (IF pool[Head(q[d])].kind = "pair" THEN "shadow" ELSE "use")
      /\ \A e \in Dest \ {d} : hold'[e] = hold[e] /\ q'[e] = q[e] /\ rpc'[e] = rpc[e]
  BY <1>1, <1>2
<1>7. InFlight(d) = q[d]
  BY <1>3, EmptyCat DEF InFlight
<1>8. \A e \in Dest : InFlight(e)' = InFlight(e)
  BY <1>4, <1>6, <1>7 DEF InFlight
<1>9. InFlight(d)[1] = Head(q[d])
  BY <1>1, <1>3, <1>7, TailSeq
<1>10. TypeOK'
  <2>1. hold' \in [Dest -> Seq(Index)] /\ q' \in [Dest -> Seq(Index)]
        /\ rpc' \in [Dest -> {"idle", "shadow", "use"}]
    BY <1>1, <1>2, <1>4, <1>5
  <2>2. Index' = Index
    BY <1>1 DEF Index
  <2> QED
    BY <1>1, <2>1, <2>2 DEF PoolInv, TypeOK
<1>11. ASSUME NEW e \in Dest PROVE ReceiverAt(e)'
  <2>1. \A k : KindOf(e, k)' = KindOf(e, k)
    BY <1>1, <1>8 DEF KindOf
  <2>2. CASE e = d
    <3>1. Len(q[d]) <= Window
      BY DEF PoolInv, ReceiverAt
    <3>2. Len(q'[d]) <= Window
      BY <1>4, <1>6, <3>1, Facts
    <3>3. KindOf(d, 1) = pool[Head(q[d])].kind
      BY <1>9 DEF KindOf
    <3> QED
      BY <1>5, <1>6, <2>1, <2>2, <3>2, <3>3 DEF ReceiverAt
  <2>3. CASE e # d
    BY <1>6, <2>1, <2>3 DEF PoolInv, ReceiverAt
  <2> QED
    BY <2>2, <2>3
<1>12. \A e \in Dest : Expects(e)' <=> Expects(e)
  BY <1>1 DEF Expects
<1>13. (todo' = <<>> => dest = 1) /\ (Singles => todo' # <<"shadow">>)
  BY <1>1 DEF PoolInv
<1> QED
  BY <1>1, <1>8, <1>10, <1>11, <1>12, <1>13, FlightKept

LEMMA TakeShadowKeeps ==
  ASSUME PoolInv, NEW d \in Dest, TakeShadow(d)
  PROVE  PoolInv'
<1>1. /\ rpc[d] = "shadow" /\ q[d] # <<>>
      /\ hold' = [hold EXCEPT ![d] = Append(hold[d], Head(q[d]))]
      /\ rpc' = [rpc EXCEPT ![d] = "use"]
      /\ q' = [q EXCEPT ![d] = Tail(q[d])]
      /\ UNCHANGED <<of, pool, sent, next, cur, todo, dest>>
  BY DEF TakeShadow, sender
<1>2. /\ q \in [Dest -> Seq(Index)] /\ hold \in [Dest -> Seq(Index)]
      /\ rpc \in [Dest -> {"idle", "shadow", "use"}]
  BY DEF PoolInv, TypeOK
<1>3. /\ q[d] \in Seq(Index) /\ hold[d] \in Seq(Index)
      /\ Len(hold[d]) = 1 /\ KindOf(d, 1) = "pair"
  BY <1>1, <1>2 DEF PoolInv, ReceiverAt
<1>4. /\ Tail(q[d]) \in Seq(Index) /\ Len(Tail(q[d])) = Len(q[d]) - 1
      /\ Len(q[d]) \in Nat \ {0} /\ Head(q[d]) \in Index
      /\ <<Head(q[d])>> \o Tail(q[d]) = q[d]
  BY <1>1, <1>3, TailSeq
<1>5. /\ Append(hold[d], Head(q[d])) \in Seq(Index)
      /\ Len(Append(hold[d], Head(q[d]))) = 2
      /\ Append(hold[d], Head(q[d])) \o Tail(q[d]) = hold[d] \o q[d]
  <2> hold[d] \in Seq(Index) /\ Tail(q[d]) \in Seq(Index) /\ Head(q[d]) \in Index
    BY <1>3, <1>4
  <2>1. /\ Append(hold[d], Head(q[d])) \in Seq(Index)
        /\ Len(Append(hold[d], Head(q[d]))) = Len(hold[d]) + 1
        /\ Append(hold[d], Head(q[d])) \o Tail(q[d])
             = hold[d] \o (<<Head(q[d])>> \o Tail(q[d]))
    BY AppendCat
  <2>2. Len(Append(hold[d], Head(q[d]))) = 2
    BY <1>3, <2>1
  <2>3. hold[d] \o (<<Head(q[d])>> \o Tail(q[d])) = hold[d] \o q[d]
    BY <1>4
  <2> QED
    BY <2>1, <2>2, <2>3
<1>6. /\ hold'[d] = Append(hold[d], Head(q[d])) /\ q'[d] = Tail(q[d]) /\ rpc'[d] = "use"
      /\ \A e \in Dest \ {d} : hold'[e] = hold[e] /\ q'[e] = q[e] /\ rpc'[e] = rpc[e]
  BY <1>1, <1>2
<1>7. \A e \in Dest : InFlight(e)' = InFlight(e)
  BY <1>5, <1>6 DEF InFlight
<1>8. TypeOK'
  <2>1. hold' \in [Dest -> Seq(Index)] /\ q' \in [Dest -> Seq(Index)]
        /\ rpc' \in [Dest -> {"idle", "shadow", "use"}]
    BY <1>1, <1>2, <1>4, <1>5
  <2>2. Index' = Index
    BY <1>1 DEF Index
  <2> QED
    BY <1>1, <2>1, <2>2 DEF PoolInv, TypeOK
<1>9. ASSUME NEW e \in Dest PROVE ReceiverAt(e)'
  <2>1. \A k : KindOf(e, k)' = KindOf(e, k)
    BY <1>1, <1>7 DEF KindOf
  <2>2. CASE e = d
    <3>1. Len(q[d]) <= Window
      BY DEF PoolInv, ReceiverAt
    <3>2. Len(q'[d]) <= Window
      BY <1>4, <1>6, <3>1, Facts
    <3> QED
      BY <1>3, <1>5, <1>6, <2>1, <2>2, <3>2 DEF ReceiverAt
  <2>3. CASE e # d
    BY <1>6, <2>1, <2>3 DEF PoolInv, ReceiverAt
  <2> QED
    BY <2>2, <2>3
<1>10. \A e \in Dest : Expects(e)' <=> Expects(e)
  BY <1>1 DEF Expects
<1>11. (todo' = <<>> => dest = 1) /\ (Singles => todo' # <<"shadow">>)
  BY <1>1 DEF PoolInv
<1> QED
  BY <1>1, <1>7, <1>8, <1>9, <1>10, <1>11, FlightKept

(* A receiver is done with the one or two packets it holds. *)
LEMMA HeldAre ==
  ASSUME PoolInv, NEW d \in Dest, rpc[d] = "use"
  PROVE  /\ Len(hold[d]) \in 1 .. 2
         /\ hold[d][1] = InFlight(d)[1] /\ 1 \in Flight(d) /\ hold[d][1] \in Index
         /\ KindOf(d, Len(hold[d])) # "pair"
         /\ Len(hold[d]) = 2 => KindOf(d, 2) = "shadow" /\ 2 \in Flight(d)
<1>1. \/ Len(hold[d]) = 1 /\ KindOf(d, 1) # "pair"
      \/ Len(hold[d]) = 2 /\ KindOf(d, 1) = "pair"
  BY DEF PoolInv, ReceiverAt
<1>2. \A k \in 1 .. Len(hold[d]) : k \in Flight(d) /\ InFlight(d)[k] = hold[d][k]
  <2>1. ASSUME NEW x \in 0 .. 2, NEW y \in Nat PROVE \A k \in 1 .. x : k \in 1 .. x + y
    OBVIOUS
  <2>2. Len(hold[d]) \in 0 .. 2 /\ Len(q[d]) \in Nat
    <3>1. Len(hold[d]) \in 0 .. 2 /\ q[d] \in Seq(Index)
      BY InFlightIs, Zenon
    <3> QED
      BY <3>1, LenProperties, Zenon
  <2> QED
    BY <2>1, <2>2, InFlightIs DEF Flight
<1>3. Len(hold[d]) = 2 => KindOf(d, 2) = "shadow"
  <2> SUFFICES ASSUME Len(hold[d]) = 2 PROVE KindOf(d, 2) = "shadow"
    OBVIOUS
  <2>1. 1 \in Flight(d) /\ 2 \in Flight(d)
    BY <1>2
  <2>2. 1 < Len(InFlight(d))
    BY <2>1, InFlightIs DEF Flight
  <2> QED
    BY <1>1, <2>1, <2>2 DEF PoolInv, FlightFramed
<1>4. /\ 1 \in 1 .. Len(hold[d]) /\ (Len(hold[d]) = 2 => 2 \in 1 .. Len(hold[d]))
      /\ Len(hold[d]) \in 1 .. 2
  BY <1>1, OneOrTwo, Zenon
<1>5. 1 \in Flight(d) /\ hold[d][1] = InFlight(d)[1] /\ hold[d][1] \in Index
  BY <1>2, <1>4, InFlightIs
<1> QED
  BY <1>1, <1>2, <1>3, <1>4, <1>5

LEMMA NoReuse ==
  ASSUME PoolInv
  PROVE  \A d, e \in Dest : \A i \in Flight(d), j \in Flight(e) :
           InFlight(d)[i] = InFlight(e)[j] => d = e /\ i = j
BY Zenon DEF PoolInv, NoReuseInFlight, Flight

(* Where a packet in flight after the release was in flight before *)
LEMMA Shifted ==
  ASSUME NEW x \in 1 .. 2, NEW y \in Nat
  PROVE  /\ \A k \in 1 .. y :
              /\ x + k \in 1 .. x + y /\ x + k # 1 /\ x + k > 1
              /\ (x + k) - 1 = x + (k - 1) /\ (x + k) + 1 = x + (k + 1)
              /\ (x + y) - (x + k) = y - k
              /\ k < y <=> x + k < x + y
              /\ k > 1 => k - 1 \in 1 .. y
              /\ k < y => k + 1 \in 1 .. y
              /\ k = 1 => x + (k - 1) = x
         /\ \A k \in 1 .. x + y : k \in {1, x} \/ \E j \in 1 .. y : k = x + j
         /\ \A k, j \in 1 .. y : x + k = x + j => k = j
         /\ x + y > 0 /\ (y > 0 => y \in 1 .. y) /\ (y = 0 => x + y = x)
<1>1. \A k \in 1 .. x + y : k \in {1, x} \/ \E j \in 1 .. y : k = x + j
  <2> SUFFICES ASSUME NEW k \in 1 .. x + y, k \notin {1, x} PROVE \E j \in 1 .. y : k = x + j
    OBVIOUS
  <2>1. k - x \in 1 .. y /\ k = x + (k - x)
    OBVIOUS
  <2> QED
    BY <2>1
<1> QED
  BY <1>1

LEMMA ReleaseKeeps ==
  ASSUME PoolInv, NEW d \in Dest, rpc[d] = "use",
         hold' = [hold EXCEPT ![d] = <<>>], rpc' = [rpc EXCEPT ![d] = "idle"],
         UNCHANGED <<of, sender, q>>,
         pool' \in [Index -> [ptr : BOOLEAN, kind : Kind]],
         \A n \in Index : pool'[n].kind = pool[n].kind,
         \A n \in Index \ {hold[d][1]} : pool'[n] = pool[n],
         of.released => ~ pool'[hold[d][1]].ptr
  PROVE  PoolInv'
<1> DEFINE x == Len(hold[d])
           y == Len(q[d])
           old(e, k) == IF e = d THEN x + k ELSE k
<1>0. sent' = sent /\ next' = next /\ cur' = cur /\ todo' = todo /\ dest' = dest /\ of' = of /\ q' = q
  BY DEF sender
<1>1. Index' = Index /\ (Singles' <=> Singles) /\ (Large' <=> Large)
  BY <1>0 DEF Index, Singles, Large
<1>2. /\ hold \in [Dest -> Seq(Index)] /\ rpc \in [Dest -> {"idle", "shadow", "use"}]
      /\ q \in [Dest -> Seq(Index)]
  BY DEF PoolInv, TypeOK
<1>3. /\ hold'[d] = <<>> /\ rpc'[d] = "idle"
      /\ \A e \in Dest \ {d} : hold'[e] = hold[e] /\ rpc'[e] = rpc[e]
  BY <1>2
<1>4. InFlight(d)' = q[d] /\ \A e \in Dest \ {d} : InFlight(e)' = InFlight(e)
  <2>1. <<>> \o q[d] = q[d]
    BY <1>2, ConcatEmptySeq
  <2> QED
    BY <1>0, <1>3, <2>1 DEF InFlight
<1>5. /\ x \in 1 .. 2 /\ y \in Nat /\ Len(InFlight(d)) = x + y
      /\ \A k \in 1 .. y : InFlight(d)[x + k] = q[d][k]
      /\ Flight(d) = 1 .. x + y /\ Flight(d)' = 1 .. y /\ y' = y
      /\ Len(InFlight(d)') = y
  <2>1. x \in 1 .. 2
    BY HeldAre
  <2>2. y \in Nat
    BY <1>2, LenProperties, Zenon
  <2>3. Len(InFlight(d)) = x + y /\ \A k \in 1 .. y : InFlight(d)[x + k] = q[d][k]
    BY InFlightIs, Zenon
  <2>4. Flight(d) = 1 .. x + y /\ Flight(d)' = 1 .. y /\ Len(InFlight(d)') = y
    BY <1>4, <2>3, Zenon DEF Flight
  <2>5. y' = y
    BY <1>0
  <2> QED
    BY <2>1, <2>2, <2>3, <2>4, <2>5, Zenon
<1>6. \A e \in Dest \ {d} : Flight(e)' = Flight(e)
  BY <1>4 DEF Flight
<1> HIDE DEF x, y
<1>7. ASSUME NEW e \in Dest, NEW k \in Flight(e)'
      PROVE  /\ old(e, k) \in Flight(e) /\ InFlight(e)'[k] = InFlight(e)[old(e, k)]
             /\ e = d => old(e, k) # 1
             /\ Len(InFlight(e))' - k = Len(InFlight(e)) - old(e, k)
  <2>1. CASE e = d
    <3>1. k \in 1 .. y /\ old(e, k) = x + k
      BY <1>5, <2>1, <1>7
    <3>2. x + k \in 1 .. x + y /\ x + k # 1 /\ (x + y) - (x + k) = y - k
      BY <1>5, <3>1, Shifted
    <3>3. q[d][k] = InFlight(d)[x + k]
      BY <1>5, <3>1
    <3> QED
      BY <1>4, <1>5, <2>1, <3>1, <3>2, <3>3, Zenon
  <2>2. CASE e # d
    <3>1. k \in Flight(e) /\ old(e, k) = k
      BY <1>6, <1>7, <2>2
    <3> QED
      BY <1>4, <2>2, <3>1
  <2> QED
    BY <2>1, <2>2
<1> HIDE DEF old
<1>8. 1 \in Flight(d) /\ hold[d][1] = InFlight(d)[1] /\ hold[d][1] \in Index
  BY HeldAre
<1>9. ASSUME NEW e \in Dest, NEW k \in Flight(e)'
      PROVE  /\ pool'[InFlight(e)'[k]] = pool[InFlight(e)[old(e, k)]]
             /\ KindOf(e, k)' = KindOf(e, old(e, k))
  <2>1. InFlight(e)[old(e, k)] \in Index /\ InFlight(e)[old(e, k)] # hold[d][1]
    <3>1. InFlight(e)[old(e, k)] = InFlight(d)[1] => e = d /\ old(e, k) = 1
      <4>1. old(e, k) \in Flight(e) /\ 1 \in Flight(d)
        BY <1>7, <1>8, <1>9
      <4> QED
        BY <4>1, NoReuse
    <3>2. InFlight(e)[old(e, k)] \in Index
      BY <1>7, InFlightIs
    <3> QED
      BY <1>7, <1>8, <3>1, <3>2
  <2> QED
    BY <1>7, <2>1 DEF KindOf
<1>10. ASSUME NEW e \in Dest PROVE FlightFramed(e)'
  <2>1. CASE e # d
    <3>1. \A k \in Flight(e) : KindOf(e, k)' = KindOf(e, k)
      BY <1>6, <1>9, <2>1 DEF old
    <3>2. Flight(e)' = Flight(e) /\ InFlight(e)' = InFlight(e) /\ (Expects(e)' <=> Expects(e))
      BY <1>0, <1>4, <1>6, <2>1 DEF Expects
    <3>3. InFlight(e) \in Seq(Index)
      BY InFlightIs
    <3>4. FlightFramed(e)
      BY DEF PoolInv
    <3> QED
      BY <3>1, <3>2, <3>3, <3>4 DEF FlightFramed, Flight
  <2>2. CASE e = d
    <3>1. \A k \in 1 .. y : KindOf(d, k)' = KindOf(d, x + k)
      BY <1>5, <1>9, Zenon DEF old
    <3>2. KindOf(d, x) # "pair"
      BY HeldAre, Zenon DEF x
    <3>3. /\ \A k \in 1 .. x + y :
               /\ KindOf(d, k) = "shadow" => k > 1 /\ KindOf(d, k - 1) = "pair"
               /\ KindOf(d, k) = "pair" /\ k < x + y => KindOf(d, k + 1) = "shadow"
          /\ Expects(d) <=> x + y > 0 /\ KindOf(d, x + y) = "pair"
      BY <1>5, Zenon DEF PoolInv, FlightFramed
    <3>4. ASSUME NEW k \in 1 .. y, KindOf(d, k)' = "shadow"
          PROVE  k > 1 /\ KindOf(d, k - 1)' = "pair"
      <4>1. x + k \in 1 .. x + y /\ KindOf(d, x + k) = "shadow"
        BY <1>5, <3>1, <3>4, Shifted
      <4>2. KindOf(d, x + (k - 1)) = "pair"
        <5>1. KindOf(d, (x + k) - 1) = "pair"
          BY <3>3, <4>1, Zenon
        <5> QED
          BY <1>5, <5>1, Shifted
      <4>3. k # 1
        BY <1>5, <3>2, <4>2, Shifted
      <4>4. k > 1
        BY <1>5, <4>3
      <4>5. k - 1 \in 1 .. y
        BY <1>5, <4>4
      <4> QED
        BY <3>1, <4>2, <4>4, <4>5, Zenon
    <3>5. ASSUME NEW k \in 1 .. y, KindOf(d, k)' = "pair", k < y
          PROVE  KindOf(d, k + 1)' = "shadow"
      <4>1. /\ x + k \in 1 .. x + y /\ x + k < x + y /\ KindOf(d, x + k) = "pair"
            /\ (x + k) + 1 = x + (k + 1) /\ k + 1 \in 1 .. y
        BY <1>5, <3>1, <3>5, Shifted
      <4>2. KindOf(d, (x + k) + 1) = "shadow"
        BY <3>3, <4>1, Zenon
      <4> QED
        BY <3>1, <4>1, <4>2
    <3>6. Expects(d)' <=> y > 0 /\ KindOf(d, y)' = "pair"
      <4>1. Expects(d)' <=> Expects(d)
        BY <1>0 DEF Expects
      <4>2. CASE y = 0
        BY <1>5, <3>2, <3>3, <4>1, <4>2, Shifted
      <4>3. CASE y # 0
        <5>1. y > 0 /\ y \in 1 .. y /\ x + y > 0
          BY <1>5, <4>3
        <5>2. KindOf(d, y)' = KindOf(d, x + y)
          BY <1>5, <3>1, <5>1
        <5> QED
          BY <3>3, <4>1, <5>1, <5>2
      <4> QED
        BY <4>2, <4>3
    <3>7. /\ \A k \in 1 .. y :
               /\ KindOf(d, k)' = "shadow" => k > 1 /\ KindOf(d, k - 1)' = "pair"
               /\ KindOf(d, k)' = "pair" /\ k < y => KindOf(d, k + 1)' = "shadow"
          /\ Expects(d)' <=> y > 0 /\ KindOf(d, y)' = "pair"
      BY <3>4, <3>5, <3>6, Zenon
    <3>8. FlightFramed(d)'
      BY <1>5, <3>7, Zenon DEF FlightFramed
    <3> QED
      BY <2>2, <3>8
  <2> QED
    BY <2>1, <2>2
<1>11. ASSUME NEW e \in Dest PROVE ReceiverAt(e)'
  <2>1. CASE e = d
    <3>1. Len(q[d]) <= Window
      BY DEF PoolInv, ReceiverAt
    <3>2. rpc'[e] = "idle" /\ Len(hold'[e]) = 0 /\ q'[e] = q[d]
      BY <1>0, <1>3, <2>1
    <3> QED
      BY <3>1, <3>2 DEF ReceiverAt
  <2>2. CASE e # d
    <3>1. \A k \in Flight(e) : KindOf(e, k)' = KindOf(e, k)
      BY <1>6, <1>9, <2>2 DEF old
    <3>2. hold'[e] = hold[e] /\ rpc'[e] = rpc[e] /\ q'[e] = q[e]
      BY <1>0, <1>3, <2>2
    <3>3. Len(hold[e]) = 1 \/ Len(hold[e]) = 2 => 1 \in Flight(e)
      <4> SUFFICES ASSUME Len(hold[e]) = 1 \/ Len(hold[e]) = 2 PROVE 1 \in Flight(e)
        OBVIOUS
      <4>1. Len(hold[e]) \in 1 .. 2 /\ Len(q[e]) \in Nat /\ Len(InFlight(e)) = Len(hold[e]) + Len(q[e])
        BY OneOrTwo, LenProperties, InFlightIs, Zenon
      <4>2. \A u \in 1 .. 2, v \in Nat : 1 \in 1 .. u + v
        OBVIOUS
      <4> QED
        BY <4>1, <4>2, Zenon DEF Flight
    <3> QED
      BY <3>1, <3>2, <3>3, Zenon DEF PoolInv, ReceiverAt
  <2> QED
    BY <2>1, <2>2
<1>12. PtrsSet'
  BY <1>1, <1>7, <1>9 DEF PoolInv, PtrsSet
<1>13. NoReuseInFlight'
  <2>1. ASSUME NEW e \in Dest, NEW f \in Dest, NEW i \in Flight(e)', NEW j \in Flight(f)',
               InFlight(e)'[i] = InFlight(f)'[j]
        PROVE  e = f /\ i = j
    <3>1. e = f /\ old(e, i) = old(f, j)
      <4>1. /\ old(e, i) \in Flight(e) /\ old(f, j) \in Flight(f)
            /\ InFlight(e)[old(e, i)] = InFlight(f)[old(f, j)]
        BY <1>7, <2>1
      <4> QED
        BY <4>1, NoReuse
    <3>2. CASE e = d
      BY <1>5, <3>1, <3>2, Shifted DEF old
    <3>3. CASE e # d
      BY <3>1, <3>3 DEF old
    <3> QED
      BY <3>1, <3>2, <3>3
  <2> QED
    BY <2>1, Zenon DEF NoReuseInFlight, Flight
<1>14. ASSUME Large PROVE Ordered'
  <2>0. Ordered
    BY <1>14 DEF PoolInv
  <2>1. ASSUME NEW e \in Dest, NEW k \in Flight(e)'
        PROVE  InFlight(e)'[k] = Before(cur, Age(e, k))'
    <3>1. Age(e, k)' = Age(e, old(e, k))
      BY <1>0, <1>7, <2>1 DEF Age, Since
    <3>2. InFlight(e)[old(e, k)] = Before(cur, Age(e, old(e, k)))
      BY <1>7, <2>0, <2>1 DEF Ordered
    <3>3. Before(cur, Age(e, k))' = Before(cur, Age(e, old(e, k)))
      BY <1>0, <3>1 DEF Before
    <3> QED
      BY <1>7, <2>1, <3>2, <3>3
  <2> QED
    BY <1>0, <1>1, <2>0, <2>1 DEF Ordered
<1>16. ASSUME of.released PROVE NoPacketLost'
  <2>1. ASSUME NEW n \in Index, pool'[n].ptr
        PROVE  \E e \in Dest : \E k \in Flight(e)' : n = InFlight(e)'[k]
    <3>1. n # hold[d][1] /\ pool[n].ptr
      <4>1. n # hold[d][1]
        BY <1>16, <2>1
      <4> QED
        BY <2>1, <4>1
    <3> PICK e \in Dest : \E k \in Flight(e) : n = InFlight(e)[k]
      BY <1>16, <2>1, <3>1, Zenon DEF PoolInv, NoPacketLost, IsAvailable, Flight
    <3> PICK k \in Flight(e) : n = InFlight(e)[k]
      OBVIOUS
    <3>2. CASE e # d
      BY <1>4, <1>6, <3>2
    <3>3. CASE e = d
      <4>1. k # 1
        BY <1>8, <3>1, <3>3
      <4>2. k # x
        <5> SUFFICES ASSUME k = x PROVE FALSE
          OBVIOUS
        <5>1. x = 2
          BY <1>5, <4>1
        <5>2. KindOf(d, 2) = "shadow" /\ 2 \in Flight(d)
          BY <5>1, HeldAre DEF x
        <5>3. ~ pool[InFlight(d)[2]].ptr
          BY <5>2 DEF PoolInv, PtrsSet
        <5> QED
          BY <3>1, <3>3, <5>1, <5>3
      <4>3. PICK j \in 1 .. y : k = x + j
        <5>1. k \in 1 .. x + y
          BY <1>5, <3>3
        <5> QED
          BY <1>5, <4>1, <4>2, <5>1, Shifted
      <4>4. j \in Flight(d)' /\ old(d, j) = k
        BY <1>5, <4>3 DEF old
      <4> QED
        BY <1>7, <3>3, <4>4
    <3> QED
      BY <3>2, <3>3
  <2> QED
    BY <1>1, <2>1 DEF NoPacketLost, IsAvailable, Flight
<1>15. TypeOK'
  <2>1. hold' \in [Dest -> Seq(Index)] /\ rpc' \in [Dest -> {"idle", "shadow", "use"}]
    <3>1. <<>> \in Seq(Index)
      BY EmptySeq
    <3> QED
      BY <1>2, <3>1
  <2> QED
    BY <1>0, <1>1, <2>1 DEF PoolInv, TypeOK
<1>17. NoPacketLost'
  BY <1>0, <1>16 DEF NoPacketLost
<1> QED
  BY <1>0, <1>1, <1>10, <1>11, <1>12, <1>13, <1>14, <1>15, <1>17 DEF PoolInv

LEMMA MarkConsumedKeeps ==
  ASSUME PoolInv, NEW d \in Dest, MarkConsumed(d)
  PROVE  PoolInv'
<1>1. /\ rpc[d] = "use"
      /\ pool' = [pool EXCEPT ![hold[d][1]].ptr = FALSE]
      /\ hold' = [hold EXCEPT ![d] = <<>>] /\ rpc' = [rpc EXCEPT ![d] = "idle"]
      /\ UNCHANGED <<of, sender, q>>
  BY DEF MarkConsumed
<1>2. hold[d][1] \in Index /\ pool \in [Index -> [ptr : BOOLEAN, kind : Kind]]
  BY <1>1, HeldAre DEF PoolInv, TypeOK
<1>3. /\ pool' \in [Index -> [ptr : BOOLEAN, kind : Kind]]
      /\ \A n \in Index : pool'[n].kind = pool[n].kind
      /\ \A n \in Index \ {hold[d][1]} : pool'[n] = pool[n]
      /\ ~ pool'[hold[d][1]].ptr
  BY <1>1, <1>2
<1> QED
  BY <1>1, <1>3, ReleaseKeeps

LEMMA DoneWithAllocKeeps ==
  ASSUME PoolInv, NEW d \in Dest, DoneWithAlloc(d)
  PROVE  PoolInv'
<1>1. /\ rpc[d] = "use" /\ ~of.released
      /\ hold' = [hold EXCEPT ![d] = <<>>] /\ rpc' = [rpc EXCEPT ![d] = "idle"]
      /\ UNCHANGED <<of, sender, q>> /\ pool' = pool
  BY DEF DoneWithAlloc
<1>2. pool' \in [Index -> [ptr : BOOLEAN, kind : Kind]]
  BY <1>1 DEF PoolInv, TypeOK
<1> QED
  BY <1>1, <1>2, ReleaseKeeps

-----------------------------------------------------------------------------
(* A packet is handed out and sent *)

(* What remains of a message, and who is sent the next packet *)
LEMMA Progress ==
  ASSUME PoolInv, SendAvailable
  PROVE  /\ todo' \in {<<>>, <<"shadow">>} \cup of.messages /\ dest' \in Dest
         /\ todo' = <<>> => dest' = 1
         /\ Singles => todo' # <<"shadow">>
         /\ Head(todo) \in Kind /\ (Singles => Head(todo) = "single")
         /\ \A e \in Dest \ {dest} : (Expects(e)' <=> Expects(e)) /\ Since(e)' = Since(e) + 1
         /\ Expects(dest) <=> Head(todo) = "shadow"
         /\ Since(dest) = NumDest
         /\ \A e \in Dest : e = dest => (Expects(e)' <=> Head(todo) = "pair") /\ Since(e)' = 1
<1>1. /\ todo # <<>>
      /\ \/ dest < NumDest /\ dest' = dest + 1 /\ todo' = todo
         \/ ~(dest < NumDest) /\ dest' = 1 /\ todo' = Tail(todo)
      /\ todo \in {<<"shadow">>} \cup of.messages
  BY DEF SendAvailable, PoolInv, TypeOK
<1>2. NumDest \in Nat \ {0} /\ dest \in 1 .. NumDest
  BY Facts DEF Dest
<1>3. /\ dest' \in Dest
      /\ \A e \in Dest \ {dest} : Since(e)' = Since(e) + 1
      /\ Since(dest) = NumDest
      /\ \A e \in Dest : e = dest => Since(e)' = 1
  BY <1>1, <1>2 DEF Dest, Since
<1>4. \/ todo = <<"shadow">> /\ ~Singles
      \/ todo = <<"single">> /\ <<"single">> \in of.messages
      \/ todo = <<"pair", "shadow">> /\ <<"pair", "shadow">> \in of.messages /\ ~Singles
  BY <1>1, Facts, Messages DEF PoolInv, Singles
<1>5. /\ \A e \in Dest \ {dest} : Expects(e)' <=> Expects(e)
      /\ Expects(dest) <=> Head(todo) = "shadow"
      /\ \A e \in Dest : e = dest => (Expects(e)' <=> Head(todo) = "pair")
  <2>1. CASE todo = <<"shadow">>
    <3>1. /\ Head(todo) = "shadow" /\ todo # <<"pair", "shadow">>
          /\ \/ dest < NumDest /\ dest' = dest + 1 /\ todo' = <<"shadow">>
             \/ dest = NumDest /\ dest' = 1 /\ todo' = <<>>
      BY <1>1, <1>2, <2>1, Messages
    <3>2. \A e \in Dest : Expects(e) <=> e >= dest
      BY <2>1, <3>1 DEF Expects
    <3>3. \A e \in Dest : Expects(e)' <=> e > dest
      BY <1>2, <3>1, Messages DEF Expects, Dest
    <3> QED
      BY <1>2, <3>1, <3>2, <3>3 DEF Dest
  <2>2. CASE todo = <<"single">>
    <3>1. /\ Head(todo) = "single"
          /\ todo' \in {<<>>, <<"single">>}
      BY <1>1, <2>2, Messages
    <3>2. \A e \in Dest : ~Expects(e) /\ ~Expects(e)'
      BY <2>2, <3>1, Messages DEF Expects
    <3> QED
      BY <1>2, <3>1, <3>2 DEF Dest
  <2>3. CASE todo = <<"pair", "shadow">>
    <3>1. /\ Head(todo) = "pair" /\ todo # <<"shadow">>
          /\ \/ dest < NumDest /\ dest' = dest + 1 /\ todo' = <<"pair", "shadow">>
             \/ dest = NumDest /\ dest' = 1 /\ todo' = <<"shadow">>
      BY <1>1, <1>2, <2>3, Messages
    <3>2. \A e \in Dest : Expects(e) <=> e < dest
      BY <2>3, <3>1 DEF Expects
    <3>3. \A e \in Dest : Expects(e)' <=> e <= dest
      BY <1>2, <3>1, Messages DEF Expects, Dest
    <3> QED
      BY <1>2, <3>1, <3>2, <3>3 DEF Dest
  <2> QED
    BY <1>4, <2>1, <2>2, <2>3
<1>6. /\ todo' \in {<<>>, <<"shadow">>} \cup of.messages
      /\ todo' = <<>> => dest' = 1
      /\ Singles => todo' # <<"shadow">>
      /\ Head(todo) \in Kind /\ (Singles => Head(todo) = "single")
  <2>1. todo' = todo \/ (dest' = 1 /\ todo' = Tail(todo))
    BY <1>1
  <2>2. todo' = Tail(todo) => todo' \in {<<>>, <<"shadow">>} /\ (Singles => todo' = <<>>)
    BY <1>4, Messages
  <2>3. Head(todo) \in Kind /\ (Singles => Head(todo) = "single")
    BY <1>4, Messages DEF Kind
  <2> QED
    BY <1>1, <1>4, <2>1, <2>2, <2>3, Messages
<1> QED
  BY <1>3, <1>5, <1>6

LEMMA SendKeeps == PoolInv /\ SendAvailable => PoolInv'
<1> SUFFICES ASSUME PoolInv, SendAvailable PROVE PoolInv'
  OBVIOUS
<1>1. /\ todo # <<>> /\ IsAvailable(cur) /\ Len(q[dest]) < Window
      /\ pool' = [pool EXCEPT ![cur] = [ptr |-> Head(todo) # "shadow", kind |-> Head(todo)]]
      /\ q' = [q EXCEPT ![dest] = Append(q[dest], cur)]
      /\ next' = Behind(cur) /\ cur' = Behind(cur)
      /\ UNCHANGED <<of, sent, rpc, hold>>
  BY DEF SendAvailable, NextAfter
<1>2. Index' = Index /\ (Singles' <=> Singles) /\ (Large' <=> Large)
  BY <1>1 DEF Index, Singles, Large
<1>3. /\ pool \in [Index -> [ptr : BOOLEAN, kind : Kind]]
      /\ q \in [Dest -> Seq(Index)] /\ hold \in [Dest -> Seq(Index)]
      /\ cur \in Index /\ dest \in Dest /\ Head(todo) \in Kind
  BY Facts, Progress DEF PoolInv, TypeOK
<1>4. /\ pool'[cur].ptr = (Head(todo) # "shadow") /\ pool'[cur].kind = Head(todo)
      /\ \A n \in Index \ {cur} : pool'[n] = pool[n]
      /\ pool' \in [Index -> [ptr : BOOLEAN, kind : Kind]]
  BY <1>1, <1>3
<1>5. /\ InFlight(dest) \in Seq(Index) /\ Len(InFlight(dest)) \in Nat
      /\ q'[dest] = Append(q[dest], cur) /\ \A e \in Dest \ {dest} : q'[e] = q[e]
      /\ q[dest] \in Seq(Index) /\ hold[dest] \in Seq(Index)
  <2>1. InFlight(dest) \in Seq(Index) /\ q[dest] \in Seq(Index) /\ hold[dest] \in Seq(Index)
    BY <1>3, InFlightIs
  <2>2. Len(InFlight(dest)) \in Nat
    BY <2>1, LenProperties, Zenon
  <2>3. q'[dest] = Append(q[dest], cur) /\ \A e \in Dest \ {dest} : q'[e] = q[e]
    BY <1>1, <1>3
  <2> QED
    BY <2>1, <2>2, <2>3, Zenon
<1>6. /\ \A e \in Dest : e = dest => InFlight(e)' = Append(InFlight(dest), cur)
      /\ \A e \in Dest \ {dest} : InFlight(e)' = InFlight(e)
  <2>1. hold[dest] \o Append(q[dest], cur) = Append(hold[dest] \o q[dest], cur)
    BY <1>3, <1>5, CatAppend
  <2> QED
    BY <1>1, <1>5, <2>1 DEF InFlight
<1> PICK L \in Nat : L = Len(InFlight(dest))
  BY <1>5
<1>7. ASSUME NEW e \in Dest, NEW k \in Flight(e)
      PROVE  /\ k \in Flight(e)' /\ InFlight(e)'[k] = InFlight(e)[k]
             /\ InFlight(e)[k] # cur /\ InFlight(e)[k] \in Index
             /\ pool'[InFlight(e)'[k]] = pool[InFlight(e)[k]]
             /\ KindOf(e, k)' = KindOf(e, k)
  <2>1. /\ InFlight(e)[k] # cur /\ InFlight(e)[k] \in Index
    BY <1>1, <1>7, AvailableIsFree, InFlightIs
  <2>2. k \in Flight(e)' /\ InFlight(e)'[k] = InFlight(e)[k]
    <3>1. CASE e # dest
      BY <1>6, <1>7, <3>1 DEF Flight
    <3>2. CASE e = dest
      <4>1. InFlight(e)' = Append(InFlight(e), cur)
        BY <1>6, <3>2
      <4>2. InFlight(e) \in Seq(Index) /\ cur \in Index
        BY <1>3, InFlightIs
      <4>3. /\ Len(InFlight(e)) \in Nat /\ Len(InFlight(e)') = Len(InFlight(e)) + 1
            /\ \A i \in 1 .. Len(InFlight(e)) : InFlight(e)'[i] = InFlight(e)[i]
        <5>1. /\ Len(InFlight(e)) \in Nat
              /\ Len(Append(InFlight(e), cur)) = Len(InFlight(e)) + 1
              /\ \A i \in 1 .. Len(InFlight(e)) : Append(InFlight(e), cur)[i] = InFlight(e)[i]
          BY <4>2, AppendProperties, LenProperties
        <5> QED
          BY <4>1, <5>1
      <4> QED
        BY <1>7, <4>3 DEF Flight
    <3> QED
      BY <3>1, <3>2
  <2> QED
    BY <1>4, <2>1, <2>2 DEF KindOf
<1>8. ASSUME NEW e \in Dest, e = dest
      PROVE  /\ Flight(e)' = 1 .. L + 1 /\ Len(InFlight(e)') = L + 1
             /\ Flight(e) = 1 .. L /\ Len(InFlight(e)) = L
             /\ InFlight(e)'[L + 1] = cur /\ L + 1 \in Flight(e)'
             /\ KindOf(e, L + 1)' = Head(todo)
  <2>1. InFlight(e)' = Append(InFlight(e), cur) /\ Len(InFlight(e)) = L
    BY <1>6, <1>8
  <2>2. InFlight(e) \in Seq(Index) /\ cur \in Index
    BY <1>3, InFlightIs
  <2>3. Len(InFlight(e)') = Len(InFlight(e)) + 1
        /\ InFlight(e)'[Len(InFlight(e)) + 1] = cur
    <3>1. /\ Len(Append(InFlight(e), cur)) = Len(InFlight(e)) + 1
          /\ Append(InFlight(e), cur)[Len(InFlight(e)) + 1] = cur
      BY <2>2, AppendProperties
    <3> QED
      BY <1>6, <1>8, <3>1
  <2>4. Len(InFlight(e)') = L + 1 /\ InFlight(e)'[L + 1] = cur
    BY <2>1, <2>3
  <2> QED
    BY <1>4, <2>1, <2>4 DEF Flight, KindOf
<1>9. ASSUME NEW e \in Dest, NEW k \in Flight(e)', k \notin Flight(e)
      PROVE  e = dest /\ k = L + 1
  <2>1. CASE e # dest
    BY <1>6, <1>9, <2>1 DEF Flight
  <2>2. CASE e = dest
    BY <1>8, <1>9, <2>2
  <2> QED
    BY <2>1, <2>2
<1>10. ASSUME NEW e \in Dest PROVE FlightFramed(e)'
  <2>0. FlightFramed(e) /\ InFlight(e) \in Seq(Index)
    BY InFlightIs DEF PoolInv
  <2>1. CASE e # dest
    <3>1. Flight(e)' = Flight(e) /\ InFlight(e)' = InFlight(e) /\ (Expects(e)' <=> Expects(e))
      BY <1>6, <2>1, Progress DEF Flight
    <3> QED
      BY <1>7, <2>0, <3>1 DEF FlightFramed, Flight
  <2>2. CASE e = dest
    <3>1. /\ \A k \in 1 .. L : KindOf(e, k)' = KindOf(e, k)
          /\ KindOf(e, L + 1)' = Head(todo)
          /\ Flight(e) = 1 .. L /\ Flight(e)' = 1 .. L + 1 /\ Len(InFlight(e)') = L + 1
          /\ Len(InFlight(e)) = L
      BY <1>7, <1>8, <2>2
    <3>2. /\ \A k \in 1 .. L :
               /\ KindOf(e, k) = "shadow" => k > 1 /\ KindOf(e, k - 1) = "pair"
               /\ KindOf(e, k) = "pair" /\ k < L => KindOf(e, k + 1) = "shadow"
          /\ Expects(e) <=> L > 0 /\ KindOf(e, L) = "pair"
      BY <2>0, <3>1, Zenon DEF FlightFramed
    <3>3. (Expects(e) <=> Head(todo) = "shadow") /\ (Expects(e)' <=> Head(todo) = "pair")
      BY <2>2, Progress
    <3>4. ASSUME NEW k \in 1 .. L + 1, KindOf(e, k)' = "shadow"
          PROVE  k > 1 /\ KindOf(e, k - 1)' = "pair"
      <4>1. CASE k = L + 1
        <5>1. L > 0 /\ KindOf(e, L) = "pair"
          BY <3>1, <3>2, <3>3, <3>4, <4>1
        <5> QED
          BY <3>1, <4>1, <5>1
      <4>2. CASE k # L + 1
        <5>1. k \in 1 .. L
          BY <4>2
        <5>2. k > 1 /\ KindOf(e, k - 1) = "pair"
          BY <3>1, <3>2, <3>4, <5>1
        <5>3. k - 1 \in 1 .. L
          BY <5>1, <5>2
        <5> QED
          BY <3>1, <5>2, <5>3
      <4> QED
        BY <4>1, <4>2
    <3>5. ASSUME NEW k \in 1 .. L + 1, KindOf(e, k)' = "pair", k < L + 1
          PROVE  KindOf(e, k + 1)' = "shadow"
      <4>1. k \in 1 .. L /\ KindOf(e, k) = "pair"
        BY <3>1, <3>5
      <4>2. CASE k = L
        BY <3>1, <3>2, <3>3, <4>1, <4>2
      <4>3. CASE k # L
        <5>1. k < L /\ k + 1 \in 1 .. L
          BY <4>1, <4>3
        <5> QED
          BY <3>1, <3>2, <4>1, <5>1
      <4> QED
        BY <4>2, <4>3
    <3>6. L + 1 > 0
      OBVIOUS
    <3>7. Expects(e)' <=> Len(InFlight(e)') > 0 /\ KindOf(e, Len(InFlight(e)))' = "pair"
      BY <3>1, <3>3, <3>6, Zenon
    <3> QED
      BY <3>1, <3>4, <3>5, <3>7, Zenon DEF FlightFramed
  <2> QED
    BY <2>1, <2>2
<1>11. ASSUME NEW e \in Dest PROVE ReceiverAt(e)'
  <2>1. Len(q'[e]) <= Window
    <3>1. CASE e # dest
      BY <1>5, <3>1 DEF PoolInv, ReceiverAt
    <3>2. CASE e = dest
      <4>1. Len(q'[e]) = Len(q[e]) + 1 /\ Len(q[e]) \in Nat /\ Len(q[e]) < Window
        <5>1. Len(Append(q[dest], cur)) = Len(q[dest]) + 1 /\ Len(q[dest]) \in Nat
          BY <1>3, <1>5, AppendProperties, LenProperties
        <5> QED
          BY <1>1, <1>5, <3>2, <5>1
      <4> QED
        BY <4>1, Facts
    <3> QED
      BY <3>1, <3>2
  <2>2. Len(hold[e]) = 1 \/ Len(hold[e]) = 2 => KindOf(e, 1)' = KindOf(e, 1)
    <3> SUFFICES ASSUME Len(hold[e]) = 1 \/ Len(hold[e]) = 2 PROVE 1 \in Flight(e)
      BY <1>7
    <3>1. Len(hold[e]) \in 1 .. 2 /\ Len(q[e]) \in Nat /\ Len(InFlight(e)) = Len(hold[e]) + Len(q[e])
      BY OneOrTwo, LenProperties, InFlightIs, Zenon
    <3>2. \A u \in 1 .. 2, v \in Nat : 1 \in 1 .. u + v
      OBVIOUS
    <3> QED
      BY <3>1, <3>2, Zenon DEF Flight
  <2>3. hold'[e] = hold[e] /\ rpc'[e] = rpc[e]
    BY <1>1
  <2> QED
    BY <2>1, <2>2, <2>3, Zenon DEF PoolInv, ReceiverAt
<1>12. PtrsSet'
  <2> SUFFICES ASSUME NEW e \in Dest, NEW k \in Flight(e)'
               PROVE  /\ pool'[InFlight(e)'[k]].ptr <=> KindOf(e, k)' # "shadow"
                      /\ Singles => KindOf(e, k)' = "single"
    BY <1>2, Zenon DEF PtrsSet
  <2>1. CASE k \in Flight(e)
    BY <1>7, <2>1 DEF PoolInv, PtrsSet
  <2>2. CASE k \notin Flight(e)
    <3>1. e = dest /\ k = L + 1
      BY <1>9, <2>2
    <3>2. InFlight(e)'[k] = cur /\ KindOf(e, k)' = Head(todo)
      BY <1>8, <3>1
    <3> QED
      BY <1>4, <3>2, Progress
  <2> QED
    BY <2>1, <2>2
<1>13. NoReuseInFlight'
  <2>1. ASSUME NEW e \in Dest, NEW f \in Dest, NEW i \in Flight(e)', NEW j \in Flight(f)',
               InFlight(e)'[i] = InFlight(f)'[j]
        PROVE  e = f /\ i = j
    <3>1. CASE i \in Flight(e) /\ j \in Flight(f)
      <4>1. InFlight(e)[i] = InFlight(f)[j]
        BY <1>7, <2>1, <3>1
      <4> QED
        BY <3>1, <4>1, NoReuse
    <3>2. CASE i \in Flight(e) /\ j \notin Flight(f)
      BY <1>7, <1>8, <1>9, <2>1, <3>2
    <3>3. CASE i \notin Flight(e) /\ j \in Flight(f)
      BY <1>7, <1>8, <1>9, <2>1, <3>3
    <3>4. CASE i \notin Flight(e) /\ j \notin Flight(f)
      BY <1>9, <2>1, <3>4
    <3> QED
      BY <3>1, <3>2, <3>3, <3>4
  <2> QED
    BY <2>1, Zenon DEF NoReuseInFlight, Flight
<1>14. ASSUME Large PROVE Ordered'
  <2>0. Ordered /\ of' = of
    BY <1>1, <1>14 DEF PoolInv
  <2>1. \A c, n : Before(c, n)' = Before(c, n)
    BY <2>0 DEF Before
  <2>2. ASSUME NEW e \in Dest, NEW k \in Flight(e)'
        PROVE  InFlight(e)'[k] = Before(cur, Age(e, k))'
    <3>1. Before(cur, Age(e, k))' = Before(Behind(cur), Age(e, k)')
      BY <1>1, <2>0 DEF Before
    <3>2. CASE k \in Flight(e)
      <4>1. Age(e, k)' = Age(e, k) + 1
        <5> PICK n \in Nat : n = Len(InFlight(e)) - k
          <6>1. InFlight(e) \in Seq(Index)
            BY InFlightIs
          <6>2. Len(InFlight(e)) - k \in Nat
            BY <3>2, <6>1 DEF Flight
          <6> QED
            BY <6>2
        <5>1. /\ Rounds(n) \in Nat /\ Rounds(n + 1) = Rounds(n) + NumDest
              /\ Since(e) \in 1 .. NumDest /\ NumDest \in Nat
          BY RoundsAre, SinceRange, Facts
        <5>2. Age(e, k) = Since(e) + Rounds(n)
          BY DEF Age
        <5>3. CASE e # dest
          <6>1. InFlight(e)' = InFlight(e)
            BY <1>6, <5>3
          <6>2. Age(e, k)' = Since(e)' + Rounds(n)
            BY <6>1 DEF Age, Rounds
          <6>3. Since(e)' = Since(e) + 1
            BY <5>3, Progress
          <6> QED
            BY <5>1, <5>2, <6>2, <6>3
        <5>4. CASE e = dest
          <6>1. Len(InFlight(e)') - k = n + 1
            <7>1. Len(InFlight(e)') = L + 1 /\ Len(InFlight(e)) = L /\ Flight(e) = 1 .. L
              BY <1>8, <5>4
            <7> QED
              BY <3>2, <7>1
          <6>2. Since(e)' = 1 /\ Since(e) = NumDest
            BY <5>4, Progress
          <6>3. Age(e, k)' = 1 + Rounds(n + 1)
            BY <6>1, <6>2 DEF Age, Rounds
          <6> QED
            BY <5>1, <5>2, <6>2, <6>3
        <5> QED
          BY <5>3, <5>4
      <4>2. /\ Age(e, k) \in 1 .. of.size - 1
            /\ Before(Behind(cur), Age(e, k) + 1) = Before(cur, Age(e, k))
        BY <1>3, <1>14, <3>2, LargeAges, BeforeIs
      <4>3. InFlight(e)[k] = Before(cur, Age(e, k))
        BY <2>0, <3>2 DEF Ordered
      <4> QED
        BY <1>7, <3>1, <3>2, <4>1, <4>2, <4>3
    <3>3. CASE k \notin Flight(e)
      <4>1. e = dest /\ k = L + 1
        BY <1>9, <2>2, <3>3
      <4>2. InFlight(e)'[k] = cur
        BY <1>8, <4>1
      <4>3. Age(e, k)' = 1
        <5>1. Len(InFlight(e)') - k = 0 /\ Since(e)' = 1
          BY <1>8, <4>1, Progress
        <5>2. Rounds(0) = 0
          BY RoundsAre
        <5> QED
          BY <5>1, <5>2 DEF Age, Rounds
      <4> QED
        BY <1>3, <3>1, <4>2, <4>3, BehindIs
    <3> QED
      BY <3>2, <3>3
  <2> QED
    BY <1>1, <1>2, <2>2, Zenon DEF Ordered
<1>16. ASSUME of.released PROVE NoPacketLost'
  <2>1. ASSUME NEW n \in Index, pool'[n].ptr
        PROVE  \E e \in Dest : \E k \in Flight(e)' : n = InFlight(e)'[k]
    <3>1. CASE n = cur
      <4>1. \A e \in Dest : e = dest => L + 1 \in Flight(e)' /\ InFlight(e)'[L + 1] = cur
        BY <1>8
      <4> QED
        BY <1>3, <3>1, <4>1
    <3>2. CASE n # cur
      <4>1. pool[n].ptr
        BY <1>4, <2>1, <3>2
      <4>2. PICK e \in Dest : \E k \in Flight(e) : n = InFlight(e)[k]
        BY <1>16, <2>1, <4>1, Zenon DEF PoolInv, NoPacketLost, IsAvailable, Flight
      <4>3. PICK k \in Flight(e) : n = InFlight(e)[k]
        BY <4>2
      <4> QED
        BY <1>7, <4>3
    <3> QED
      BY <3>1, <3>2
  <2> QED
    BY <1>2, <2>1 DEF NoPacketLost, IsAvailable, Flight
<1>17. NoPacketLost'
  BY <1>1, <1>16 DEF NoPacketLost
<1>15. TypeOK'
  <2>1. q' \in [Dest -> Seq(Index)]
    BY <1>1, <1>3, <1>5, AppendProperties
  <2>2. cur' \in Index /\ next' \in Index
    BY <1>1, <1>3, BehindIs
  <2> QED
    BY <1>1, <1>2, <1>4, <2>1, <2>2, Progress DEF PoolInv, TypeOK
<1> QED
  BY <1>2, <1>10, <1>11, <1>12, <1>13, <1>14, <1>15, <1>17, Progress DEF PoolInv
-----------------------------------------------------------------------------
LEMMA InitHolds == Init => PoolInv
<1> SUFFICES ASSUME Init PROVE PoolInv
  OBVIOUS
<1>1. /\ NumDest \in Nat \ {0} /\ Window \in Nat /\ of.size \in Nat \ {0} /\ of \in Pools
      /\ of.most \in Nat
  BY PoolAssumption DEF PoolAssumption, Init
<1>2. \A d \in Dest : /\ hold[d] = <<>> /\ q[d] = <<>> /\ rpc[d] = "idle"
                      /\ InFlight(d) = <<>> /\ Len(InFlight(d)) = 0 /\ Flight(d) = {}
                      /\ ~Expects(d)
  <2>1. <<>> \o <<>> = <<>> /\ Len(<<>>) = 0 /\ <<>> # <<"shadow">> /\ <<>> # <<"pair", "shadow">>
    BY Messages
  <2>2. todo = <<>>
    BY DEF Init
  <2>3. \A d \in Dest : hold[d] = <<>> /\ q[d] = <<>> /\ rpc[d] = "idle"
    BY DEF Init
  <2>4. \A d \in Dest : InFlight(d) = <<>>
    BY <2>1, <2>3 DEF InFlight
  <2>5. \A d \in Dest : Len(InFlight(d)) = 0
    BY <2>1, <2>4
  <2>6. \A d \in Dest : Flight(d) = {}
    BY <2>5 DEF Flight
  <2>7. \A d \in Dest : ~Expects(d)
    BY <2>1, <2>2 DEF Expects
  <2> QED
    BY <2>3, <2>4, <2>5, <2>6, <2>7
<1>3. TypeOK
  <2>1. 0 \in Index /\ 1 \in Dest /\ "single" \in Kind /\ 0 \in 0 .. of.most
    BY <1>1 DEF Index, Dest, Kind
  <2>2. <<>> \in Seq(Index)
    BY EmptySeq
  <2>3. [ptr |-> FALSE, kind |-> "single"] \in [ptr : BOOLEAN, kind : Kind]
    BY <2>1
  <2> QED
    BY <1>1, <2>1, <2>2, <2>3 DEF TypeOK, Init
<1>4. \A d \in Dest : FlightFramed(d) /\ ReceiverAt(d)
  <2>1. Len(<<>>) = 0 /\ 0 <= Window /\ ~(0 > 0)
    BY <1>1
  <2> QED
    BY <1>2, <2>1 DEF FlightFramed, ReceiverAt
<1>5. PtrsSet /\ NoReuseInFlight
  BY <1>2 DEF PtrsSet, NoReuseInFlight, Flight
<1>6. Ordered /\ NoPacketLost
  BY <1>2 DEF Ordered, NoPacketLost, IsAvailable, Init
<1>7. dest = 1 /\ todo # <<"shadow">>
  BY Messages DEF Init
<1> QED
  BY <1>3, <1>4, <1>5, <1>6, <1>7 DEF PoolInv

LEMMA Stutters ==
  ASSUME PoolInv, UNCHANGED vars
  PROVE  PoolInv'
<1>1. UNCHANGED <<of, sent, pool, next, cur, todo, dest, q, rpc, hold>>
  BY DEF vars, sender
<1>2. \A d \in Dest : InFlight(d)' = InFlight(d)
  BY <1>1 DEF InFlight
<1>3. \A d \in Dest : Expects(d)' <=> Expects(d)
  BY <1>1 DEF Expects
<1>4. TypeOK'
  <2>1. Index' = Index
    BY <1>1 DEF Index
  <2> QED
    BY <1>1, <2>1 DEF PoolInv, TypeOK
<1>5. \A d \in Dest : ReceiverAt(d)'
  BY <1>1, <1>2 DEF PoolInv, ReceiverAt, KindOf
<1>6. (todo' = <<>> => dest = 1) /\ (Singles => todo' # <<"shadow">>)
  BY <1>1 DEF PoolInv
<1> QED
  BY <1>1, <1>2, <1>3, <1>4, <1>5, <1>6, FlightKept

LEMMA StepKeeps == PoolInv /\ [Next]_vars => PoolInv'
<1> SUFFICES ASSUME PoolInv, [Next]_vars PROVE PoolInv'
  OBVIOUS
<1>1. CASE BeginMessage
  BY <1>1, BeginMessageKeeps
<1>2. CASE PassOver
  BY <1>2, PassOverKeeps
<1>3. CASE SendAvailable
  BY <1>3, SendKeeps
<1>4. ASSUME NEW d \in Dest, Receiver(d) PROVE PoolInv'
  BY <1>4, TakeFirstKeeps, TakeShadowKeeps, MarkConsumedKeeps, DoneWithAllocKeeps DEF Receiver
<1>5. CASE UNCHANGED vars
  BY <1>5, Stutters
<1> QED
  BY <1>1, <1>2, <1>3, <1>4, <1>5 DEF Next, GetAvailablePacket

(* The packets in flight for a destination are framed, and in a large pool *)
(* they lie in the pool in the order they were sent in.                    *)
THEOREM PoolInvariant == Spec => []PoolInv
BY InitHolds, StepKeeps, PTL DEF Spec

(* The variables keep their types. *)
THEOREM TypesKept == Spec => []TypeOK
<1>1. PoolInv => TypeOK
  BY DEF PoolInv
<1> QED
  BY <1>1, PoolInvariant, PTL

(* get_available_packet never hands out a packet that is in flight, be its *)
(* ptr null or not, when the pool has more than MostInFlight packets, or   *)
(* when no pairs are sent.                                                 *)
THEOREM PoolsAreLargeEnough == Spec => []NoReuseInFlight
<1>1. PoolInv => NoReuseInFlight
  BY DEF PoolInv
<1> QED
  BY <1>1, PoolInvariant, PTL

(* Every packet of a pool that is released is free or in flight: nothing   *)
(* the receivers and the search do loses one.                              *)
THEOREM NothingIsLost == Spec => []NoPacketLost
<1>1. PoolInv => NoPacketLost
  BY DEF PoolInv
<1> QED
  BY <1>1, PoolInvariant, PTL

(* A receiver finds the two packets of a pair as they were sent. *)
THEOREM PairsStayIntact == Spec => []PairsIntact
<1>1. PoolInv => PairsIntact
  <2> SUFFICES ASSUME PoolInv, NEW d \in Dest
               PROVE  /\ hold[d] # <<>> => pool[hold[d][1]].kind # "shadow"
                      /\ Len(hold[d]) = 2 => pool[hold[d][2]].kind = "shadow"
    BY Zenon DEF PairsIntact
  <2>1. ASSUME hold[d] # <<>> PROVE pool[hold[d][1]].kind # "shadow"
    <3>1. Len(hold[d]) \in Nat \ {0}
      BY <2>1, InFlightIs, EmptySeq
    <3>2. /\ Len(hold[d]) \in 0 .. 2 /\ Len(q[d]) \in 0 .. Window /\ Window \in Nat
          /\ Len(InFlight(d)) = Len(hold[d]) + Len(q[d])
      BY InFlightIs, Facts, Zenon
    <3>3. \A u \in Nat \ {0}, W \in Nat : \A v \in 0 .. W : 1 \in 1 .. u /\ 1 \in 1 .. u + v
      OBVIOUS
    <3>4. 1 \in 1 .. Len(hold[d]) /\ 1 \in Flight(d)
      BY <3>1, <3>2, <3>3, Zenon DEF Flight
    <3>5. KindOf(d, 1) # "shadow"
      BY <3>4 DEF PoolInv, FlightFramed
    <3>6. InFlight(d)[1] = hold[d][1]
      BY <3>4, InFlightIs, Zenon
    <3> QED
      BY <3>5, <3>6 DEF KindOf
  <2>2. ASSUME Len(hold[d]) = 2 PROVE pool[hold[d][2]].kind = "shadow"
    <3>1. rpc[d] = "use"
      <4>1. 2 # 0 /\ 2 # 1
        OBVIOUS
      <4>2. rpc[d] = "idle" \/ rpc[d] = "shadow" \/ rpc[d] = "use"
        BY InFlightIs
      <4>3. rpc[d] # "idle" /\ rpc[d] # "shadow"
        BY <2>2, <4>1, Zenon DEF PoolInv, ReceiverAt
      <4> QED
        BY <4>2, <4>3
    <3>2. KindOf(d, 2) = "shadow"
      BY <2>2, <3>1, HeldAre
    <3>3. 2 \in 1 .. Len(hold[d])
      BY <2>2, OneOrTwo, Zenon
    <3>4. InFlight(d)[2] = hold[d][2]
      BY <3>3, InFlightIs, Zenon
    <3> QED
      BY <3>2, <3>4 DEF KindOf
  <2> QED
    BY <2>1, <2>2
<1> QED
  BY <1>1, PoolInvariant, PTL
(* In a large pool get_available_packet never passes over a packet. *)
THEOREM SearchIsOneLook == Spec => []FoundAtOnce
<1>1. PoolInv => FoundAtOnce
  BY CurIsFree DEF FoundAtOnce, Large
<1> QED
  BY <1>1, PoolInvariant, PTL
=============================================================================
