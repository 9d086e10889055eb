-------------------------- MODULE PageForwardProofs -------------------------
(***************************************************************************)
(* Forwarding for every number of pages and words, every limit, every size *)
(* of the buffer of read-only pages and any number of iterations between   *)
(* the two processes.                                                      *)
(***************************************************************************)
EXTENDS PageTransfer, FiniteSetTheorems, SequenceTheorems, TLAPS

(* The packets there are.                                                  *)
FirstPackets ==
  [type : {"NORMAL", "SUPER"}, check : {"REQUIRED"}, half : {"mem"},
   page : Page, words : SUBSET Word, meta : {{}}]
SecondPackets ==
  [type : {"NORMAL", "SUPER"}, check : {"REQUIRED"}, half : {"shadow"},
   page : Page, words : SUBSET Word, meta : SUBSET Mark]
RoPagePackets ==
  [type : {"SUPER"}, check : {"RO_PAGE"}, half : {"mem"},
   page : {NULL}, words : {{}}, meta : SUBSET (Page \X {"read"})]
AllocPackets ==
  [type : {"ALLOC"}, check : {"REGULAR"}, half : {"mem"},
   page : {NULL}, words : {{}}, meta : SUBSET (Page \X {"alloc"})]
DonePackets ==
  [type : {"DONE"}, check : {"EOI"}, half : {"mem"},
   page : {NULL}, words : {{}}, meta : SUBSET Mark]
AnyPacket ==
  FirstPackets \cup SecondPackets \cup RoPagePackets \cup AllocPackets \cup DonePackets

(* The framing of a stream s when the receiver holds f *)
Completes(second, first) ==
  /\ second \in SecondPackets
  /\ second.page = first.page /\ second.words = first.words
Framed(f, s) ==
  /\ f # NULL => f \in FirstPackets /\ s # <<>> /\ Completes(s[1], f)
  /\ (f = NULL /\ s # <<>>) => s[1] \notin SecondPackets
  /\ \A k \in 1 .. Len(s) :
       /\ s[k] \in FirstPackets => k < Len(s) /\ Completes(s[k + 1], s[k])
       /\ (k > 1 /\ s[k] \in SecondPackets) => s[k - 1] \in FirstPackets

(* A page is known at place k of the stream when it exists in the receiver *)
(* before packet k is taken.                                               *)
Allocated(pk) == IF pk.type = "ALLOC" THEN {x[1] : x \in pk.meta} ELSE {}
Updated(pk) ==
  IF pk \in FirstPackets THEN {pk.page}
  ELSE IF pk \in RoPagePackets THEN {x[1] : x \in pk.meta} ELSE {}
Known(p, m, s, k) == p \in m \/ \E j \in 1 .. k - 1 : p \in Allocated(s[j])
MappedInv ==
  /\ lead # NULL => lead.page \in mapped
  /\ \A k \in 1 .. Len(stream) : \A p \in Updated(stream[k]) : Known(p, mapped, stream, k)
  /\ \A p \in heap : p \in mallocs \/ Known(p, mapped, stream, Len(stream) + 1)

(* A mark has been told at place k when the receiver has it before it      *)
(* takes packet k, of the iteration that packet belongs to.                *)
Tells(pk) == IF pk.half = "shadow" \/ pk.check = "RO_PAGE" THEN pk.meta ELSE {}
Told(x, m, s, k) ==
  \/ x \in m /\ \A j \in 1 .. k - 1 : s[j] \notin DonePackets
  \/ \E j \in 1 .. k - 1 :
       x \in Tells(s[j]) /\ \A n \in j .. k - 1 : s[n] \notin DonePackets
ToldNow(x) == Told(x, marks, stream, Len(stream) + 1)
Buffered(x) == \E p \in RoEntries(ro.data) : x = <<p, "read">>
OfPagesBefore(x) == \E p \in Page : p < pos /\ x \in MarksOf(p, left[p])
OfWordsBefore(x) ==
  \E v \in Word : v < word /\ left[pos][v] # {} /\ x = <<pos, v, left[pos][v]>>
DoneInv ==
  \A k \in 1 .. Len(stream) : stream[k] \in DonePackets =>
    \A x \in Mark : Told(x, marks, stream, k) <=> x \in stream[k].meta
ToldInv ==
  /\ pc \in {"body", "malloc"} => \A x \in Mark : ~ToldNow(x)
  /\ pc = "pages" => \A x \in Mark : (ToldNow(x) \/ Buffered(x)) <=> OfPagesBefore(x)
  /\ pc = "words" => \A x \in Mark :
       (ToldNow(x) \/ Buffered(x)) <=> (OfPagesBefore(x) \/ OfWordsBefore(x))
  /\ pc = "event" => \A x \in Mark : ToldNow(x) <=> x \in Expected

(* The buffer of read-only pages has no entry from its index on.           *)
RoType == [data : [RoSlot -> Page \cup {NULL}], index : 0 .. RoSize]
FreeFrom(b) == \A k \in RoSlot : k >= b.index => b.data[k] = NULL

(* What end_iter has still to do: the pages that are not zero are touched, *)
(* those from pos on hold what the body left, and nothing is in the buffer *)
(* before the pages and after them.                                        *)
SlateInv ==
  /\ touched \subseteq heap
  /\ RoEntries(ro.data) \subseteq heap
  /\ FreeFrom(ro)
  /\ pc \in {"body", "malloc", "event"} => ro.data = NoRo
  /\ pc # "malloc" => mallocs = {}
  /\ pc \in {"body", "event"} => touched = {}
  /\ pc \in {"pages", "words"} => \A p \in touched : p >= pos
  /\ pc = "words" => pos \in Page /\ pos \in heap /\ pos \notin touched
                     /\ ~IsReadOnly(left[pos])
  /\ \A p \in Page : IsZero(shadow[p]) \/ p \in touched \/ (pc = "words" /\ p = pos)
  /\ pc = "malloc" => shadow = left
  /\ pc \in {"pages", "words"} => \A p \in Page : p >= pos => shadow[p] = left[p]

ForwardInv ==
  /\ TypeOK
  /\ stream \in Seq(AnyPacket)
  /\ Framed(lead, stream)
  /\ MappedInv
  /\ SlateInv
  /\ DoneInv
  /\ ToldInv

-----------------------------------------------------------------------------
(* Streams *)

LEMMA Cat ==
  ASSUME NEW S, NEW s \in Seq(S), NEW c \in Seq(S)
  PROVE  /\ s \o c \in Seq(S) /\ Len(s \o c) = Len(s) + Len(c)
         /\ Len(s) \in Nat /\ Len(c) \in Nat
         /\ \A k \in 1 .. Len(s) : (s \o c)[k] = s[k] /\ s[k] \in S
         /\ \A k \in 1 .. Len(c) : (s \o c)[Len(s) + k] = c[k] /\ c[k] \in S
OBVIOUS

LEMMA Rest ==
  ASSUME NEW S, NEW s \in Seq(S), s # <<>>
  PROVE  /\ Tail(s) \in Seq(S) /\ Len(Tail(s)) = Len(s) - 1 /\ Len(s) \in Nat \ {0}
         /\ Head(s) = s[1] /\ s[1] \in S
         /\ \A k \in 1 .. Len(s) - 1 : Tail(s)[k] = s[k + 1] /\ s[k + 1] \in S
OBVIOUS

(* The five kinds of packets exclude each other, and are told apart by     *)
(* what the receiver looks at.                                             *)
LEMMA Kinds ==
  ASSUME NEW pk \in AnyPacket
  PROVE  /\ pk \in FirstPackets => pk \notin SecondPackets /\ pk \notin RoPagePackets
                                   /\ pk \notin AllocPackets /\ pk \notin DonePackets
         /\ pk \in SecondPackets => pk \notin RoPagePackets /\ pk \notin AllocPackets
                                    /\ pk \notin DonePackets
         /\ pk \in RoPagePackets => pk \notin AllocPackets /\ pk \notin DonePackets
         /\ pk \in AllocPackets => pk \notin DonePackets
         /\ pk \in SecondPackets <=> pk.half = "shadow"
         /\ pk \in RoPagePackets <=> pk.check = "RO_PAGE"
         /\ pk \in AllocPackets <=> pk.type = "ALLOC"
         /\ pk \in DonePackets <=> pk.type = "DONE"
         /\ ComesAsPair(pk) <=> pk \in FirstPackets \cup SecondPackets
         /\ pk.type = "SUPER" /\ ~ComesAsPair(pk) <=> pk \in RoPagePackets
BY DEF AnyPacket, FirstPackets, SecondPackets, RoPagePackets, AllocPackets,
       DonePackets, ComesAsPair

LEMMA PacketIsTyped ==
  ASSUME NEW pk \in AnyPacket
  PROVE  pk \in PacketType /\ pk # NULL /\ pk.half \in {"mem", "shadow"}
<1>1. pk \in PacketType
  <2>1. Page \X {"read"} \subseteq Mark
    BY DEF Mark
  <2> QED
    BY <2>1 DEF AnyPacket, FirstPackets, SecondPackets, RoPagePackets, AllocPackets,
                DonePackets, PacketType
<1> QED
  BY <1>1, NoPacketIsNull DEF PacketType

(* A step of the sender appends packets that are framed by themselves. *)
LEMMA FramedCat ==
  ASSUME NEW s \in Seq(AnyPacket), NEW c \in Seq(AnyPacket), NEW f,
         Framed(f, s), Framed(NULL, c)
  PROVE  Framed(f, s \o c)
<1> PICK t \in Seq(AnyPacket) : t = s \o c
  BY Cat
<1>1. /\ Len(t) = Len(s) + Len(c) /\ Len(s) \in Nat /\ Len(c) \in Nat
      /\ \A k \in 1 .. Len(s) : t[k] = s[k] /\ s[k] \in AnyPacket
      /\ \A k \in 1 .. Len(c) : t[Len(s) + k] = c[k] /\ c[k] \in AnyPacket
  BY Cat
<1>2. (s # <<>> <=> Len(s) > 0) /\ (c # <<>> <=> Len(c) > 0) /\ (t # <<>> <=> Len(t) > 0)
  OBVIOUS
<1>3. f # NULL => f \in FirstPackets /\ t # <<>> /\ Completes(t[1], f)
  BY <1>1, <1>2 DEF Framed
<1>4. ASSUME f = NULL, t # <<>> PROVE t[1] \notin SecondPackets
  <2>1. CASE s # <<>>
    BY <1>1, <1>2, <1>4, <2>1 DEF Framed
  <2>2. CASE s = <<>>
    <3>1. Len(s) = 0 /\ Len(c) > 0
      BY <1>1, <1>2, <1>4, <2>2
    <3>2. t[1] = c[1]
      BY <1>1, <3>1
    <3> QED
      BY <1>2, <3>1, <3>2 DEF Framed
  <2> QED
    BY <2>1, <2>2
<1>5. ASSUME NEW k \in 1 .. Len(t)
      PROVE  /\ t[k] \in FirstPackets => k < Len(t) /\ Completes(t[k + 1], t[k])
             /\ (k > 1 /\ t[k] \in SecondPackets) => t[k - 1] \in FirstPackets
  <2>1. CASE k <= Len(s)
    <3>1. t[k] = s[k] /\ k \in 1 .. Len(s)
      BY <1>1, <2>1
    <3>2. k < Len(s) => t[k + 1] = s[k + 1]
      BY <1>1, <3>1
    <3>3. k > 1 => t[k - 1] = s[k - 1]
      BY <1>1, <3>1
    <3> QED
      BY <1>1, <3>1, <3>2, <3>3 DEF Framed
  <2>2. CASE k > Len(s)
    <3> PICK n \in 1 .. Len(c) : k = Len(s) + n
      <4>1. k - Len(s) \in 1 .. Len(c) /\ k = Len(s) + (k - Len(s))
        BY <1>1, <2>2
      <4> QED
        BY <4>1
    <3>1. t[k] = c[n] /\ (n < Len(c) => t[k + 1] = c[n + 1])
      <4>1. n < Len(c) => n + 1 \in 1 .. Len(c) /\ k + 1 = Len(s) + (n + 1)
        BY <1>1
      <4> QED
        BY <1>1, <4>1
    <3>2. n > 1 => t[k - 1] = c[n - 1]
      <4>1. n > 1 => n - 1 \in 1 .. Len(c) /\ k - 1 = Len(s) + (n - 1)
        BY <1>1
      <4> QED
        BY <1>1, <4>1
    <3>3. n = 1 => c[n] \notin SecondPackets
      BY <1>2 DEF Framed
    <3> QED
      BY <1>1, <3>1, <3>2, <3>3 DEF Framed
  <2> QED
    BY <1>1, <2>1, <2>2
<1> QED
  BY <1>3, <1>4, <1>5 DEF Framed

LEMMA FramedRest ==
  ASSUME NEW s \in Seq(AnyPacket), s # <<>>, NEW f, Framed(f, s)
  PROVE  /\ f = NULL /\ Head(s) \in FirstPackets => Framed(Head(s), Tail(s))
         /\ f # NULL \/ Head(s) \notin FirstPackets => Framed(NULL, Tail(s))
<1> PICK t \in Seq(AnyPacket) : t = Tail(s)
  BY Rest
<1>1. /\ Len(t) = Len(s) - 1 /\ Len(s) \in Nat \ {0} /\ Head(s) = s[1] /\ s[1] \in AnyPacket
      /\ \A k \in 1 .. Len(s) - 1 : t[k] = s[k + 1] /\ s[k + 1] \in AnyPacket
  BY Rest
<1>2. t # <<>> <=> Len(t) > 0
  OBVIOUS
<1>3. ASSUME NEW k \in 1 .. Len(t)
      PROVE  /\ t[k] \in FirstPackets => k < Len(t) /\ Completes(t[k + 1], t[k])
             /\ (k > 1 /\ t[k] \in SecondPackets) => t[k - 1] \in FirstPackets
  <2>1. t[k] = s[k + 1] /\ k + 1 \in 1 .. Len(s)
    BY <1>1
  <2>2. k < Len(t) => t[k + 1] = s[(k + 1) + 1]
    BY <1>1
  <2>3. k > 1 => t[k - 1] = s[(k + 1) - 1]
    BY <1>1
  <2> QED
    BY <1>1, <2>1, <2>2, <2>3 DEF Framed
<1>4. s[1] \in FirstPackets => s[1] # NULL /\ Len(s) > 1 /\ Completes(s[1 + 1], s[1])
  BY <1>1, PacketIsTyped DEF Framed
<1>5. Len(s) > 1 => t # <<>> /\ t[1] = s[1 + 1]
  BY <1>1, <1>2
<1>6. ASSUME f # NULL \/ s[1] \notin FirstPackets, t # <<>> PROVE t[1] \notin SecondPackets
  <2>1. Len(s) > 1 /\ t[1] = s[2] /\ 2 \in 1 .. Len(s)
    BY <1>1, <1>2, <1>6
  <2>2. s[2] \in SecondPackets => s[2 - 1] \in FirstPackets
    BY <2>1 DEF Framed
  <2>3. f # NULL => s[1] \in SecondPackets
    BY DEF Framed, Completes
  <2>4. s[1] \in SecondPackets => s[1] \notin FirstPackets
    BY <1>1, Kinds
  <2> QED
    BY <1>6, <2>1, <2>2, <2>3, <2>4
<1> QED
  BY <1>1, <1>3, <1>4, <1>5, <1>6 DEF Framed

(* What is known and told at a place depends on the packets before it,     *)
LEMMA PlacesCat ==
  ASSUME NEW s \in Seq(AnyPacket), NEW c \in Seq(AnyPacket), NEW m, NEW x,
         NEW k \in 1 .. Len(s) + 1
  PROVE  /\ Known(x, m, s \o c, k) <=> Known(x, m, s, k)
         /\ Told(x, m, s \o c, k) <=> Told(x, m, s, k)
<1> PICK t \in Seq(AnyPacket) : t = s \o c
  BY Cat
<1>1. \A j \in 1 .. Len(s) : t[j] = s[j]
  BY Cat
<1>2. \A j \in 1 .. k - 1 : t[j] = s[j]
  BY <1>1
<1>3. Known(x, m, t, k) <=> Known(x, m, s, k)
  BY <1>2, Zenon DEF Known
<1>4. \A j \in 1 .. k - 1 : \A n \in j .. k - 1 : n \in 1 .. k - 1
  OBVIOUS
<1>5. Told(x, m, t, k) <=> Told(x, m, s, k)
  BY <1>2, <1>4 DEF Told
<1> QED
  BY <1>3, <1>5

(* and at the end on what is appended: *)
LEMMA KnownAtEnd ==
  ASSUME NEW s \in Seq(AnyPacket), NEW c \in Seq(AnyPacket), NEW m, NEW x,
         \/ Known(x, m, s, Len(s) + 1)
         \/ \E j \in 1 .. Len(c) : x \in Allocated(c[j])
  PROVE  Known(x, m, s \o c, Len(s \o c) + 1)
<1> PICK t \in Seq(AnyPacket) : t = s \o c
  BY Cat
<1>1. /\ Len(t) = Len(s) + Len(c) /\ Len(s) \in Nat /\ Len(c) \in Nat
      /\ \A j \in 1 .. Len(s) : t[j] = s[j]
      /\ \A j \in 1 .. Len(c) : t[Len(s) + j] = c[j]
  BY Cat
<1>2. ASSUME NEW j \in 1 .. Len(c), x \in Allocated(c[j])
      PROVE  Known(x, m, t, Len(t) + 1)
  <2>1. Len(s) + j \in 1 .. (Len(t) + 1) - 1 /\ t[Len(s) + j] = c[j]
    BY <1>1
  <2> QED
    BY <1>2, <2>1 DEF Known
<1>3. ASSUME Known(x, m, s, Len(s) + 1)
      PROVE  Known(x, m, t, Len(t) + 1)
  <2>1. \A j \in 1 .. (Len(s) + 1) - 1 : j \in 1 .. (Len(t) + 1) - 1 /\ t[j] = s[j]
    BY <1>1
  <2> QED
    BY <1>3, <2>1 DEF Known
<1> QED
  BY <1>2, <1>3

(* packets of an iteration add what they tell, *)
LEMMA ToldAtEnd ==
  ASSUME NEW s \in Seq(AnyPacket), NEW c \in Seq(AnyPacket), NEW m, NEW x,
         \A j \in 1 .. Len(c) : c[j] \notin DonePackets
  PROVE  Told(x, m, s \o c, Len(s \o c) + 1) <=>
           \/ Told(x, m, s, Len(s) + 1)
           \/ \E j \in 1 .. Len(c) : x \in Tells(c[j])
<1> PICK t \in Seq(AnyPacket) : t = s \o c
  BY Cat
<1>1. /\ Len(t) = Len(s) + Len(c) /\ Len(s) \in Nat /\ Len(c) \in Nat
      /\ \A j \in 1 .. Len(s) : t[j] = s[j]
      /\ \A j \in 1 .. Len(c) : t[Len(s) + j] = c[j]
  BY Cat
<1>2. ASSUME NEW j \in 1 .. Len(t), j > Len(s)
      PROVE  j - Len(s) \in 1 .. Len(c) /\ t[j] = c[j - Len(s)]
  <2>1. j - Len(s) \in 1 .. Len(c) /\ j = Len(s) + (j - Len(s))
    BY <1>1, <1>2
  <2> QED
    BY <1>1, <2>1
<1>3. \A j \in 1 .. Len(t) : j > Len(s) => t[j] \notin DonePackets
  BY <1>2
<1>4. (\A j \in 1 .. Len(t) : t[j] \notin DonePackets)
       <=> \A j \in 1 .. Len(s) : s[j] \notin DonePackets
  BY <1>1, <1>3
<1>5. ASSUME NEW j \in 1 .. Len(s)
      PROVE  (\A n \in j .. Len(t) : t[n] \notin DonePackets)
              <=> \A n \in j .. Len(s) : s[n] \notin DonePackets
  BY <1>1, <1>3
<1>6. ASSUME NEW j \in 1 .. Len(t), j > Len(s)
      PROVE  \A n \in j .. Len(t) : t[n] \notin DonePackets
  BY <1>1, <1>3, <1>6
<1>7. (\E j \in 1 .. Len(t) : j > Len(s) /\ x \in Tells(t[j]))
       <=> \E j \in 1 .. Len(c) : x \in Tells(c[j])
  <2>1. \A j \in 1 .. Len(c) : Len(s) + j \in 1 .. Len(t) /\ Len(s) + j > Len(s)
    BY <1>1
  <2> QED
    BY <1>1, <1>2, <2>1
<1>8. \A j \in 1 .. Len(s) : j \in 1 .. Len(t) /\ t[j] = s[j] /\ ~ (j > Len(s))
  BY <1>1
<1>9. \A j \in 1 .. Len(t) : j > Len(s) \/ j \in 1 .. Len(s)
  BY <1>1
<1>10. (Len(t) + 1) - 1 = Len(t) /\ (Len(s) + 1) - 1 = Len(s)
  BY <1>1
<1> DEFINE Late(y, k) == \A n \in k .. Len(y) : y[n] \notin DonePackets
<1>11. /\ \A j \in 1 .. Len(s) : Late(t, j) <=> Late(s, j)
       /\ \A j \in 1 .. Len(t) : j > Len(s) => Late(t, j)
  BY <1>5, <1>6
<1>12. /\ Told(x, m, t, Len(t) + 1) <=>
            \/ x \in m /\ \A j \in 1 .. Len(t) : t[j] \notin DonePackets
            \/ \E j \in 1 .. Len(t) : x \in Tells(t[j]) /\ Late(t, j)
       /\ Told(x, m, s, Len(s) + 1) <=>
            \/ x \in m /\ \A j \in 1 .. Len(s) : s[j] \notin DonePackets
            \/ \E j \in 1 .. Len(s) : x \in Tells(s[j]) /\ Late(s, j)
  BY <1>10 DEF Told
<1> HIDE DEF Late
<1> QED
  BY <1>4, <1>7, <1>8, <1>9, <1>11, <1>12, Zenon

(* and the packet that ends it makes a new beginning. *)
LEMMA ToldAfterDone ==
  ASSUME NEW s \in Seq(AnyPacket), NEW d \in DonePackets, NEW m, NEW x
  PROVE  ~ Told(x, m, s \o <<d>>, Len(s \o <<d>>) + 1)
<1>1. <<d>> \in Seq(AnyPacket) /\ Len(<<d>>) = 1 /\ <<d>>[1] = d
  BY DEF AnyPacket
<1> PICK t \in Seq(AnyPacket) : t = s \o <<d>>
  BY <1>1, Cat
<1>2. Len(t) = Len(s) + 1 /\ Len(s) \in Nat /\ t[Len(s) + 1] = d
  BY <1>1, Cat
<1>3. /\ Len(t) \in 1 .. (Len(t) + 1) - 1
      /\ \A j \in 1 .. (Len(t) + 1) - 1 : Len(t) \in j .. (Len(t) + 1) - 1
      /\ t[Len(t)] \in DonePackets
  BY <1>2
<1> QED
  BY <1>3, Zenon DEF Told

(* Taking a packet moves all places forward by one. *)
LEMMA PlacesRest ==
  ASSUME NEW s \in Seq(AnyPacket), s # <<>>, NEW m, NEW x, NEW k \in 1 .. Len(s)
  PROVE  /\ Known(x, m \cup Allocated(Head(s)), Tail(s), k) <=> Known(x, m, s, k + 1)
         /\ Head(s) \notin DonePackets =>
              (Told(x, m \cup Tells(Head(s)), Tail(s), k) <=> Told(x, m, s, k + 1))
         /\ Head(s) \in DonePackets =>
              (Told(x, {}, Tail(s), k) <=> Told(x, m, s, k + 1))
<1> PICK t \in Seq(AnyPacket) : t = Tail(s)
  BY Rest
<1>1. /\ Len(t) = Len(s) - 1 /\ Len(s) \in Nat \ {0} /\ Head(s) = s[1] /\ s[1] \in AnyPacket
      /\ \A j \in 1 .. Len(s) - 1 : t[j] = s[j + 1]
  BY Rest
<1>2. \A j \in 1 .. k - 1 : j + 1 \in 1 .. k /\ t[j] = s[j + 1]
  BY <1>1
<1>3. \A j \in 1 .. k : j = 1 \/ (j - 1 \in 1 .. k - 1 /\ t[j - 1] = s[j])
  <2> TAKE j \in 1 .. k
  <2>1. j = 1 \/ (j - 1 \in 1 .. k - 1 /\ (j - 1) + 1 = j)
    OBVIOUS
  <2> QED
    BY <1>2, <2>1
<1>4. 1 \in 1 .. k /\ (k + 1) - 1 = k
  OBVIOUS
<1>5. Known(x, m \cup Allocated(s[1]), t, k) <=> Known(x, m, s, k + 1)
  BY <1>2, <1>3, <1>4 DEF Known
<1> DEFINE Clear == \A j \in 1 .. k - 1 : t[j] \notin DonePackets
           Late(j) == \A n \in j .. k - 1 : t[n] \notin DonePackets
           LateS(j) == \A n \in j .. k : s[n] \notin DonePackets
<1>6. (\A j \in 1 .. k : s[j] \notin DonePackets) <=> (Clear /\ s[1] \notin DonePackets)
  BY <1>2, <1>3, <1>4
<1>7. LateS(1) <=> (Clear /\ s[1] \notin DonePackets)
  BY <1>6
<1>8. ASSUME NEW j \in 1 .. k - 1
      PROVE  Late(j) <=> LateS(j + 1)
  <2>1. \A n \in j .. k - 1 : n \in 1 .. k - 1 /\ n + 1 \in j + 1 .. k
    OBVIOUS
  <2>2. \A n \in j + 1 .. k : n - 1 \in j .. k - 1 /\ n \in 1 .. k /\ n # 1
    OBVIOUS
  <2> QED
    BY <1>2, <1>3, <2>1, <2>2
<1>9. /\ \A y : Told(x, y, t, k) <=>
            \/ x \in y /\ Clear
            \/ \E j \in 1 .. k - 1 : x \in Tells(t[j]) /\ Late(j)
      /\ Told(x, m, s, k + 1) <=>
            \/ x \in m /\ Clear /\ s[1] \notin DonePackets
            \/ \E j \in 1 .. k : x \in Tells(s[j]) /\ LateS(j)
  BY <1>4, <1>6 DEF Told
<1> HIDE DEF Clear, Late, LateS
<1>10. (\E j \in 1 .. k : x \in Tells(s[j]) /\ LateS(j))
        <=> \/ x \in Tells(s[1]) /\ LateS(1)
            \/ \E j \in 1 .. k - 1 : x \in Tells(s[j + 1]) /\ LateS(j + 1)
  <2>1. \A j \in 1 .. k : j = 1 \/ (j - 1 \in 1 .. k - 1 /\ (j - 1) + 1 = j)
    OBVIOUS
  <2> QED
    BY <1>2, <1>4, <2>1
<1>11. (\E j \in 1 .. k - 1 : x \in Tells(s[j + 1]) /\ LateS(j + 1))
        <=> \E j \in 1 .. k - 1 : x \in Tells(t[j]) /\ Late(j)
  BY <1>2, <1>8
<1>12. s[1] \notin DonePackets =>
        (Told(x, m \cup Tells(s[1]), t, k) <=> Told(x, m, s, k + 1))
  BY <1>7, <1>9, <1>10, <1>11
<1>13. s[1] \in DonePackets => (Told(x, {}, t, k) <=> Told(x, m, s, k + 1))
  BY <1>7, <1>9, <1>10, <1>11
<1> QED
  BY <1>1, <1>5, <1>12, <1>13

-----------------------------------------------------------------------------
(* Pages *)

(* The mask of clear_read leaves every byte as it is. *)
LEMMA ClearReadIsIdentity ==
  ASSUME NEW page \in [Word -> SUBSET Bit]
  PROVE  ClearRead(page) = page
<1>1. \A w \in Word : page[w] \cup (page[w] \cap ReadMask(page[w])) = page[w]
  OBVIOUS
<1> QED
  BY <1>1 DEF ClearRead

LEMMA ZeroWords ==
  ASSUME NEW page \in [Word -> SUBSET Bit]
  PROVE  IsZero(page) <=> \A w \in Word : page[w] = {}
BY DEF IsZero, ZeroPage

(* The number clear_read returns is zero for a page that was only read *)
LEMMA NonZeroCounts ==
  ASSUME NEW page \in [Word -> SUBSET Bit]
  PROVE  /\ NonZero(page) \in Nat
         /\ ~IsZero(page) => (NonZero(page) = 0 <=> IsReadOnly(page))
<1>1. IsFiniteSet(Word)
  <2>1. 0 \in Int /\ NumWords - 1 \in Int
    BY ForwardAssumption DEF ForwardAssumption
  <2> QED
    BY <2>1, FS_Interval DEF Word
<1>2. IsFiniteSet(NonZeroWords(page))
  BY <1>1, FS_Subset DEF NonZeroWords
<1>3. Cardinality(NonZeroWords(page)) \in Nat
      /\ (Cardinality(NonZeroWords(page)) = 0 <=> NonZeroWords(page) = {})
  BY <1>2, FS_CardinalityType, FS_EmptySet
<1>4. ~IsZero(page) => NonZeroWords(page) # {}
  BY ZeroWords DEF NonZeroWords
<1> QED
  BY <1>3, <1>4 DEF NonZero

LEMMA MarksAre ==
  ASSUME NEW p \in Page, NEW page \in [Word -> SUBSET Bit]
  PROVE  /\ MarksOf(p, page) \subseteq Mark
         /\ IsZero(page) => MarksOf(p, page) = {}
         /\ ~IsZero(page) /\ IsReadOnly(page) => MarksOf(p, page) = {<<p, "read">>}
         /\ ~IsReadOnly(page) =>
              /\ ~IsZero(page)
              /\ \A x : x \in MarksOf(p, page) <=>
                   \E w \in Word : page[w] # {} /\ x = <<p, w, page[w]>>
<1>1. {<<p, "read">>} \subseteq Mark
  BY DEF Mark
<1>2. \A w \in Word : <<p, w, page[w]>> \in Mark
  BY DEF Mark
<1>3. {<<p, w, page[w]>> : w \in NonZeroWords(page)} \subseteq Mark
  BY <1>2 DEF NonZeroWords
<1>4. IsZero(page) => IsReadOnly(page)
  BY ZeroWords DEF IsReadOnly
<1>5. MarksOf(p, page) =
        IF IsZero(page) THEN {}
        ELSE IF IsReadOnly(page) THEN {<<p, "read">>}
        ELSE {<<p, w, page[w]>> : w \in NonZeroWords(page)}
  BY DEF MarksOf, IsReadOnly
<1> QED
  BY <1>1, <1>3, <1>4, <1>5 DEF NonZeroWords

(* The buffer of read-only pages *)
LEMMA EntriesOfNone == RoEntries(NoRo) = {} /\ NoRo \in [RoSlot -> Page \cup {NULL}]
BY DEF RoEntries, NoRo

LEMMA EmptyBuffer ==
  ASSUME NEW b \in RoType, FreeFrom(b), b.index = 0
  PROVE  b.data = NoRo
<1>1. b.data \in [RoSlot -> Page \cup {NULL}]
  BY DEF RoType
<1>2. \A k \in RoSlot : k >= 0
  BY DEF RoSlot
<1>3. \A k \in RoSlot : b.data[k] = NULL
  BY <1>2 DEF FreeFrom
<1> QED
  BY <1>1, <1>3 DEF NoRo

LEMMA RoErasedIs ==
  ASSUME NEW b \in RoType, FreeFrom(b)
  PROVE  RoErased(b) \in RoType /\ RoErased(b).data = NoRo /\ FreeFrom(RoErased(b))
<1>1. b.index # 0 => /\ RoErased(b) \in RoType /\ RoErased(b).data = NoRo
  BY EntriesOfNone DEF RoErased, RoType
<1>2. b.index = 0 => RoErased(b) = b
  BY DEF RoErased
<1>3. \A k \in RoSlot : NoRo[k] = NULL
  BY DEF NoRo
<1> QED
  BY <1>1, <1>2, <1>3, EmptyBuffer DEF FreeFrom

LEMMA RoAddIs ==
  ASSUME NEW b \in RoType, FreeFrom(b), NEW p \in Page
  PROVE  /\ RoAdd(b, p) \in RoType /\ FreeFrom(RoAdd(b, p))
         /\ RoEntries(RoAdd(b, p).data) =
              (IF RoFull(b) THEN {} ELSE RoEntries(b.data)) \cup {p}
<1> PICK r : r = RoRoom(b)
  OBVIOUS
<1>0. RoSize \in Nat \ {0} /\ NULL \notin Page
  BY ForwardAssumption, NoPageIsNull DEF ForwardAssumption
<1>1. /\ r \in RoType /\ FreeFrom(r) /\ r.index \in RoSlot
      /\ RoEntries(r.data) = IF RoFull(b) THEN {} ELSE RoEntries(b.data)
  <2>1. CASE RoFull(b)
    <3>1. RoErased(b).data = NoRo /\ RoErased(b) \in RoType
      BY RoErasedIs
    <3>2. r = [RoErased(b) EXCEPT !.index = 0]
      BY <2>1 DEF RoRoom
    <3>3. r \in RoType /\ r.data = NoRo /\ r.index = 0
      BY <3>1, <3>2, <1>0 DEF RoType
    <3>4. FreeFrom(r)
      BY <3>3 DEF FreeFrom, NoRo
    <3> QED
      BY <1>0, <2>1, <3>3, <3>4, EntriesOfNone DEF RoSlot
  <2>2. CASE ~RoFull(b)
    <3>1. r = b /\ b.index # RoSize
      BY <2>2 DEF RoRoom, RoFull
    <3>2. b.index \in RoSlot
      BY <1>0, <3>1 DEF RoType, RoSlot
    <3> QED
      BY <2>2, <3>1, <3>2
  <2> QED
    BY <2>1, <2>2
<1> PICK a : a = RoAdd(b, p)
  OBVIOUS
<1>2. a = [data |-> [r.data EXCEPT ![r.index] = p], index |-> r.index + 1]
  BY DEF RoAdd
<1>3. r.data \in [RoSlot -> Page \cup {NULL}] /\ r.index \in RoSlot /\ r.index + 1 \in 0 .. RoSize
  BY <1>0, <1>1 DEF RoType, RoSlot
<1>4. a \in RoType
  BY <1>2, <1>3 DEF RoType
<1>5. /\ \A k \in RoSlot : a.data[k] = IF k = r.index THEN p ELSE r.data[k]
      /\ a.index = r.index + 1
  BY <1>2, <1>3
<1>6. FreeFrom(a)
  <2>1. \A k \in RoSlot : k >= r.index + 1 => k >= r.index /\ k # r.index
    BY <1>3 DEF RoSlot
  <2> QED
    BY <1>1, <1>5, <2>1 DEF FreeFrom
<1>7. r.data[r.index] = NULL
  <2>1. r.index >= r.index
    BY <1>3 DEF RoSlot
  <2> QED
    BY <1>1, <2>1 DEF FreeFrom
<1>8. RoEntries(a.data) = RoEntries(r.data) \cup {p}
  <2>1. \A y : y \in RoEntries(a.data) <=> y # NULL /\ \E k \in RoSlot : y = a.data[k]
    BY DEF RoEntries
  <2>2. \A y : y \in RoEntries(r.data) <=> y # NULL /\ \E k \in RoSlot : y = r.data[k]
    BY DEF RoEntries
  <2> QED
    BY <1>0, <1>1, <1>5, <1>7, <2>1, <2>2
<1> QED
  BY <1>1, <1>4, <1>6, <1>8

-----------------------------------------------------------------------------
(* What the sender may append: packets that are framed by themselves,      *)
(* tell the marks x for which tells(x) holds, update pages of u, and       *)
(* allocate those of a.                                                    *)
Chunk(c, marked, u, a) ==
  /\ c \in Seq(AnyPacket) /\ Framed(NULL, c)
  /\ \A k \in 1 .. Len(c) : Updated(c[k]) \subseteq u /\ Allocated(c[k]) \subseteq a
  /\ \A k \in 1 .. Len(c) : Tells(c[k]) \subseteq marked
  /\ \A x \in marked : \E k \in 1 .. Len(c) : x \in Tells(c[k])
  /\ \A p \in a : \E k \in 1 .. Len(c) : p \in Allocated(c[k])
NoneDone(c) == \A k \in 1 .. Len(c) : c[k] \notin DonePackets

LEMMA NoChunk == Chunk(<<>>, {}, {}, {}) /\ NoneDone(<<>>)
BY DEF Chunk, NoneDone, Framed

LEMMA SingleChunk ==
  ASSUME NEW pk \in AnyPacket, pk \notin FirstPackets, pk \notin SecondPackets
  PROVE  /\ Chunk(<<pk>>, Tells(pk), Updated(pk), Allocated(pk))
         /\ pk \notin DonePackets => NoneDone(<<pk>>)
<1>1. Len(<<pk>>) = 1 /\ <<pk>>[1] = pk /\ \A k \in 1 .. 1 : k = 1
  OBVIOUS
<1>2. Framed(NULL, <<pk>>)
  BY <1>1 DEF Framed
<1> QED
  BY <1>1, <1>2 DEF Chunk, NoneDone

LEMMA PairChunk ==
  ASSUME NEW first \in FirstPackets, NEW second \in SecondPackets,
         Completes(second, first)
  PROVE  Chunk(<<first, second>>, second.meta, {first.page}, {})
         /\ NoneDone(<<first, second>>)
<1> PICK c : c = <<first, second>>
  OBVIOUS
<1>1. /\ c \in Seq(AnyPacket) /\ Len(c) = 2 /\ c[1] = first /\ c[2] = second
      /\ \A k \in 1 .. 2 : k = 1 \/ k = 2
      /\ first \in AnyPacket /\ second \in AnyPacket
  BY DEF AnyPacket
<1>2. Framed(NULL, c)
  <2>1. first \notin SecondPackets /\ second \notin FirstPackets
    BY <1>1, Kinds
  <2> QED
    BY <1>1, <2>1 DEF Framed
<1>3. Updated(first) = {first.page} /\ Updated(second) = {}
  BY <1>1, Kinds DEF Updated
<1>4. Allocated(first) = {} /\ Allocated(second) = {}
  BY DEF Allocated, FirstPackets, SecondPackets
<1>5. Tells(first) = {} /\ Tells(second) = second.meta
  BY DEF Tells, FirstPackets, SecondPackets
<1>6. first \notin DonePackets /\ second \notin DonePackets
  BY <1>1, Kinds
<1> QED
  BY <1>1, <1>2, <1>3, <1>4, <1>5, <1>6 DEF Chunk, NoneDone

(* forward_ro_page sends all entries, or there are none. *)
LEMMA RoChunk ==
  ASSUME NEW b \in RoType, FreeFrom(b)
  PROVE  /\ Chunk(RoPackets(b), RoEntries(b.data) \X {"read"}, RoEntries(b.data), {})
         /\ NoneDone(RoPackets(b))
<1> PICK e \in SUBSET Page : e = RoEntries(b.data)
  BY DEF RoEntries, RoType
<1>1. CASE b.index = 0
  <2>1. RoPackets(b) = <<>> /\ e = {}
    BY <1>1, EmptyBuffer, EntriesOfNone DEF RoPackets
  <2>2. e \X {"read"} = {}
    BY <2>1
  <2> QED
    BY <2>1, <2>2, NoChunk
<1>2. CASE b.index # 0
  <2> PICK pk : pk = RoPage(e)
    OBVIOUS
  <2>1. {<<p, "read">> : p \in e} = e \X {"read"} /\ e \X {"read"} \in SUBSET (Page \X {"read"})
    OBVIOUS
  <2>2. pk \in RoPagePackets /\ pk.meta = e \X {"read"}
    BY <2>1 DEF RoPage, RoPagePackets
  <2>3. pk \in AnyPacket /\ pk \notin FirstPackets /\ pk \notin SecondPackets
        /\ pk \notin DonePackets
    BY <2>2, Kinds DEF AnyPacket
  <2>4. Tells(pk) = e \X {"read"}
    BY <2>2 DEF Tells, RoPagePackets
  <2>5. Updated(pk) = e
    <3>1. {x[1] : x \in e \X {"read"}} = e
      <4>1. \A x \in e \X {"read"} : x[1] \in e
        OBVIOUS
      <4>2. \A p \in e : <<p, "read">> \in e \X {"read"} /\ <<p, "read">>[1] = p
        OBVIOUS
      <4> QED
        BY <4>1, <4>2
    <3> QED
      BY <2>2, <2>3, <3>1 DEF Updated
  <2>6. Allocated(pk) = {}
    BY <2>2 DEF Allocated, RoPagePackets
  <2>7. RoPackets(b) = <<pk>>
    BY <1>2 DEF RoPackets
  <2> QED
    BY <2>3, <2>4, <2>5, <2>6, <2>7, SingleChunk
<1> QED
  BY <1>1, <1>2

(* What is known at a place is known at later ones. *)
LEMMA KnownLater ==
  ASSUME NEW s, NEW m, NEW p, NEW j \in Nat, NEW k \in Nat, j <= k, Known(p, m, s, j)
  PROVE  Known(p, m, s, k)
<1>1. \A n \in 1 .. j - 1 : n \in 1 .. k - 1
  OBVIOUS
<1> QED
  BY <1>1, Zenon DEF Known

-----------------------------------------------------------------------------
(* Every step of the sender appends a chunk, of pages the receiver will    *)
(* know by then.                                                           *)
Sends(c, marked, u, a) ==
  /\ stream' = stream \o c /\ UNCHANGED receiver
  /\ Chunk(c, marked, u, a)
  /\ u \subseteq heap \ mallocs
  /\ heap' \subseteq heap \cup mallocs'
  /\ mallocs \subseteq mallocs' \cup a

LEMMA SendKeeps ==
  ASSUME ForwardInv, NEW c, NEW marked, NEW u, NEW a, Sends(c, marked, u, a)
  PROVE  /\ stream' \in Seq(AnyPacket) /\ Framed(lead', stream')
         /\ MappedInv'
<1> PICK s \in Seq(AnyPacket) : s = stream
  BY DEF ForwardInv
<1> PICK t \in Seq(AnyPacket) : t = s \o c
  BY Cat DEF Sends, Chunk
<1>1. /\ c \in Seq(AnyPacket)
      /\ Len(t) = Len(s) + Len(c) /\ Len(s) \in Nat /\ Len(c) \in Nat
      /\ \A k \in 1 .. Len(s) : t[k] = s[k]
      /\ \A k \in 1 .. Len(c) : t[Len(s) + k] = c[k]
  BY Cat DEF Sends, Chunk
<1>2. stream' = t /\ UNCHANGED <<lead, mapped, marks>>
  BY DEF Sends, receiver
<1>3. Framed(lead, t)
  BY FramedCat DEF ForwardInv, Sends, Chunk
<1>4. \A p : \A k \in 1 .. Len(s) + 1 : Known(p, mapped, t, k) <=> Known(p, mapped, s, k)
  BY <1>1, PlacesCat
<1>5. ASSUME NEW k \in 1 .. Len(t), NEW p \in Updated(t[k]) PROVE Known(p, mapped, t, k)
  <2>1. CASE k <= Len(s)
    <3>1. k \in 1 .. Len(s) /\ k \in 1 .. Len(s) + 1 /\ t[k] = s[k]
      BY <1>1, <2>1
    <3> QED
      BY <1>4, <1>5, <3>1 DEF ForwardInv, MappedInv
  <2>2. CASE k > Len(s)
    <3>1. k - Len(s) \in 1 .. Len(c) /\ k = Len(s) + (k - Len(s))
      BY <1>1, <2>2
    <3>2. p \in u
      BY <1>1, <1>5, <3>1 DEF Sends, Chunk
    <3>3. Known(p, mapped, s, Len(s) + 1)
      BY <3>2 DEF Sends, ForwardInv, MappedInv
    <3>4. Known(p, mapped, t, Len(s) + 1)
      BY <1>1, <1>4, <3>3
    <3>5. Len(s) + 1 \in Nat /\ k \in Nat /\ Len(s) + 1 <= k
      BY <1>1, <2>2
    <3> QED
      BY <3>4, <3>5, KnownLater
  <2> QED
    BY <1>1, <2>1, <2>2
<1>6. ASSUME NEW p \in heap', p \notin mallocs' PROVE Known(p, mapped, t, Len(t) + 1)
  <2>1. p \in heap /\ (p \in mallocs => p \in a)
    BY <1>6 DEF Sends
  <2>2. p \in a => \E k \in 1 .. Len(c) : p \in Allocated(c[k])
    BY DEF Sends, Chunk
  <2>3. p \notin mallocs => Known(p, mapped, s, Len(s) + 1)
    BY <2>1 DEF ForwardInv, MappedInv
  <2> QED
    BY <1>1, <2>1, <2>2, <2>3, KnownAtEnd
<1>7. lead # NULL => lead.page \in mapped
  BY DEF ForwardInv, MappedInv
<1>8. MappedInv'
  BY <1>2, <1>5, <1>6, <1>7 DEF MappedInv
<1> QED
  BY <1>2, <1>3, <1>8

(* In the middle of an iteration it adds what it tells, and the DONE       *)
(* packets on the way stay right.                                          *)
LEMMA SendTells ==
  ASSUME ForwardInv, NEW c, NEW marked, NEW u, NEW a, Sends(c, marked, u, a), NoneDone(c)
  PROVE  /\ \A x : ToldNow(x)' <=> ToldNow(x) \/ x \in marked
         /\ DoneInv'
<1> PICK s \in Seq(AnyPacket) : s = stream
  BY DEF ForwardInv
<1> PICK t \in Seq(AnyPacket) : t = s \o c
  BY Cat DEF Sends, Chunk
<1>1. /\ c \in Seq(AnyPacket)
      /\ Len(t) = Len(s) + Len(c) /\ Len(s) \in Nat /\ Len(c) \in Nat
      /\ \A k \in 1 .. Len(s) : t[k] = s[k]
      /\ \A k \in 1 .. Len(c) : t[Len(s) + k] = c[k]
  BY Cat DEF Sends, Chunk
<1>2. stream' = t /\ marks' = marks
  BY DEF Sends, receiver
<1>3. \A x : Told(x, marks, t, Len(t) + 1) <=>
        Told(x, marks, s, Len(s) + 1) \/ \E j \in 1 .. Len(c) : x \in Tells(c[j])
  BY <1>1, ToldAtEnd DEF NoneDone
<1>4. \A x : (\E j \in 1 .. Len(c) : x \in Tells(c[j])) <=> x \in marked
  BY DEF Sends, Chunk
<1>5. \A x : ToldNow(x)' <=> ToldNow(x) \/ x \in marked
  BY <1>2, <1>3, <1>4 DEF ToldNow
<1>6. ASSUME NEW k \in 1 .. Len(t), t[k] \in DonePackets, NEW x \in Mark
      PROVE  Told(x, marks, t, k) <=> x \in t[k].meta
  <2>1. k <= Len(s)
    <3>1. k > Len(s) => k - Len(s) \in 1 .. Len(c) /\ k = Len(s) + (k - Len(s))
      BY <1>1
    <3> QED
      BY <1>1, <1>6, <3>1 DEF NoneDone
  <2>2. k \in 1 .. Len(s) /\ k \in 1 .. Len(s) + 1 /\ t[k] = s[k]
    BY <1>1, <2>1
  <2>3. Told(x, marks, t, k) <=> Told(x, marks, s, k)
    BY <1>1, <2>2, PlacesCat
  <2> QED
    BY <1>6, <2>2, <2>3 DEF ForwardInv, DoneInv
<1> QED
  BY <1>2, <1>5, <1>6 DEF DoneInv

SenderTyped ==
  /\ shadow \in [Page -> [Word -> SUBSET Bit]]
  /\ touched \subseteq Page /\ mallocs \subseteq Page /\ heap \subseteq Page
  /\ ro \in RoType
  /\ pc \in {"body", "malloc", "pages", "words", "event"}
  /\ pos \in 1 .. NumPages + 1 /\ word \in 0 .. NumWords
  /\ left \in [Page -> [Word -> Meta]]

LEMMA SenderStep ==
  ASSUME ForwardInv, NEW c, NEW marked, NEW u, NEW a, Sends(c, marked, u, a),
         SenderTyped', SlateInv', DoneInv', ToldInv'
  PROVE  ForwardInv'
<1>1. stream' \in Seq(AnyPacket) /\ Framed(lead', stream') /\ MappedInv'
  BY SendKeeps
<1>2. \A k \in 1 .. Len(stream') : stream'[k] \in AnyPacket
  BY <1>1
<1>3. \A k \in 1 .. Len(stream') : stream'[k] \in PacketType
  BY <1>2, PacketIsTyped
<1>4. UNCHANGED <<lead, mapped, marks>>
  BY DEF Sends, receiver
<1>5. TypeOK'
  BY <1>3, <1>4 DEF SenderTyped, TypeOK, ForwardInv, RoType
<1> QED
  BY <1>1, <1>5 DEF ForwardInv

LEMMA TypesOfSender ==
  ASSUME ForwardInv
  PROVE  /\ SenderTyped
         /\ NumPages \in Nat \ {0} /\ NumWords \in Nat \ {0} /\ WordLimit \in Nat
         /\ RoSize \in Nat \ {0}
         /\ Meta \subseteq SUBSET Bit /\ left \in [Page -> [Word -> SUBSET Bit]]
<1>1. Meta \subseteq SUBSET Bit
  BY DEF Meta, Bit
<1>2. SenderTyped
  BY DEF ForwardInv, TypeOK, SenderTyped, RoType
<1>3. left \in [Page -> [Word -> SUBSET Bit]]
  <2>1. \A q \in Page, w \in Word : left[q][w] \in SUBSET Bit
    BY <1>1, <1>2 DEF SenderTyped
  <2> QED
    BY <1>2, <2>1 DEF SenderTyped
<1> QED
  BY <1>1, <1>2, <1>3, ForwardAssumption DEF ForwardAssumption

-----------------------------------------------------------------------------
(* One lemma for each action of the sender. *)

LEMMA NothingSent ==
  ASSUME ForwardInv, UNCHANGED <<stream, receiver>>,
         heap' \subseteq heap \cup mallocs', mallocs \subseteq mallocs'
  PROVE  /\ Sends(<<>>, {}, {}, {}) /\ DoneInv'
         /\ \A x : ToldNow(x)' <=> ToldNow(x)
<1>1. stream \o <<>> = stream
  BY DEF ForwardInv
<1>2. Sends(<<>>, {}, {}, {})
  BY <1>1, NoChunk DEF Sends
<1> QED
  BY <1>2, SendTells, NoChunk

LEMMA RunBodyKeeps == ForwardInv /\ RunBody => ForwardInv'
<1> SUFFICES ASSUME ForwardInv, RunBody PROVE ForwardInv'
  OBVIOUS
<1>1. PICK fresh \in SUBSET (Page \ heap) :
        heap' = heap \cup fresh /\ mallocs' = mallocs \cup fresh
  BY DEF RunBody
<1>2. PICK used \in SUBSET heap', m \in [Page -> [Word -> Meta]] :
        /\ \A p \in Page \ used : m[p] = ZeroPage
        /\ touched' = touched \cup used
        /\ shadow' = [p \in Page |-> [w \in Word |-> shadow[p][w] \cup m[p][w]]]
        /\ left' = m
  BY DEF RunBody
<1>3. pc = "body" /\ pc' = "malloc" /\ UNCHANGED <<ro, pos, word, stream, receiver>>
  BY DEF RunBody
<1>4. \A p \in Page, w \in Word : shadow[p][w] = {}
  BY <1>3, TypesOfSender, ZeroWords DEF ForwardInv, SlateInv, SenderTyped
<1>5. \A p \in Page, w \in Word : shadow[p][w] \cup m[p][w] = m[p][w]
  BY <1>4
<1>6. shadow' = m
  <2>1. shadow' = [p \in Page |-> [w \in Word |-> m[p][w]]]
    BY <1>2, <1>5
  <2>2. \A p \in Page : [w \in Word |-> m[p][w]] = m[p]
    OBVIOUS
  <2> QED
    BY <2>1, <2>2
<1>7. Sends(<<>>, {}, {}, {}) /\ DoneInv' /\ \A x : ToldNow(x)' <=> ToldNow(x)
  BY <1>1, <1>3, NothingSent
<1>8. SenderTyped'
  <2>1. \A p \in Page, w \in Word : m[p][w] \in SUBSET Bit
    BY TypesOfSender
  <2>2. m \in [Page -> [Word -> SUBSET Bit]]
    BY <2>1
  <2> QED
    BY <1>1, <1>2, <1>3, <1>6, <2>2, TypesOfSender DEF SenderTyped
<1>9. SlateInv'
  <2>1. touched' \subseteq heap' /\ RoEntries(ro'.data) \subseteq heap' /\ ro' = ro
    BY <1>1, <1>2, <1>3 DEF ForwardInv, SlateInv
  <2>2. \A p \in Page : IsZero(shadow'[p]) \/ p \in touched'
    BY <1>2, <1>6 DEF IsZero
  <2> QED
    BY <1>2, <1>3, <1>6, <2>1, <2>2 DEF ForwardInv, SlateInv
<1>10. ToldInv'
  BY <1>3, <1>7 DEF ForwardInv, ToldInv
<1> QED
  BY <1>7, <1>8, <1>9, <1>10, SenderStep

LEMMA BroadcastMallocsKeeps == ForwardInv /\ BroadcastMallocs => ForwardInv'
<1> SUFFICES ASSUME ForwardInv, BroadcastMallocs PROVE ForwardInv'
  OBVIOUS
<1> PICK pk : pk = Alloc(mallocs)
  OBVIOUS
<1>1. /\ pc = "malloc" /\ pc' = "pages" /\ pos' = 1 /\ mallocs' = {}
      /\ stream' = stream \o <<pk>>
      /\ UNCHANGED <<shadow, touched, heap, ro, word, left, receiver>>
  BY DEF BroadcastMallocs, ForwardInv
<1>2. pk \in AllocPackets /\ pk.meta = {<<p, "alloc">> : p \in mallocs}
  BY TypesOfSender DEF Alloc, AllocPackets, SenderTyped
<1>3. pk \in AnyPacket /\ pk \notin FirstPackets /\ pk \notin SecondPackets
      /\ pk \notin RoPagePackets /\ pk \notin DonePackets
  BY <1>2, Kinds DEF AnyPacket
<1>4. Tells(pk) = {} /\ Updated(pk) = {} /\ Allocated(pk) = mallocs
  <2>1. {x[1] : x \in {<<p, "alloc">> : p \in mallocs}} = mallocs
    <3>1. \A p \in mallocs : <<p, "alloc">>[1] = p
      OBVIOUS
    <3> QED
      BY <3>1
  <2> QED
    BY <1>2, <1>3, <2>1 DEF Tells, Updated, Allocated, AllocPackets
<1>5. Chunk(<<pk>>, {}, {}, mallocs) /\ NoneDone(<<pk>>)
  BY <1>3, <1>4, SingleChunk
<1>6. Sends(<<pk>>, {}, {}, mallocs)
  BY <1>1, <1>5 DEF Sends
<1>7. DoneInv' /\ \A x : ToldNow(x)' <=> ToldNow(x)
  BY <1>5, <1>6, SendTells
<1>8. SenderTyped'
  BY <1>1, TypesOfSender DEF SenderTyped
<1>9. \A p \in Page : p >= 1
  BY DEF Page
<1>10. SlateInv'
  BY <1>1, <1>9, TypesOfSender DEF ForwardInv, SlateInv, SenderTyped
<1>11. ToldInv'
  <2>1. ro'.data = NoRo
    BY <1>1 DEF ForwardInv, SlateInv
  <2>2. \A x : ~ Buffered(x)'
    BY <2>1, EntriesOfNone DEF Buffered
  <2>3. \A x : ~ OfPagesBefore(x)'
    BY <1>1, <1>9 DEF OfPagesBefore, Page
  <2> QED
    BY <1>1, <1>7, <2>2, <2>3 DEF ForwardInv, ToldInv
<1> QED
  BY <1>6, <1>7, <1>8, <1>10, <1>11, SenderStep

(* The end of a turn of the loop over the pages *)
LEMMA NextPage ==
  ASSUME ForwardInv, pos \in Page, pos' = pos + 1, left' = left
  PROVE  \A x : OfPagesBefore(x)' <=> OfPagesBefore(x) \/ x \in MarksOf(pos, left[pos])
<1>1. \A p \in Page : p < pos + 1 <=> p < pos \/ p = pos
  BY DEF Page
<1> QED
  BY <1>1 DEF OfPagesBefore

LEMMA PageDone ==
  ASSUME ForwardInv, pc \in {"pages", "words"}, pos \in Page,
         pc' = "pages", pos' = pos + 1, UNCHANGED <<left, heap, mallocs>>,
         touched' = touched \ {pos}, IsZero(shadow'[pos]),
         \A p \in Page \ {pos} : shadow'[p] = shadow[p],
         FreeFrom(ro'), RoEntries(ro'.data) \subseteq heap
  PROVE  SlateInv'
<1>1. \A p \in Page : p >= pos + 1 => p >= pos /\ p # pos
  BY DEF Page
<1>2. \A p \in Page : p >= pos /\ p # pos => p >= pos + 1
  BY DEF Page
<1>3. \A p \in touched' : p >= pos'
  BY <1>2, TypesOfSender DEF ForwardInv, SlateInv, SenderTyped
<1>4. \A p \in Page : IsZero(shadow'[p]) \/ p \in touched'
  BY DEF ForwardInv, SlateInv
<1>5. \A p \in Page : p >= pos' => shadow'[p] = left'[p]
  BY <1>1 DEF ForwardInv, SlateInv
<1> QED
  BY <1>3, <1>4, <1>5 DEF ForwardInv, SlateInv, IsZero

LEMMA PosTypes ==
  ASSUME ForwardInv, pos \in Page, pc \in {"pages", "words"}
  PROVE  /\ pos + 1 \in 1 .. NumPages + 1 /\ pos \in Nat /\ pos >= pos
         /\ shadow[pos] = left[pos] /\ left[pos] \in [Word -> SUBSET Bit]
         /\ mallocs = {}
<1>1. pos + 1 \in 1 .. NumPages + 1 /\ pos \in Nat /\ pos >= pos
  BY TypesOfSender DEF Page
<1> QED
  BY <1>1, TypesOfSender DEF ForwardInv, SlateInv

LEMMA ZeroPageTyped == ZeroPage \in [Word -> SUBSET Bit] /\ IsZero(ZeroPage)
BY DEF ZeroPage, IsZero

LEMMA SkipPageKeeps == ForwardInv /\ SkipPage => ForwardInv'
<1> SUFFICES ASSUME ForwardInv, SkipPage PROVE ForwardInv'
  OBVIOUS
<1>1. /\ pc = "pages" /\ pos \in Page /\ touched' = touched \ {pos} /\ pos' = pos + 1
      /\ UNCHANGED <<shadow, mallocs, heap, ro, pc, word, left, stream, receiver>>
      /\ pos \notin touched \/ IsZero(shadow[pos])
  BY DEF SkipPage
<1>2. IsZero(shadow[pos]) /\ MarksOf(pos, left[pos]) = {}
  BY <1>1, PosTypes, MarksAre DEF ForwardInv, SlateInv
<1>3. Sends(<<>>, {}, {}, {}) /\ DoneInv' /\ \A x : ToldNow(x)' <=> ToldNow(x)
  BY <1>1, NothingSent, TypesOfSender DEF SenderTyped
<1>4. SenderTyped'
  BY <1>1, TypesOfSender, PosTypes DEF SenderTyped
<1>5. SlateInv'
  BY <1>1, <1>2, PageDone DEF ForwardInv, SlateInv
<1>6. ToldInv'
  <2>1. \A x : OfPagesBefore(x)' <=> OfPagesBefore(x)
    BY <1>1, <1>2, NextPage
  <2>2. \A x : Buffered(x)' <=> Buffered(x)
    BY <1>1 DEF Buffered
  <2> QED
    BY <1>1, <1>3, <2>1, <2>2 DEF ForwardInv, ToldInv
<1> QED
  BY <1>3, <1>4, <1>5, <1>6, SenderStep

LEMMA ForwardWholeKeeps == ForwardInv /\ ForwardWhole => ForwardInv'
<1> SUFFICES ASSUME ForwardInv, ForwardWhole PROVE ForwardInv'
  OBVIOUS
<1> PICK page : page = left[pos]
  OBVIOUS
<1>1. /\ pc = "pages" /\ pos \in touched /\ ~IsZero(shadow[pos])
      /\ touched' = touched \ {pos} /\ pos' = pos + 1
      /\ NonZero(shadow[pos]) > WordLimit
      /\ stream' = stream \o <<MemPage(pos), ShadowPage(pos, ClearRead(shadow[pos]))>>
      /\ shadow' = [shadow EXCEPT ![pos] = ZeroPage]
      /\ UNCHANGED <<mallocs, heap, ro, pc, word, left, receiver>>
  BY DEF ForwardWhole, ToForward
<1>2. pos \in Page /\ pos \in heap
  BY <1>1, TypesOfSender DEF SenderTyped, ForwardInv, SlateInv
<1>3. /\ page \in [Word -> SUBSET Bit] /\ shadow[pos] = page /\ ClearRead(page) = page
      /\ mallocs = {}
  BY <1>1, <1>2, PosTypes, ClearReadIsIdentity
<1>4. ~IsReadOnly(page)
  BY <1>1, <1>3, NonZeroCounts, TypesOfSender
<1>5. \A x : x \in MarksOf(pos, page) <=> \E w \in Word : page[w] # {} /\ x = <<pos, w, page[w]>>
  BY <1>2, <1>3, <1>4, MarksAre
<1> PICK marked : marked = {<<pos, w, page[w]>> : w \in {v \in Word : page[v] # {}}}
  OBVIOUS
<1>6. marked = MarksOf(pos, page) /\ marked \in SUBSET Mark
  BY <1>2, <1>3, <1>5, MarksAre
<1>7. /\ MemPage(pos) \in FirstPackets /\ MemPage(pos).page = pos
      /\ ShadowPage(pos, page) \in SecondPackets
      /\ ShadowPage(pos, page).meta = marked
      /\ Completes(ShadowPage(pos, page), MemPage(pos))
  BY <1>2, <1>6 DEF MemPage, ShadowPage, FirstPackets, SecondPackets, Completes
<1> PICK c : c = <<MemPage(pos), ShadowPage(pos, page)>>
  OBVIOUS
<1>8. Chunk(c, marked, {pos}, {}) /\ NoneDone(c)
  BY <1>7, PairChunk
<1>9. Sends(c, marked, {pos}, {})
  BY <1>1, <1>2, <1>3, <1>8 DEF Sends
<1>10. DoneInv' /\ \A x : ToldNow(x)' <=> ToldNow(x) \/ x \in marked
  BY <1>8, <1>9, SendTells
<1>11. SenderTyped'
  BY <1>1, <1>2, TypesOfSender, PosTypes, ZeroPageTyped DEF SenderTyped
<1>12. SlateInv'
  <2>1. shadow'[pos] = ZeroPage /\ \A p \in Page \ {pos} : shadow'[p] = shadow[p]
    BY <1>1, <1>2, TypesOfSender DEF SenderTyped
  <2> QED
    BY <1>1, <1>2, <2>1, ZeroPageTyped, PageDone DEF ForwardInv, SlateInv
<1>13. ToldInv'
  <2>1. \A x : OfPagesBefore(x)' <=> OfPagesBefore(x) \/ x \in marked
    BY <1>1, <1>2, <1>6, NextPage
  <2>2. \A x : Buffered(x)' <=> Buffered(x)
    BY <1>1 DEF Buffered
  <2> QED
    BY <1>1, <1>10, <2>1, <2>2 DEF ForwardInv, ToldInv
<1> QED
  BY <1>9, <1>10, <1>11, <1>12, <1>13, SenderStep

LEMMA BufferRoPageKeeps == ForwardInv /\ BufferRoPage => ForwardInv'
<1> SUFFICES ASSUME ForwardInv, BufferRoPage PROVE ForwardInv'
  OBVIOUS
<1> PICK page : page = left[pos]
  OBVIOUS
<1>1. /\ pc = "pages" /\ pos \in touched /\ ~IsZero(shadow[pos])
      /\ touched' = touched \ {pos} /\ pos' = pos + 1
      /\ NonZero(shadow[pos]) = 0
      /\ stream' = IF RoFull(ro) THEN stream \o RoPackets(ro) ELSE stream
      /\ ro' = RoAdd(ro, pos)
      /\ shadow' = [shadow EXCEPT ![pos] = ZeroPage]
      /\ UNCHANGED <<mallocs, heap, pc, word, left, receiver>>
  BY DEF BufferRoPage, ToForward
<1>2. pos \in Page /\ pos \in heap
  BY <1>1, TypesOfSender DEF SenderTyped, ForwardInv, SlateInv
<1>3. page \in [Word -> SUBSET Bit] /\ shadow[pos] = page /\ mallocs = {}
  BY <1>1, <1>2, PosTypes
<1>4. MarksOf(pos, page) = {<<pos, "read">>}
  BY <1>1, <1>2, <1>3, NonZeroCounts, MarksAre
<1>5. ro \in RoType /\ FreeFrom(ro) /\ RoEntries(ro.data) \subseteq heap
  BY TypesOfSender DEF SenderTyped, ForwardInv, SlateInv
<1> PICK sent : sent = IF RoFull(ro) THEN RoEntries(ro.data) ELSE {}
  OBVIOUS
<1>6. /\ ro' \in RoType /\ FreeFrom(ro')
      /\ RoEntries(ro'.data) = (RoEntries(ro.data) \ sent) \cup {pos}
  BY <1>1, <1>2, <1>5, RoAddIs
<1> PICK c : c = IF RoFull(ro) THEN RoPackets(ro) ELSE <<>>
  OBVIOUS
<1>7. Chunk(c, sent \X {"read"}, sent, {}) /\ NoneDone(c)
  <2>1. CASE RoFull(ro)
    BY <1>5, <2>1, RoChunk
  <2>2. CASE ~RoFull(ro)
    <3>1. sent \X {"read"} = {}
      BY <2>2
    <3> QED
      BY <2>2, <3>1, NoChunk
  <2> QED
    BY <2>1, <2>2
<1>8. stream' = stream \o c
  BY <1>1 DEF ForwardInv
<1>9. Sends(c, sent \X {"read"}, sent, {})
  BY <1>1, <1>3, <1>5, <1>7, <1>8 DEF Sends
<1>10. DoneInv' /\ \A x : ToldNow(x)' <=> ToldNow(x) \/ x \in sent \X {"read"}
  BY <1>7, <1>9, SendTells
<1>11. SenderTyped'
  BY <1>1, <1>2, <1>6, TypesOfSender, PosTypes, ZeroPageTyped DEF SenderTyped
<1>12. SlateInv'
  <2>1. shadow'[pos] = ZeroPage /\ \A p \in Page \ {pos} : shadow'[p] = shadow[p]
    BY <1>1, <1>2, TypesOfSender DEF SenderTyped
  <2>2. RoEntries(ro'.data) \subseteq heap
    BY <1>2, <1>5, <1>6
  <2> QED
    BY <1>1, <1>2, <1>6, <2>1, <2>2, ZeroPageTyped, PageDone
<1>13. ToldInv'
  <2>1. \A x : OfPagesBefore(x)' <=> OfPagesBefore(x) \/ x = <<pos, "read">>
    BY <1>1, <1>2, <1>4, NextPage
  <2>2. \A x : Buffered(x)' <=>
          (\E p \in RoEntries(ro.data) \ sent : x = <<p, "read">>) \/ x = <<pos, "read">>
    BY <1>6 DEF Buffered
  <2>3. \A x : x \in sent \X {"read"} <=> \E p \in sent : x = <<p, "read">>
    OBVIOUS
  <2>4. sent \subseteq RoEntries(ro.data)
    OBVIOUS
  <2>5. \A x : (Buffered(x)' \/ x \in sent \X {"read"}) <=> (Buffered(x) \/ x = <<pos, "read">>)
    BY <2>2, <2>3, <2>4 DEF Buffered
  <2> QED
    BY <1>1, <1>10, <2>1, <2>5 DEF ForwardInv, ToldInv
<1> QED
  BY <1>9, <1>10, <1>11, <1>12, <1>13, SenderStep

LEMMA BeginWordsKeeps == ForwardInv /\ BeginWords => ForwardInv'
<1> SUFFICES ASSUME ForwardInv, BeginWords PROVE ForwardInv'
  OBVIOUS
<1>1. /\ pc = "pages" /\ pos \in touched /\ ~IsZero(shadow[pos])
      /\ touched' = touched \ {pos} /\ pc' = "words" /\ word' = 0
      /\ NonZero(shadow[pos]) \in 1 .. WordLimit
      /\ shadow' = [shadow EXCEPT ![pos] = ClearRead(shadow[pos])]
      /\ UNCHANGED <<mallocs, heap, ro, pos, left, stream, receiver>>
  BY DEF BeginWords, ToForward
<1>2. pos \in Page /\ pos \in heap
  BY <1>1, TypesOfSender DEF SenderTyped, ForwardInv, SlateInv
<1>3. left[pos] \in [Word -> SUBSET Bit] /\ shadow[pos] = left[pos] /\ mallocs = {}
  BY <1>1, <1>2, PosTypes
<1>4. ~IsReadOnly(left[pos])
  <2>1. NonZero(left[pos]) # 0
    BY <1>1, <1>3, TypesOfSender
  <2> QED
    BY <1>1, <1>3, <2>1, NonZeroCounts
<1>5. shadow' = shadow
  BY <1>1, <1>2, <1>3, ClearReadIsIdentity, TypesOfSender DEF SenderTyped
<1>6. Sends(<<>>, {}, {}, {}) /\ DoneInv' /\ \A x : ToldNow(x)' <=> ToldNow(x)
  BY <1>1, NothingSent, TypesOfSender DEF SenderTyped
<1>7. SenderTyped'
  BY <1>1, <1>5, TypesOfSender DEF SenderTyped
<1>8. SlateInv'
  BY <1>1, <1>2, <1>4, <1>5 DEF ForwardInv, SlateInv, IsZero
<1>9. ToldInv'
  <2>1. \A x : ~ OfWordsBefore(x)'
    BY <1>1 DEF OfWordsBefore, Word
  <2>2. \A x : (OfPagesBefore(x)' <=> OfPagesBefore(x)) /\ (Buffered(x)' <=> Buffered(x))
    BY <1>1 DEF OfPagesBefore, Buffered
  <2> QED
    BY <1>1, <1>6, <2>1, <2>2 DEF ForwardInv, ToldInv
<1> QED
  BY <1>6, <1>7, <1>8, <1>9, SenderStep

LEMMA ForwardWordKeeps == ForwardInv /\ ForwardWord => ForwardInv'
<1> SUFFICES ASSUME ForwardInv, ForwardWord PROVE ForwardInv'
  OBVIOUS
<1> PICK m : m = left[pos][word]
  OBVIOUS
<1>1. /\ pc = "words" /\ word \in Word /\ word' = word + 1
      /\ stream' = IF shadow[pos][word] = {} THEN stream
                   ELSE stream \o <<MemWord(pos, word),
                                    ShadowWord(pos, word, shadow[pos][word])>>
      /\ UNCHANGED <<shadow, touched, mallocs, heap, ro, pc, pos, left, receiver>>
  BY DEF ForwardWord
<1>2. pos \in Page /\ pos \in heap
  BY <1>1 DEF ForwardInv, SlateInv
<1>3. /\ left[pos] \in [Word -> SUBSET Bit] /\ shadow[pos] = left[pos] /\ mallocs = {}
      /\ m \in SUBSET Bit
  BY <1>1, <1>2, PosTypes
<1> PICK u : u = IF m = {} THEN {} ELSE {pos}
  OBVIOUS
<1> PICK marked : marked = IF m = {} THEN {} ELSE {<<pos, word, m>>}
  OBVIOUS
<1> PICK c : c = IF m = {} THEN <<>> ELSE <<MemWord(pos, word), ShadowWord(pos, word, m)>>
  OBVIOUS
<1>4. Chunk(c, marked, u, {}) /\ NoneDone(c)
  <2>1. CASE m = {}
    BY <2>1, NoChunk
  <2>2. CASE m # {}
    <3>1. {<<pos, word, m>>} \in SUBSET Mark
      BY <1>1, <1>2, <1>3 DEF Mark
    <3>2. /\ MemWord(pos, word) \in FirstPackets /\ MemWord(pos, word).page = pos
          /\ ShadowWord(pos, word, m) \in SecondPackets
          /\ ShadowWord(pos, word, m).meta = {<<pos, word, m>>}
          /\ Completes(ShadowWord(pos, word, m), MemWord(pos, word))
      BY <1>1, <1>2, <3>1 DEF MemWord, ShadowWord, FirstPackets, SecondPackets, Completes
    <3> QED
      BY <2>2, <3>2, PairChunk
  <2> QED
    BY <2>1, <2>2
<1>5. Sends(c, marked, u, {})
  <2>1. stream' = stream \o c
    BY <1>1, <1>3 DEF ForwardInv
  <2> QED
    BY <1>1, <1>2, <1>3, <1>4, <2>1 DEF Sends
<1>6. DoneInv' /\ \A x : ToldNow(x)' <=> ToldNow(x) \/ x \in marked
  BY <1>4, <1>5, SendTells
<1>7. SenderTyped'
  <2>1. word + 1 \in 0 .. NumWords
    BY <1>1, TypesOfSender DEF Word
  <2> QED
    BY <1>1, <2>1, TypesOfSender DEF SenderTyped
<1>8. SlateInv'
  BY <1>1 DEF ForwardInv, SlateInv, IsZero
<1>9. ToldInv'
  <2>1. \A v \in Word : v < word + 1 <=> v < word \/ v = word
    BY <1>1 DEF Word
  <2>2. \A x : OfWordsBefore(x)' <=> OfWordsBefore(x) \/ x \in marked
    BY <1>1, <2>1 DEF OfWordsBefore
  <2>3. \A x : (OfPagesBefore(x)' <=> OfPagesBefore(x)) /\ (Buffered(x)' <=> Buffered(x))
    BY <1>1 DEF OfPagesBefore, Buffered
  <2> QED
    BY <1>1, <1>6, <2>2, <2>3 DEF ForwardInv, ToldInv
<1> QED
  BY <1>5, <1>6, <1>7, <1>8, <1>9, SenderStep

LEMMA EndWordsKeeps == ForwardInv /\ EndWords => ForwardInv'
<1> SUFFICES ASSUME ForwardInv, EndWords PROVE ForwardInv'
  OBVIOUS
<1>1. /\ pc = "words" /\ word = NumWords /\ pc' = "pages" /\ pos' = pos + 1 /\ word' = 0
      /\ shadow' = [shadow EXCEPT ![pos] = ZeroPage]
      /\ UNCHANGED <<touched, mallocs, heap, ro, left, stream, receiver>>
  BY DEF EndWords
<1>2. pos \in Page /\ touched = touched \ {pos} /\ ~IsReadOnly(left[pos])
  BY <1>1 DEF ForwardInv, SlateInv
<1>3. left[pos] \in [Word -> SUBSET Bit] /\ mallocs = {}
  BY <1>1, <1>2, PosTypes
<1>4. Sends(<<>>, {}, {}, {}) /\ DoneInv' /\ \A x : ToldNow(x)' <=> ToldNow(x)
  BY <1>1, NothingSent, TypesOfSender DEF SenderTyped
<1>5. SenderTyped'
  <2>1. 0 \in 0 .. NumWords
    BY TypesOfSender
  <2> QED
    BY <1>1, <1>2, <2>1, TypesOfSender, PosTypes, ZeroPageTyped DEF SenderTyped
<1>6. SlateInv'
  <2>1. shadow'[pos] = ZeroPage /\ \A p \in Page \ {pos} : shadow'[p] = shadow[p]
    BY <1>1, <1>2, TypesOfSender DEF SenderTyped
  <2>2. FreeFrom(ro') /\ RoEntries(ro'.data) \subseteq heap
    BY <1>1 DEF ForwardInv, SlateInv
  <2> QED
    BY <1>1, <1>2, <2>1, <2>2, ZeroPageTyped, PageDone
<1>7. ToldInv'
  <2>1. \A v \in Word : v < word
    BY <1>1, TypesOfSender DEF Word
  <2>2. \A x : OfWordsBefore(x) <=> x \in MarksOf(pos, left[pos])
    BY <1>2, <1>3, <2>1, MarksAre DEF OfWordsBefore
  <2>3. \A x : OfPagesBefore(x)' <=> OfPagesBefore(x) \/ x \in MarksOf(pos, left[pos])
    BY <1>1, <1>2, NextPage
  <2>4. \A x : Buffered(x)' <=> Buffered(x)
    BY <1>1 DEF Buffered
  <2> QED
    BY <1>1, <1>4, <2>2, <2>3, <2>4 DEF ForwardInv, ToldInv
<1> QED
  BY <1>4, <1>5, <1>6, <1>7, SenderStep

LEMMA ForwardRoPageKeeps == ForwardInv /\ ForwardRoPage => ForwardInv'
<1> SUFFICES ASSUME ForwardInv, ForwardRoPage PROVE ForwardInv'
  OBVIOUS
<1> PICK e : e = RoEntries(ro.data)
  OBVIOUS
<1>1. /\ pc = "pages" /\ pos > NumPages /\ pc' = "event"
      /\ stream' = stream \o RoPackets(ro) /\ ro' = RoErased(ro)
      /\ UNCHANGED <<shadow, touched, mallocs, heap, pos, word, left, receiver>>
  BY DEF ForwardRoPage
<1>2. ro \in RoType /\ FreeFrom(ro) /\ e \subseteq heap /\ mallocs = {}
  BY <1>1, TypesOfSender DEF SenderTyped, ForwardInv, SlateInv
<1>3. Chunk(RoPackets(ro), e \X {"read"}, e, {}) /\ NoneDone(RoPackets(ro))
  BY <1>2, RoChunk
<1>4. Sends(RoPackets(ro), e \X {"read"}, e, {})
  BY <1>1, <1>2, <1>3 DEF Sends
<1>5. DoneInv' /\ \A x : ToldNow(x)' <=> ToldNow(x) \/ x \in e \X {"read"}
  BY <1>3, <1>4, SendTells
<1>6. ro' \in RoType /\ ro'.data = NoRo /\ FreeFrom(ro')
  BY <1>1, <1>2, RoErasedIs
<1>7. SenderTyped'
  BY <1>1, <1>6, TypesOfSender DEF SenderTyped
<1>8. \A p \in Page : p < pos /\ ~ (p >= pos)
  BY <1>1, TypesOfSender DEF Page, SenderTyped
<1>9. SlateInv'
  <2>1. touched = {}
    BY <1>1, <1>8, TypesOfSender DEF SenderTyped, ForwardInv, SlateInv
  <2> QED
    BY <1>1, <1>6, <2>1, EntriesOfNone DEF ForwardInv, SlateInv, IsZero
<1>10. ToldInv'
  <2>1. \A x : OfPagesBefore(x) <=> x \in Expected
    BY <1>8 DEF OfPagesBefore, Expected
  <2>2. \A x : Buffered(x) <=> x \in e \X {"read"}
    BY DEF Buffered
  <2>3. Expected' = Expected
    BY <1>1 DEF Expected
  <2> QED
    BY <1>1, <1>5, <2>1, <2>2, <2>3 DEF ForwardInv, ToldInv
<1> QED
  BY <1>4, <1>5, <1>7, <1>9, <1>10, SenderStep

(* The DONE packet finds everything told, and after it nothing is.         *)
LEMMA BroadcastEventKeeps == ForwardInv /\ BroadcastEvent => ForwardInv'
<1> SUFFICES ASSUME ForwardInv, BroadcastEvent PROVE ForwardInv'
  OBVIOUS
<1> PICK d : d = Done(Expected)
  OBVIOUS
<1>1. /\ pc = "event" /\ pc' = "body" /\ pos' = 1
      /\ stream' = stream \o <<d>> /\ left' = [p \in Page |-> ZeroPage]
      /\ UNCHANGED <<shadow, touched, mallocs, heap, ro, word, receiver>>
  BY DEF BroadcastEvent, ForwardInv
<1>2. Expected \in SUBSET Mark
  <2>1. \A p \in Page : MarksOf(p, left[p]) \subseteq Mark
    BY TypesOfSender, MarksAre
  <2> QED
    BY <2>1 DEF Expected
<1>3. d \in DonePackets /\ d.meta = Expected
  BY <1>2 DEF Done, DonePackets
<1>4. d \in AnyPacket /\ d \notin FirstPackets /\ d \notin SecondPackets /\ d \notin RoPagePackets
  BY <1>3, Kinds DEF AnyPacket
<1>5. Tells(d) = {} /\ Updated(d) = {} /\ Allocated(d) = {}
  BY <1>3, <1>4 DEF Tells, Updated, Allocated, DonePackets
<1>6. Sends(<<d>>, {}, {}, {})
  BY <1>1, <1>4, <1>5, SingleChunk DEF Sends
<1> PICK s \in Seq(AnyPacket) : s = stream
  BY DEF ForwardInv
<1>7. /\ <<d>> \in Seq(AnyPacket) /\ Len(<<d>>) = 1 /\ <<d>>[1] = d
      /\ Len(s) \in Nat /\ Len(s \o <<d>>) = Len(s) + 1
      /\ (s \o <<d>>)[Len(s) + 1] = d
      /\ \A k \in 1 .. Len(s) : (s \o <<d>>)[k] = s[k]
  BY <1>4, Cat
<1>8. DoneInv'
  <2> SUFFICES ASSUME NEW k \in 1 .. Len(s) + 1, (s \o <<d>>)[k] \in DonePackets, NEW x \in Mark
               PROVE  Told(x, marks, s \o <<d>>, k) <=> x \in (s \o <<d>>)[k].meta
    BY <1>1, <1>7 DEF DoneInv, receiver
  <2>1. Told(x, marks, s \o <<d>>, k) <=> Told(x, marks, s, k)
    BY <1>7, PlacesCat
  <2>2. CASE k \in 1 .. Len(s)
    BY <1>7, <2>1, <2>2 DEF ForwardInv, DoneInv
  <2>3. CASE k = Len(s) + 1
    BY <1>1, <1>3, <1>7, <2>1, <2>3 DEF ForwardInv, ToldInv, ToldNow
  <2> QED
    BY <1>7, <2>2, <2>3
<1>9. SenderTyped'
  <2>1. 1 \in 1 .. NumPages + 1 /\ ZeroPage \in [Word -> Meta]
    BY TypesOfSender DEF ZeroPage, Meta
  <2> QED
    BY <1>1, <2>1, TypesOfSender DEF SenderTyped
<1>10. SlateInv'
  BY <1>1 DEF ForwardInv, SlateInv, IsZero
<1>11. ToldInv'
  <2>1. \A x : ~ ToldNow(x)'
    BY <1>1, <1>3, ToldAfterDone DEF ToldNow, receiver
  <2> QED
    BY <1>1, <2>1 DEF ToldInv
<1> QED
  BY <1>6, <1>8, <1>9, <1>10, <1>11, SenderStep

-----------------------------------------------------------------------------
(* One lemma for all that the receiver takes, *)
Takes ==
  /\ stream # <<>> /\ stream' = Tail(stream) /\ UNCHANGED sender
  /\ mapped' = mapped \cup Allocated(Head(stream))
  /\ \/ Head(stream) \notin DonePackets /\ marks' = marks \cup Tells(Head(stream))
     \/ Head(stream) \in DonePackets /\ marks' = {}

LEMMA TellsMarks ==
  ASSUME NEW pk \in AnyPacket
  PROVE  Tells(pk) \subseteq Mark /\ Allocated(pk) \subseteq Page
<1>1. Page \X {"read"} \subseteq Mark
  BY DEF Mark
<1>2. pk \in RoPagePackets \/ pk \in SecondPackets => pk.meta \subseteq Mark
  BY <1>1 DEF RoPagePackets, SecondPackets
<1>3. Tells(pk) \subseteq Mark
  BY <1>2, Kinds DEF Tells
<1>4. pk \in AllocPackets => \A x \in pk.meta : x[1] \in Page
  BY DEF AllocPackets
<1> QED
  BY <1>3, <1>4, Kinds DEF Allocated

LEMMA TakeKeeps ==
  ASSUME ForwardInv, Takes,
         \/ /\ lead # NULL \/ Head(stream) \notin FirstPackets
            /\ lead' = NULL
         \/ /\ lead = NULL /\ Head(stream) \in FirstPackets
            /\ lead' = Head(stream)
  PROVE  ForwardInv'
<1> PICK s \in Seq(AnyPacket) : s = stream
  BY DEF ForwardInv
<1> PICK t \in Seq(AnyPacket) : t = Tail(s)
  BY Rest DEF Takes
<1>1. /\ s # <<>> /\ Len(t) = Len(s) - 1 /\ Len(s) \in Nat \ {0} /\ Head(s) = s[1]
      /\ s[1] \in AnyPacket
      /\ \A k \in 1 .. Len(s) - 1 : t[k] = s[k + 1] /\ s[k + 1] \in AnyPacket
  BY Rest DEF Takes
<1>2. stream' = t /\ UNCHANGED sender
  BY DEF Takes
<1>3. Framed(lead', t)
  BY <1>1, FramedRest DEF ForwardInv
<1>4. \A p : \A k \in 1 .. Len(s) : Known(p, mapped', t, k) <=> Known(p, mapped, s, k + 1)
  BY <1>1, PlacesRest DEF Takes
<1>5. \A x : \A k \in 1 .. Len(s) : Told(x, marks', t, k) <=> Told(x, marks, s, k + 1)
  <2>1. CASE s[1] \notin DonePackets
    <3>1. marks' = marks \cup Tells(s[1])
      BY <1>1, <2>1 DEF Takes
    <3> QED
      BY <1>1, <2>1, <3>1, PlacesRest
  <2>2. CASE s[1] \in DonePackets
    <3>1. marks' = {}
      BY <1>1, <2>2 DEF Takes
    <3> QED
      BY <1>1, <2>2, <3>1, PlacesRest
  <2> QED
    BY <2>1, <2>2
<1>6. \A k \in 1 .. Len(t) : k \in 1 .. Len(s) /\ k + 1 \in 1 .. Len(s) /\ t[k] = s[k + 1]
  BY <1>1
<1>7. Len(t) + 1 = Len(s) /\ Len(s) \in 1 .. Len(s)
  BY <1>1
<1>8. MappedInv'
  <2>1. ASSUME lead' # NULL PROVE lead'.page \in mapped'
    <3>1. lead' = s[1] /\ s[1] \in FirstPackets /\ 1 \in 1 .. Len(s)
      BY <1>1, <2>1
    <3>2. Known(s[1].page, mapped, s, 1)
      BY <3>1 DEF ForwardInv, MappedInv, Updated
    <3>3. s[1].page \in mapped
      BY <3>2 DEF Known
    <3> QED
      BY <3>1, <3>3 DEF Takes
  <2>2. \A k \in 1 .. Len(t) : \A p \in Updated(t[k]) : Known(p, mapped', t, k)
    BY <1>4, <1>6 DEF ForwardInv, MappedInv
  <2>3. \A p \in heap : p \in mallocs \/ Known(p, mapped', t, Len(t) + 1)
    BY <1>4, <1>7 DEF ForwardInv, MappedInv
  <2> QED
    BY <1>2, <2>1, <2>2, <2>3 DEF MappedInv, sender
<1>9. SlateInv'
  BY <1>2 DEF ForwardInv, SlateInv, sender, IsZero
<1>10. DoneInv'
  BY <1>2, <1>5, <1>6 DEF ForwardInv, DoneInv
<1>11. \A x : ToldNow(x)' <=> ToldNow(x)
  BY <1>2, <1>5, <1>7 DEF ToldNow
<1>12. ToldInv'
  <2>1. /\ \A x : Buffered(x)' <=> Buffered(x)
        /\ \A x : OfPagesBefore(x)' <=> OfPagesBefore(x)
        /\ \A x : OfWordsBefore(x)' <=> OfWordsBefore(x)
        /\ Expected' = Expected /\ pc' = pc
    BY <1>2 DEF Buffered, OfPagesBefore, OfWordsBefore, Expected, sender
  <2> QED
    BY <1>11, <2>1 DEF ForwardInv, ToldInv
<1>13. TypeOK'
  <2>1. \A k \in 1 .. Len(t) : t[k] \in PacketType
    BY <1>6, PacketIsTyped, <1>1
  <2>2. lead' = NULL \/ lead' \in PacketType
    BY <1>1, PacketIsTyped
  <2>3. mapped' \subseteq Page /\ marks' \subseteq Mark
    BY <1>1, TellsMarks DEF Takes, ForwardInv, TypeOK
  <2> QED
    BY <1>2, <2>1, <2>2, <2>3 DEF ForwardInv, TypeOK, sender
<1> QED
  BY <1>2, <1>3, <1>8, <1>9, <1>10, <1>12, <1>13 DEF ForwardInv

(* and what each of its actions takes. *)
LEMMA ReceiverKeeps == ForwardInv /\ Receiver => ForwardInv'
<1> SUFFICES ASSUME ForwardInv, Receiver PROVE ForwardInv'
  OBVIOUS
<1> PICK s \in Seq(AnyPacket) : s = stream
  BY DEF ForwardInv
<1>1. s # <<>> /\ Packet = Head(s) /\ Head(s) = s[1] /\ Head(s) \in AnyPacket
  BY Rest DEF Receiver, ReceivePacket, TakeFirst, TakeShadow, TakeRoPage, TakeAlloc, TakeDone, Packet
<1>2. lead # NULL => Head(s) \in SecondPackets
  BY <1>1 DEF ForwardInv, Framed, Completes
<1>3. lead = NULL => Head(s) \notin SecondPackets
  BY <1>1 DEF ForwardInv, Framed
<1> PICK h \in AnyPacket : h = Head(s)
  BY <1>1
<1>4. CASE TakeFirst
  <2>1. h \in FirstPackets
    BY <1>1, <1>3, <1>4, Kinds DEF TakeFirst
  <2>2. h \notin DonePackets /\ Tells(h) = {} /\ Allocated(h) = {}
    BY <2>1, Kinds DEF Tells, Allocated, FirstPackets
  <2>3. Takes
    BY <1>1, <1>4, <2>2 DEF TakeFirst, Takes
  <2> QED
    BY <1>1, <1>4, <2>1, <2>3, TakeKeeps DEF TakeFirst
<1>5. CASE TakeShadow
  <2>1. h \in SecondPackets
    BY <1>2, <1>5 DEF TakeShadow
  <2>2. h \notin DonePackets /\ Tells(h) = h.meta /\ Allocated(h) = {}
    BY <2>1, Kinds DEF Tells, Allocated, SecondPackets
  <2>3. Takes
    BY <1>1, <1>5, <2>2 DEF TakeShadow, Takes
  <2> QED
    BY <1>1, <1>5, <2>3, TakeKeeps DEF TakeShadow
<1>6. CASE TakeRoPage
  <2>1. h \in RoPagePackets
    BY <1>1, <1>6, Kinds DEF TakeRoPage
  <2>2. /\ h \notin DonePackets /\ h \notin FirstPackets
        /\ Tells(h) = h.meta /\ Allocated(h) = {}
    BY <2>1, Kinds DEF Tells, Allocated, RoPagePackets
  <2>3. Takes
    BY <1>1, <1>6, <2>2 DEF TakeRoPage, Takes
  <2> QED
    BY <1>1, <1>6, <2>2, <2>3, TakeKeeps DEF TakeRoPage
<1>7. CASE TakeAlloc
  <2>1. h \in AllocPackets
    BY <1>1, <1>7, Kinds DEF TakeAlloc
  <2>2. /\ h \notin DonePackets /\ h \notin FirstPackets
        /\ Tells(h) = {} /\ Allocated(h) = {x[1] : x \in h.meta}
    BY <2>1, Kinds DEF Tells, Allocated, AllocPackets
  <2>3. Takes
    BY <1>1, <1>7, <2>2 DEF TakeAlloc, Takes
  <2> QED
    BY <1>1, <1>7, <2>2, <2>3, TakeKeeps DEF TakeAlloc
<1>8. CASE TakeDone
  <2>1. h \in DonePackets
    BY <1>1, <1>8, Kinds DEF TakeDone
  <2>2. h \notin FirstPackets /\ Allocated(h) = {}
    BY <2>1, Kinds DEF Allocated, DonePackets
  <2>3. Takes
    BY <1>1, <1>8, <2>1, <2>2 DEF TakeDone, Takes
  <2> QED
    BY <1>1, <1>8, <2>2, <2>3, TakeKeeps DEF TakeDone
<1> QED
  BY <1>4, <1>5, <1>6, <1>7, <1>8 DEF Receiver, ReceivePacket

LEMMA ForwardStart == Init => ForwardInv
<1> SUFFICES ASSUME Init PROVE ForwardInv
  OBVIOUS
<1>1. /\ NumPages \in Nat \ {0} /\ NumStatic \in 0 .. NumPages /\ NumWords \in Nat \ {0}
      /\ RoSize \in Nat \ {0}
  BY ForwardAssumption DEF ForwardAssumption
<1>2. Static \subseteq Page
  BY <1>1 DEF Static, Page
<1>3. ro \in RoType /\ ro.data = NoRo /\ FreeFrom(ro)
  BY <1>1, EntriesOfNone DEF Init, RoType, FreeFrom, NoRo
<1>4. ZeroPage \in [Word -> Meta] /\ ZeroPage \in [Word -> SUBSET Bit] /\ IsZero(ZeroPage)
  BY DEF ZeroPage, Meta, IsZero
<1>5. stream = <<>> /\ stream \in Seq(AnyPacket) /\ Len(stream) = 0
  BY DEF Init
<1>6. TypeOK
  BY <1>1, <1>2, <1>3, <1>4, <1>5 DEF Init, TypeOK, RoType
<1>7. Framed(lead, stream)
  BY <1>5 DEF Init, Framed
<1>8. MappedInv
  BY <1>5 DEF Init, MappedInv, Known
<1>9. SlateInv
  BY <1>3, <1>4, EntriesOfNone DEF Init, SlateInv
<1>10. DoneInv
  BY <1>5 DEF DoneInv
<1>11. ToldInv
  BY <1>5 DEF Init, ToldInv, ToldNow, Told
<1> QED
  BY <1>5, <1>6, <1>7, <1>8, <1>9, <1>10, <1>11 DEF ForwardInv

LEMMA ForwardStep == ForwardInv /\ [Next]_vars => ForwardInv'
<1> SUFFICES ASSUME ForwardInv, [Next]_vars PROVE ForwardInv'
  OBVIOUS
<1>1. CASE Sender
  BY <1>1, RunBodyKeeps, BroadcastMallocsKeeps, SkipPageKeeps, ForwardWholeKeeps,
     BufferRoPageKeeps, BeginWordsKeeps, ForwardWordKeeps, EndWordsKeeps,
     ForwardRoPageKeeps, BroadcastEventKeeps DEF Sender, EndIter, ForwardPair
<1>2. CASE Receiver
  BY <1>2, ReceiverKeeps
<1>3. CASE UNCHANGED vars
  <2>1. UNCHANGED <<stream, lead, mapped, marks, shadow, touched, mallocs, heap, ro,
                    pc, pos, word, left>>
    BY <1>3 DEF vars, sender, receiver
  <2> QED
    BY <2>1
       DEF ForwardInv, TypeOK, MappedInv, SlateInv, DoneInv, ToldInv, ToldNow, Buffered,
           OfPagesBefore, OfWordsBefore, Expected, IsZero
<1> QED
  BY <1>1, <1>2, <1>3 DEF Next

-----------------------------------------------------------------------------
(* The invariant of end_iter and of the receiver: framing, what the        *)
(* receiver knows and was told at each place of the stream, and what is    *)
(* left to be done.                                                        *)
THEOREM ForwardInvariant == Spec => []ForwardInv
<1> QED
  BY ForwardStart, ForwardStep, PTL DEF Spec

(* The indices of end_iter and of the read-only page buffer stay in        *)
(* bounds, and only metadata of pages there are is sent.                   *)
THEOREM TypesKept == Spec => []TypeOK
<1>1. ForwardInv => TypeOK
  BY DEF ForwardInv
<1> QED
  BY ForwardInvariant, <1>1, PTL

(* process_incoming_packets takes the two packets of a pair together and   *)
(* never the second for a first.                                           *)
THEOREM FramingAgrees == Spec => []PairsStayTogether
<1>1. ASSUME ForwardInv PROVE PairsStayTogether
  <2> SUFFICES ASSUME stream # <<>>
               PROVE  IF lead = NULL THEN Packet.half = "mem"
                      ELSE /\ Packet.half = "shadow"
                           /\ Packet.page = lead.page /\ Packet.words = lead.words
    BY DEF PairsStayTogether
  <2>1. Packet = stream[1] /\ stream[1] \in AnyPacket
    BY <1>1, Rest DEF Packet, ForwardInv
  <2>2. CASE lead = NULL
    BY <1>1, <2>1, <2>2, Kinds, PacketIsTyped DEF ForwardInv, Framed
  <2>3. CASE lead # NULL
    BY <1>1, <2>1, <2>3, Kinds DEF ForwardInv, Framed, Completes
  <2> QED
    BY <2>2, <2>3
<1> QED
  BY ForwardInvariant, <1>1, PTL

(* Every page that a packet updates exists in the receiver by then: the    *)
(* broadcast of the allocated pages goes ahead of them.                    *)
THEOREM UpdatesAreMapped == Spec => []UpdatesMappedPages
<1>1. ASSUME ForwardInv PROVE UpdatesMappedPages
  <2>1. lead # NULL => lead.page \in mapped
    BY <1>1 DEF ForwardInv, MappedInv
  <2>2. ASSUME stream # <<>>, Packet.type = "SUPER", Packet.check = "RO_PAGE"
        PROVE  {x[1] : x \in Packet.meta} \subseteq mapped
    <3>1. Packet = stream[1] /\ stream[1] \in AnyPacket /\ 1 \in 1 .. Len(stream)
      BY <1>1, <2>2, Rest DEF Packet, ForwardInv
    <3>2. stream[1] \in RoPagePackets /\ stream[1] \notin FirstPackets
      BY <2>2, <3>1, Kinds
    <3>3. \A p \in {x[1] : x \in Packet.meta} : Known(p, mapped, stream, 1)
      BY <1>1, <3>1, <3>2 DEF ForwardInv, MappedInv, Updated
    <3> QED
      BY <3>3 DEF Known
  <2> QED
    BY <2>1, <2>2 DEF UpdatesMappedPages
<1> QED
  BY ForwardInvariant, <1>1, PTL

(* At DONE the receiver has been told what the loop body left behind, for  *)
(* any mixture of the three ways to send a page.                           *)
THEOREM AllMetadataReceived == Spec => []ReceivesAllMetadata
<1>1. ASSUME ForwardInv PROVE ReceivesAllMetadata
  <2> SUFFICES ASSUME stream # <<>>, Packet.type = "DONE" PROVE marks = Packet.meta
    BY DEF ReceivesAllMetadata
  <2>1. Packet = stream[1] /\ stream[1] \in AnyPacket /\ 1 \in 1 .. Len(stream)
    BY <1>1, Rest DEF Packet, ForwardInv
  <2>2. stream[1] \in DonePackets
    BY <2>1, Kinds
  <2>3. \A x \in Mark : Told(x, marks, stream, 1) <=> x \in Packet.meta
    BY <1>1, <2>1, <2>2 DEF ForwardInv, DoneInv
  <2>4. \A x : Told(x, marks, stream, 1) <=> x \in marks
    BY DEF Told
  <2>5. marks \subseteq Mark /\ Packet.meta \subseteq Mark
    BY <1>1, <2>1, <2>2 DEF ForwardInv, TypeOK, DonePackets
  <2> QED
    BY <2>3, <2>4, <2>5
<1> QED
  BY ForwardInvariant, <1>1, PTL

(* end_iter leaves no metadata and no page in the buffer for the next      *)
(* iteration.                                                              *)
THEOREM SlateIsClean == Spec => []CleanSlate
<1>1. ForwardInv => CleanSlate
  BY DEF ForwardInv, SlateInv, CleanSlate
<1> QED
  BY ForwardInvariant, <1>1, PTL

-----------------------------------------------------------------------------
(* The places of the DONE packets of the iterations under way: of n         *)
(* iterations d in m packets s *)

LEMMA PlaceBegun ==
  ASSUME NEW n \in Nat, NEW m \in Nat, NEW d, NEW e, NEW s,
         \A i \in 1 .. n : e[i] = d[i],
         NEW at \in [1 .. n -> 1 .. m + 1], Place(at, d, n, s, m, FALSE)
  PROVE  \E to \in [1 .. n + 1 -> 1 .. m + 1] : Place(to, e, n + 1, s, m, TRUE)
<1> PICK to : to = [i \in 1 .. n + 1 |-> IF i <= n THEN at[i] ELSE m + 1]
  OBVIOUS
<1>1. \A i \in 1 .. n : at[i] \in 1 .. m /\ to[i] = at[i] /\ i \in 1 .. n + 1
  BY DEF Place
<1>2. to[n + 1] = m + 1 /\ n + 1 \in 1 .. n + 1 /\ n + 1 > 0
  OBVIOUS
<1>3. \A i \in 1 .. n + 1 : i \in 1 .. n \/ i = n + 1
  OBVIOUS
<1>4. to \in [1 .. n + 1 -> 1 .. m + 1]
  OBVIOUS
<1>5. ASSUME NEW i \in 1 .. n + 1, NEW j \in 1 .. n + 1, i < j PROVE to[i] < to[j]
  <2>1. i \in 1 .. n
    BY <1>5
  <2>2. CASE j \in 1 .. n
    BY <1>1, <1>5, <2>1, <2>2 DEF Place
  <2>3. CASE j = n + 1
    <3>1. to[i] \in 1 .. m
      BY <1>1, <2>1
    <3>2. to[j] = m + 1
      BY <1>2, <2>3
    <3> QED
      BY <3>1, <3>2
  <2> QED
    BY <1>3, <2>2, <2>3
<1>6. ASSUME NEW i \in 1 .. n + 1, to[i] <= m
      PROVE  s[to[i]].type = "DONE" /\ s[to[i]].meta = e[i]
  <2>1. i \in 1 .. n
    BY <1>2, <1>3, <1>6
  <2> QED
    BY <1>1, <1>6, <2>1 DEF Place
<1>7. \A k \in 1 .. m : s[k].type = "DONE" => \E i \in 1 .. n + 1 : to[i] = k
  BY <1>1 DEF Place
<1> QED
  BY <1>2, <1>4, <1>5, <1>6, <1>7 DEF Place

LEMMA PlaceSent ==
  ASSUME NEW n \in Nat, NEW m \in Nat, NEW l \in Nat, NEW d, NEW s, NEW t,
         \A k \in 1 .. m : t[k] = s[k],
         \A k \in 1 .. l : t[m + k].type # "DONE",
         NEW at \in [1 .. n -> 1 .. m + 1], Place(at, d, n, s, m, TRUE)
  PROVE  \E to \in [1 .. n -> 1 .. (m + l) + 1] : Place(to, d, n, t, m + l, TRUE)
<1>1. n > 0 /\ at[n] = m + 1 /\ n \in 1 .. n
  BY DEF Place
<1>2. \A i \in 1 .. n : i < n => at[i] \in 1 .. m
  BY <1>1 DEF Place
<1> PICK to : to = [i \in 1 .. n |-> IF i < n THEN at[i] ELSE (m + l) + 1]
  OBVIOUS
<1>3. /\ to \in [1 .. n -> 1 .. (m + l) + 1] /\ to[n] = (m + l) + 1
      /\ \A i \in 1 .. n : i < n => to[i] = at[i]
      /\ \A i \in 1 .. n : i < n \/ i = n
  BY <1>1, <1>2
<1>4. ASSUME NEW i \in 1 .. n, NEW j \in 1 .. n, i < j PROVE to[i] < to[j]
  <2>1. i < n
    BY <1>4
  <2>2. CASE j < n
    BY <1>3, <1>4, <2>1, <2>2 DEF Place
  <2>3. CASE j = n
    BY <1>2, <1>3, <2>1, <2>3
  <2> QED
    BY <1>3, <2>2, <2>3
<1>5. ASSUME NEW i \in 1 .. n, to[i] <= m + l
      PROVE  t[to[i]].type = "DONE" /\ t[to[i]].meta = d[i]
  <2>1. i < n
    BY <1>3, <1>5
  <2>2. to[i] = at[i] /\ at[i] \in 1 .. m
    BY <1>2, <1>3, <2>1
  <2>3. s[at[i]].type = "DONE" /\ s[at[i]].meta = d[i]
    BY <2>2 DEF Place
  <2> QED
    BY <2>2, <2>3
<1>6. ASSUME NEW k \in 1 .. m + l, t[k].type = "DONE" PROVE \E i \in 1 .. n : to[i] = k
  <2>1. k <= m
    <3> SUFFICES ASSUME k > m PROVE FALSE
      OBVIOUS
    <3>1. k - m \in 1 .. l /\ k = m + (k - m)
      OBVIOUS
    <3> PICK q \in 1 .. l : k = m + q
      BY <3>1
    <3> QED
      BY <1>6
  <2>2. k \in 1 .. m /\ s[k].type = "DONE"
    BY <1>6, <2>1
  <2>3. PICK i \in 1 .. n : at[i] = k
    BY <2>2 DEF Place
  <2>4. i < n
    BY <1>1, <1>3, <2>1, <2>3
  <2> QED
    BY <1>3, <2>3, <2>4
<1> QED
  BY <1>1, <1>3, <1>4, <1>5, <1>6 DEF Place

LEMMA PlaceDone ==
  ASSUME NEW n \in Nat, NEW m \in Nat, NEW d, NEW s, NEW t,
         \A k \in 1 .. m : t[k] = s[k],
         t[m + 1].type = "DONE", t[m + 1].meta = d[n],
         NEW at \in [1 .. n -> 1 .. m + 1], Place(at, d, n, s, m, TRUE)
  PROVE  \E to \in [1 .. n -> 1 .. (m + 1) + 1] : Place(to, d, n, t, m + 1, FALSE)
<1>1. n > 0 /\ at[n] = m + 1 /\ n \in 1 .. n
  BY DEF Place
<1>2. \A i \in 1 .. n : (i < n => at[i] \in 1 .. m) /\ (i < n \/ i = n)
  BY <1>1 DEF Place
<1>3. at \in [1 .. n -> 1 .. (m + 1) + 1] /\ \A i \in 1 .. n : at[i] <= m + 1
  BY <1>1, <1>2
<1>4. ASSUME NEW i \in 1 .. n PROVE t[at[i]].type = "DONE" /\ t[at[i]].meta = d[i]
  <2>1. CASE i < n
    BY <1>2, <2>1 DEF Place
  <2>2. CASE i = n
    BY <1>1, <2>2
  <2> QED
    BY <1>2, <2>1, <2>2
<1>5. ASSUME NEW k \in 1 .. m + 1, t[k].type = "DONE" PROVE \E i \in 1 .. n : at[i] = k
  <2>1. CASE k \in 1 .. m
    BY <1>5, <2>1 DEF Place
  <2>2. CASE k = m + 1
    BY <1>1, <2>2
  <2> QED
    BY <2>1, <2>2
<1>6. \A i, j \in 1 .. n : i < j => at[i] < at[j]
  BY DEF Place
<1> QED
  BY <1>3, <1>4, <1>5, <1>6 DEF Place

Placed(d, n, s, m, open) ==
  \E at \in [1 .. n -> 1 .. m + 1] : Place(at, d, n, s, m, open)
Shifted(t, s, m) == \A k \in 1 .. m : t[k] = s[k + 1]

LEMMA PlacedTaken ==
  ASSUME NEW n \in Nat, NEW m \in Nat, NEW d, NEW s, NEW t, NEW open \in BOOLEAN,
         s[1].type # "DONE", Shifted(t, s, m), Placed(d, n, s, m + 1, open)
  PROVE  Placed(d, n, t, m, open)
<1> PICK at \in [1 .. n -> 1 .. (m + 1) + 1] : Place(at, d, n, s, m + 1, open)
  BY DEF Placed
<1>0. \A k \in 1 .. m : t[k] = s[k + 1]
  BY DEF Shifted
<1>1. \A i \in 1 .. n : at[i] \in 2 .. m + 2
  <2>1. ASSUME NEW i \in 1 .. n PROVE at[i] # 1
    BY DEF Place
  <2> QED
    BY <2>1
<1> PICK to : to = [i \in 1 .. n |-> at[i] - 1]
  OBVIOUS
<1>2. to \in [1 .. n -> 1 .. m + 1] /\ \A i \in 1 .. n : to[i] + 1 = at[i] /\ to[i] = at[i] - 1
  BY <1>1
<1>3. ASSUME NEW i \in 1 .. n, NEW j \in 1 .. n, i < j PROVE to[i] < to[j]
  <2>1. at[i] < at[j]
    BY <1>3 DEF Place
  <2> QED
    BY <1>1, <1>2, <2>1
<1>4. ASSUME NEW i \in 1 .. n, to[i] <= m
      PROVE  t[to[i]].type = "DONE" /\ t[to[i]].meta = d[i]
  <2>1. to[i] \in 1 .. m /\ at[i] <= m + 1
    BY <1>1, <1>2, <1>4
  <2> QED
    BY <1>0, <1>2, <2>1 DEF Place
<1>5. ASSUME NEW k \in 1 .. m, t[k].type = "DONE" PROVE \E i \in 1 .. n : to[i] = k
  <2>1. k + 1 \in 1 .. m + 1 /\ s[k + 1].type = "DONE"
    BY <1>0, <1>5
  <2>2. PICK i \in 1 .. n : at[i] = k + 1
    BY <2>1 DEF Place
  <2> QED
    BY <1>2, <2>2
<1>6. open => n > 0 /\ to[n] = m + 1
  <2> SUFFICES ASSUME open PROVE n > 0 /\ to[n] = m + 1
    OBVIOUS
  <2>1. n > 0 /\ at[n] = (m + 1) + 1 /\ n \in 1 .. n
    BY DEF Place
  <2> QED
    BY <1>2, <2>1
<1>7. ~open => \A i \in 1 .. n : to[i] <= m
  BY <1>1, <1>2 DEF Place
<1> QED
  BY <1>2, <1>3, <1>4, <1>5, <1>6, <1>7 DEF Place, Placed

LEMMA PlacedFirst ==
  ASSUME NEW n \in Nat, NEW m \in Nat, m > 0, NEW d, NEW s, NEW open \in BOOLEAN,
         s[1].type = "DONE", Placed(d, n, s, m, open)
  PROVE  /\ n > 0 /\ d[1] = s[1].meta
         /\ \E at \in [1 .. n -> 1 .. m + 1] : at[1] = 1 /\ Place(at, d, n, s, m, open)
<1> PICK at \in [1 .. n -> 1 .. m + 1] : Place(at, d, n, s, m, open)
  BY DEF Placed
<1>1. PICK f \in 1 .. n : at[f] = 1
  <2>1. 1 \in 1 .. m
    OBVIOUS
  <2> QED
    BY <2>1 DEF Place
<1>2. f = 1
  <2> SUFFICES ASSUME f > 1 PROVE FALSE
    BY <1>1
  <2>1. 1 \in 1 .. n /\ f \in 1 .. n
    BY <1>1
  <2>2. at[1] < at[f] /\ at[1] >= 1
    BY <2>1 DEF Place
  <2> QED
    BY <1>1, <2>1, <2>2
<1>3. n > 0 /\ at[1] = 1 /\ 1 \in 1 .. n
  BY <1>1, <1>2
<1>4. d[1] = s[1].meta
  <2>1. at[1] <= m
    BY <1>3
  <2>2. s[at[1]].meta = d[1]
    BY <1>3, <2>1 DEF Place
  <2> QED
    BY <1>3, <2>2
<1> QED
  BY <1>3, <1>4

LEMMA PlacedFinished ==
  ASSUME NEW n \in Nat, NEW m \in Nat, NEW d, NEW e, NEW s, NEW t, NEW open \in BOOLEAN,
         s[1].type = "DONE", Shifted(t, s, m), Shifted(e, d, n),
         Placed(d, n + 1, s, m + 1, open)
  PROVE  Placed(e, n, t, m, open)
<1>0. /\ \A k \in 1 .. m : t[k] = s[k + 1]
      /\ \A i \in 1 .. n : e[i] = d[i + 1]
  BY DEF Shifted
<1>1. n + 1 \in Nat /\ m + 1 \in Nat /\ m + 1 > 0
  OBVIOUS
<1>2. \E at \in [1 .. n + 1 -> 1 .. (m + 1) + 1] :
        at[1] = 1 /\ Place(at, d, n + 1, s, m + 1, open)
  BY <1>1, PlacedFirst
<1> PICK at \in [1 .. n + 1 -> 1 .. (m + 1) + 1] :
      at[1] = 1 /\ Place(at, d, n + 1, s, m + 1, open)
  BY <1>2
<1>3. at[1] = 1 /\ 1 \in 1 .. n + 1
  OBVIOUS
<1>5. \A i \in 1 .. n : i + 1 \in 1 .. n + 1 /\ at[i + 1] \in 2 .. m + 2
  <2>1. ASSUME NEW i \in 1 .. n PROVE i + 1 \in 1 .. n + 1 /\ at[1] < at[i + 1]
    <3>1. 1 \in 1 .. n + 1 /\ i + 1 \in 1 .. n + 1 /\ 1 < i + 1
      OBVIOUS
    <3> QED
      BY <1>3, <3>1 DEF Place
  <2> QED
    BY <1>3, <2>1
<1> PICK to : to = [i \in 1 .. n |-> at[i + 1] - 1]
  OBVIOUS
<1>6. /\ to \in [1 .. n -> 1 .. m + 1]
      /\ \A i \in 1 .. n : to[i] + 1 = at[i + 1] /\ to[i] = at[i + 1] - 1
  BY <1>5
<1>7. ASSUME NEW i \in 1 .. n, NEW j \in 1 .. n, i < j PROVE to[i] < to[j]
  <2>1. i + 1 \in 1 .. n + 1 /\ j + 1 \in 1 .. n + 1 /\ i + 1 < j + 1
    BY <1>7
  <2>2. at[i + 1] < at[j + 1]
    BY <2>1 DEF Place
  <2> QED
    BY <1>5, <1>6, <2>2
<1>8. ASSUME NEW i \in 1 .. n, to[i] <= m
       PROVE  t[to[i]].type = "DONE" /\ t[to[i]].meta = e[i]
  <2>1. to[i] \in 1 .. m /\ at[i + 1] <= m + 1 /\ i + 1 \in 1 .. n + 1
    BY <1>5, <1>6, <1>8
  <2>2. s[at[i + 1]].type = "DONE" /\ s[at[i + 1]].meta = d[i + 1]
    BY <2>1 DEF Place
  <2> QED
    BY <1>0, <1>6, <2>1, <2>2
<1>9. ASSUME NEW k \in 1 .. m, t[k].type = "DONE" PROVE \E i \in 1 .. n : to[i] = k
  <2>1. k + 1 \in 1 .. m + 1 /\ s[k + 1].type = "DONE"
    BY <1>0, <1>9
  <2>2. PICK j \in 1 .. n + 1 : at[j] = k + 1
    BY <2>1 DEF Place
  <2>3. j - 1 \in 1 .. n /\ (j - 1) + 1 = j
    BY <1>3, <2>2
  <2> PICK i \in 1 .. n : i + 1 = j
    BY <2>3
  <2>4. to[i] = k
    BY <1>6, <2>2
  <2> QED
    BY <2>4
<1>10. open => n > 0 /\ to[n] = m + 1
  <2> SUFFICES ASSUME open PROVE n > 0 /\ to[n] = m + 1
    OBVIOUS
  <2>1. at[n + 1] = (m + 1) + 1
    BY DEF Place
  <2>2. n > 0
    BY <1>3, <2>1
  <2> QED
    BY <1>6, <2>1, <2>2
<1>11. ~open => \A i \in 1 .. n : to[i] <= m
  <2> SUFFICES ASSUME ~open, NEW i \in 1 .. n PROVE to[i] <= m
    OBVIOUS
  <2>1. at[i + 1] <= m + 1
    BY <1>5 DEF Place
  <2> QED
    BY <1>5, <1>6, <2>1
<1> QED
  BY <1>6, <1>7, <1>8, <1>9, <1>10, <1>11 DEF Place, Placed

(* What a step of end_iter does to the places *)
LEMMA OneSent ==
  ASSUME NEW s \in Seq(AnyPacket), NEW x
  PROVE  /\ Len(Append(s, x)) = Len(s) + 1 /\ Append(s, x)[Len(s) + 1] = x
         /\ \A k \in 1 .. Len(s) : Append(s, x)[k] = s[k]
OBVIOUS

LEMMA TwoSent ==
  ASSUME NEW s \in Seq(AnyPacket), NEW x, NEW y, x.type # "DONE", y.type # "DONE"
  PROVE  /\ Len(s \o <<x, y>>) = Len(s) + 2
         /\ \A k \in 1 .. Len(s) : (s \o <<x, y>>)[k] = s[k]
         /\ \A k \in 1 .. 2 : (s \o <<x, y>>)[Len(s) + k].type # "DONE"
<1> DEFINE S == AnyPacket \cup {x, y}
<1>1. s \in Seq(S) /\ <<x, y>> \in Seq(S) /\ Len(<<x, y>>) = 2
  OBVIOUS
<1>2. <<x, y>>[1] = x /\ <<x, y>>[2] = y /\ \A k \in 1 .. 2 : k = 1 \/ k = 2
  OBVIOUS
<1> QED
  BY <1>1, <1>2, Cat

LEMMA ManySent ==
  ASSUME NEW s \in Seq(AnyPacket), NEW c \in Seq(AnyPacket), NoneDone(c)
  PROVE  /\ Len(c) \in Nat /\ Len(s \o c) = Len(s) + Len(c)
         /\ \A k \in 1 .. Len(s) : (s \o c)[k] = s[k]
         /\ \A k \in 1 .. Len(c) : (s \o c)[Len(s) + k].type # "DONE"
BY Cat, Kinds DEF NoneDone

Adds(l) ==
  /\ Len(stream') = Len(stream) + l
  /\ \A k \in 1 .. Len(stream) : stream'[k] = stream[k]
  /\ \A k \in 1 .. l : stream'[Len(stream) + k].type # "DONE"

LEMMA EndIterSends ==
  ASSUME ForwardInv, EndIter, ~BroadcastEvent
  PROVE  /\ pc # "body" /\ pc' # "body" /\ left' = left /\ UNCHANGED receiver
         /\ \E l \in Nat : Adds(l)
<1>1. stream \in Seq(AnyPacket) /\ (stream' = stream => Adds(0))
  BY DEF ForwardInv, Adds
<1>2. CASE BroadcastMallocs
  <2>1. stream' = Append(stream, Alloc(mallocs)) /\ Alloc(mallocs).type # "DONE"
    BY <1>2 DEF BroadcastMallocs, Alloc
  <2>2. Adds(1)
    BY <1>1, <2>1, OneSent DEF Adds
  <2> QED
    BY <1>2, <2>2 DEF BroadcastMallocs
<1>3. CASE SkipPage
  BY <1>1, <1>3 DEF SkipPage
<1>4. CASE ForwardWhole
  <2> PICK x, y : x = MemPage(pos) /\ y = ShadowPage(pos, ClearRead(shadow[pos]))
    OBVIOUS
  <2>1. stream' = stream \o <<x, y>> /\ x.type # "DONE" /\ y.type # "DONE"
    BY <1>4 DEF ForwardWhole, MemPage, ShadowPage
  <2>2. Adds(2)
    BY <1>1, <2>1, TwoSent DEF Adds
  <2> QED
    BY <1>4, <2>2 DEF ForwardWhole, ToForward
<1>5. NoneDone(RoPackets(ro)) /\ RoPackets(ro) \in Seq(AnyPacket)
  BY TypesOfSender, RoChunk DEF SenderTyped, ForwardInv, SlateInv, Chunk
<1>6. \/ stream' # stream \o RoPackets(ro)
      \/ Len(RoPackets(ro)) \in Nat /\ Adds(Len(RoPackets(ro)))
  BY <1>1, <1>5, ManySent DEF Adds
<1>7. CASE BufferRoPage
  <2>1. stream' = stream \/ stream' = stream \o RoPackets(ro)
    BY <1>7 DEF BufferRoPage
  <2>2. \E l \in Nat : Adds(l)
    BY <1>1, <1>6, <2>1
  <2> QED
    BY <1>7, <2>2 DEF BufferRoPage, ToForward
<1>8. CASE BeginWords
  BY <1>1, <1>8 DEF BeginWords, ToForward
<1>9. CASE ForwardWord
  <2>1. CASE stream' = stream
    BY <1>1, <1>9, <2>1 DEF ForwardWord
  <2>2. CASE stream' # stream
    <3> PICK x, y : x = MemWord(pos, word) /\ y = ShadowWord(pos, word, shadow[pos][word])
      OBVIOUS
    <3>1. stream' = stream \o <<x, y>> /\ x.type # "DONE" /\ y.type # "DONE"
      BY <1>9, <2>2 DEF ForwardWord, MemWord, ShadowWord
    <3>2. Adds(2)
      BY <1>1, <3>1, TwoSent DEF Adds
    <3> QED
      BY <1>9, <3>2 DEF ForwardWord
  <2> QED
    BY <2>1, <2>2
<1>10. CASE EndWords
  BY <1>1, <1>10 DEF EndWords
<1>11. CASE ForwardRoPage
  BY <1>6, <1>11 DEF ForwardRoPage
<1> QED
  BY <1>2, <1>3, <1>4, <1>7, <1>8, <1>9, <1>10, <1>11 DEF EndIter, ForwardPair

-----------------------------------------------------------------------------
(* The iterations under way *)

TransferInv ==
  /\ ForwardInv
  /\ due \in Seq(SUBSET Mark)
  /\ DueInv

LEMMA MarksLeft ==
  ASSUME NEW m \in [Page -> [Word -> Meta]], NEW x, x = UNION {MarksOf(p, m[p]) : p \in Page}
  PROVE  x \in SUBSET Mark /\ x \in LeftBehind
<1>1. Meta \subseteq SUBSET Bit
  BY DEF Meta, Bit
<1>2. ASSUME NEW p \in Page PROVE MarksOf(p, m[p]) \subseteq Mark
  <2>1. m[p] \in [Word -> SUBSET Bit]
    BY <1>1
  <2> QED
    BY <2>1, MarksAre
<1> QED
  BY <1>2 DEF LeftBehind

LEMMA ExpectedLater ==
  ASSUME ForwardInv'
  PROVE  Expected' \in SUBSET Mark /\ Expected' \in LeftBehind
<1>1. left' \in [Page -> [Word -> Meta]]
  BY DEF ForwardInv, TypeOK
<1>2. Expected' = UNION {MarksOf(p, left'[p]) : p \in Page}
  BY DEF Expected
<1> QED
  BY <1>1, <1>2, MarksLeft

LEMMA TransferStart == TransferInit => TransferInv
<1> SUFFICES ASSUME TransferInit PROVE TransferInv
  OBVIOUS
<1>1. Init /\ due = <<>> /\ stream = <<>> /\ pc = "body"
  BY DEF TransferInit, Init
<1>2. Len(due) = 0 /\ Len(stream) = 0 /\ due \in Seq(SUBSET Mark)
  BY <1>1
<1> PICK at : at \in [1 .. 0 -> 1 .. 1]
  <2>1. [i \in 1 .. 0 |-> 1] \in [1 .. 0 -> 1 .. 1]
    OBVIOUS
  <2> QED
    BY <2>1
<1>3. Place(at, due, 0, stream, 0, FALSE)
  BY DEF Place
<1>4. 1 .. Len(due) = 1 .. 0 /\ 1 .. Len(stream) + 1 = 1 .. 1
  BY <1>2
<1>5. DueInv
  BY <1>1, <1>2, <1>3, <1>4 DEF DueInv
<1> QED
  BY <1>1, <1>2, <1>5, ForwardStart DEF TransferInv

LEMMA ExecuteKeeps == TransferInv /\ Execute => TransferInv'
<1> SUFFICES ASSUME TransferInv, Execute PROVE TransferInv'
  OBVIOUS
<1>1. ForwardInv'
  BY RunBodyKeeps DEF TransferInv, Execute
<1>2. /\ due' = Append(due, Expected') /\ stream' = stream
      /\ pc = "body" /\ pc' = "malloc"
  BY DEF Execute, RunBody
<1>3. Expected' \in SUBSET Mark
  BY <1>1, ExpectedLater
<1> PICK n \in Nat, m \in Nat : n = Len(due) /\ m = Len(stream)
  BY DEF TransferInv, ForwardInv
<1>4. /\ due' \in Seq(SUBSET Mark) /\ Len(due') = n + 1 /\ due'[n + 1] = Expected'
      /\ \A i \in 1 .. n : due'[i] = due[i]
  BY <1>2, <1>3 DEF TransferInv
<1>5. PICK at \in [1 .. n -> 1 .. m + 1] : Place(at, due, n, stream, m, FALSE)
  BY <1>2 DEF TransferInv, DueInv
<1>6. \E to \in [1 .. n + 1 -> 1 .. m + 1] : Place(to, due', n + 1, stream, m, TRUE)
  BY <1>4, <1>5, PlaceBegun
<1>7. DueInv'
  BY <1>2, <1>4, <1>6 DEF DueInv
<1> QED
  BY <1>1, <1>4, <1>7 DEF TransferInv

LEMMA SendOnKeeps == TransferInv /\ SendOn => TransferInv'
<1> SUFFICES ASSUME TransferInv, SendOn PROVE TransferInv'
  OBVIOUS
<1>1. ForwardInv /\ EndIter /\ due' = due
  BY DEF TransferInv, SendOn
<1>2. ForwardInv'
  BY <1>1, ForwardStep DEF Next, Sender
<1> PICK n \in Nat, m \in Nat : n = Len(due) /\ m = Len(stream)
  BY DEF TransferInv, ForwardInv
<1>3. CASE ~BroadcastEvent
  <2>1. pc # "body" /\ pc' # "body" /\ left' = left
    BY <1>1, <1>3, EndIterSends
  <2>2. PICK l \in Nat : Adds(l)
    BY <1>1, <1>3, EndIterSends
  <2>3. PICK at \in [1 .. n -> 1 .. m + 1] : Place(at, due, n, stream, m, TRUE)
    BY <2>1 DEF TransferInv, DueInv
  <2>4. /\ Len(stream') = m + l /\ \A k \in 1 .. m : stream'[k] = stream[k]
        /\ \A k \in 1 .. l : stream'[m + k].type # "DONE"
    BY <2>2 DEF Adds
  <2>5. \E to \in [1 .. n -> 1 .. (m + l) + 1] : Place(to, due, n, stream', m + l, TRUE)
    BY <2>3, <2>4, PlaceSent
  <2>6. Expected' = Expected
    BY <2>1 DEF Expected
  <2>7. DueInv'
    BY <1>1, <2>1, <2>4, <2>5, <2>6 DEF DueInv, TransferInv
  <2> QED
    BY <1>1, <1>2, <2>7 DEF TransferInv
<1>4. CASE BroadcastEvent
  <2>1. pc = "event" /\ pc' = "body" /\ stream' = Append(stream, Done(Expected))
    BY <1>4 DEF BroadcastEvent
  <2>2. PICK at \in [1 .. n -> 1 .. m + 1] : Place(at, due, n, stream, m, TRUE)
    BY <2>1 DEF TransferInv, DueInv
  <2>3. /\ Len(stream') = m + 1 /\ \A k \in 1 .. m : stream'[k] = stream[k]
        /\ stream'[m + 1].type = "DONE" /\ stream'[m + 1].meta = due[n]
    BY <1>1, <2>1, OneSent DEF Done, ForwardInv, TransferInv, DueInv
  <2>4. \E to \in [1 .. n -> 1 .. (m + 1) + 1] : Place(to, due, n, stream', m + 1, FALSE)
    BY <2>2, <2>3, PlaceDone
  <2>5. DueInv'
    BY <1>1, <2>1, <2>3, <2>4 DEF DueInv
  <2> QED
    BY <1>1, <1>2, <2>5 DEF TransferInv
<1> QED
  BY <1>3, <1>4

LEMMA RestOf ==
  ASSUME NEW S, NEW s \in Seq(S), s # <<>>
  PROVE  \E m \in Nat : \E t \in Seq(S) :
           /\ t = Tail(s) /\ Len(s) = m + 1 /\ Len(t) = m
           /\ \A k \in 1 .. m : t[k] = s[k + 1]
           /\ Head(s) = s[1] /\ s[1] \in S
<1>1. /\ Tail(s) \in Seq(S) /\ Len(Tail(s)) = Len(s) - 1 /\ Len(s) \in Nat \ {0}
      /\ Head(s) = s[1] /\ s[1] \in S
      /\ \A k \in 1 .. Len(s) - 1 : Tail(s)[k] = s[k + 1]
  BY Rest
<1>2. Len(s) - 1 \in Nat /\ Len(s) = (Len(s) - 1) + 1
  BY <1>1
<1> QED
  BY <1>1, <1>2

LEMMA PlacesNow ==
  ASSUME DueInv, NEW l \in Nat, l = Len(stream), NEW open \in BOOLEAN, open <=> pc # "body"
  PROVE  \E at \in [1 .. Len(due) -> 1 .. l + 1] :
           Place(at, due, Len(due), stream, l, open)
<1>1. PICK at \in [1 .. Len(due) -> 1 .. l + 1] :
        Place(at, due, Len(due), stream, l, pc # "body")
  BY DEF DueInv
<1>2. Place(at, due, Len(due), stream, l, open)
  BY <1>1 DEF Place
<1> QED
  BY <1>1, <1>2

LEMMA ReceiveKeeps == TransferInv /\ Receive => TransferInv'
<1> SUFFICES ASSUME TransferInv, Receive PROVE TransferInv'
  OBVIOUS
<1>1. ForwardInv /\ ReceivePacket /\ due' = due /\ due \in Seq(SUBSET Mark)
  BY DEF TransferInv, Receive
<1>2. ForwardInv'
  BY <1>1, ForwardStep DEF Next, Receiver
<1>3. stream # <<>> /\ stream' = Tail(stream) /\ UNCHANGED sender
  BY <1>1 DEF ReceivePacket, TakeFirst, TakeShadow, TakeRoPage, TakeAlloc
<1> PICK m \in Nat : \E t \in Seq(AnyPacket) :
       /\ t = Tail(stream) /\ Len(stream) = m + 1 /\ Len(t) = m
       /\ \A k \in 1 .. m : t[k] = stream[k + 1]
       /\ Head(stream) = stream[1] /\ stream[1] \in AnyPacket
  BY <1>1, <1>3, RestOf DEF ForwardInv
<1> PICK t \in Seq(AnyPacket) :
       /\ t = Tail(stream) /\ Len(stream) = m + 1 /\ Len(t) = m
       /\ \A k \in 1 .. m : t[k] = stream[k + 1]
       /\ Head(stream) = stream[1] /\ stream[1] \in AnyPacket
  OBVIOUS
<1>0. Packet = stream[1] /\ stream' = t
  BY <1>3 DEF Packet
<1> PICK n \in Nat : n = Len(due)
  BY <1>1
<1>4. stream[1].type # "DONE"
  <2>1. CASE lead # NULL
    <3>1. stream[1] \in SecondPackets
      BY <1>1, <2>1 DEF ForwardInv, Framed, Completes
    <3> QED
      BY <3>1 DEF SecondPackets
  <2>2. CASE lead = NULL
    BY <1>0, <1>1, <2>2
       DEF ReceivePacket, TakeFirst, TakeShadow, TakeRoPage, TakeAlloc, ComesAsPair
  <2> QED
    BY <2>1, <2>2
<1>5. PICK open \in BOOLEAN : open <=> pc # "body"
  OBVIOUS
<1>6. Placed(due, n, stream, m + 1, open)
  <2>1. m + 1 \in Nat
    OBVIOUS
  <2>2. DueInv
    BY DEF TransferInv
  <2> QED
    BY <1>5, <2>1, <2>2, PlacesNow DEF Placed
<1>7. Placed(due, n, t, m, open)
  <2>1. Shifted(t, stream, m)
    BY DEF Shifted
  <2> QED
    BY <1>4, <1>6, <2>1, PlacedTaken
<1>8. pc' = pc /\ Expected' = Expected
  BY <1>3 DEF sender, Expected
<1>9. PICK to \in [1 .. n -> 1 .. m + 1] : Place(to, due, n, t, m, open)
  BY <1>7 DEF Placed
<1>10. Place(to, due, n, stream', m, pc' # "body")
  BY <1>0, <1>5, <1>8, <1>9 DEF Place
<1>11. DueInv'
  BY <1>0, <1>1, <1>8, <1>10 DEF DueInv, TransferInv
<1> QED
  BY <1>1, <1>2, <1>11 DEF TransferInv

LEMMA FinishTakes ==
  ASSUME TransferInv, Finish
  PROVE  /\ TransferInv'
         /\ due # <<>> /\ marks = Head(due) /\ marks' = {}
<1>1. ForwardInv /\ TakeDone /\ due' = Tail(due) /\ due \in Seq(SUBSET Mark)
  BY DEF TransferInv, Finish
<1>2. ForwardInv'
  BY <1>1, ForwardStep DEF Next, Receiver
<1>3. /\ stream # <<>> /\ stream' = Tail(stream) /\ UNCHANGED sender
      /\ lead = NULL /\ Packet.type = "DONE" /\ marks' = {}
  BY <1>1 DEF TakeDone
<1> PICK m \in Nat : \E t \in Seq(AnyPacket) :
       /\ t = Tail(stream) /\ Len(stream) = m + 1 /\ Len(t) = m
       /\ \A k \in 1 .. m : t[k] = stream[k + 1]
       /\ Head(stream) = stream[1] /\ stream[1] \in AnyPacket
  BY <1>1, <1>3, RestOf DEF ForwardInv
<1> PICK t \in Seq(AnyPacket) :
       /\ t = Tail(stream) /\ Len(stream) = m + 1 /\ Len(t) = m
       /\ \A k \in 1 .. m : t[k] = stream[k + 1]
       /\ Head(stream) = stream[1] /\ stream[1] \in AnyPacket
  OBVIOUS
<1>0. Packet = stream[1] /\ stream' = t
  BY <1>3 DEF Packet
<1>4. PICK open \in BOOLEAN : open <=> pc # "body"
  OBVIOUS
<1>5. PICK at \in [1 .. Len(due) -> 1 .. (m + 1) + 1] :
        Place(at, due, Len(due), stream, m + 1, open)
  <2>1. m + 1 \in Nat
    OBVIOUS
  <2>2. DueInv
    BY DEF TransferInv
  <2> QED
    BY <1>4, <2>1, <2>2, PlacesNow
<1>6. due # <<>>
  <2>1. \E i \in 1 .. Len(due) : at[i] = 1
    <3>1. 1 \in 1 .. m + 1
      OBVIOUS
    <3> QED
      BY <1>0, <1>3, <1>5, <3>1 DEF Place
  <2> QED
    BY <2>1
<1>7. PICK n \in Nat : \E d \in Seq(SUBSET Mark) :
        /\ d = Tail(due) /\ Len(due) = n + 1 /\ Len(d) = n
        /\ \A k \in 1 .. n : d[k] = due[k + 1]
        /\ Head(due) = due[1] /\ due[1] \in SUBSET Mark
  BY <1>1, <1>6, RestOf
<1>8. PICK d \in Seq(SUBSET Mark) :
        /\ d = Tail(due) /\ Len(due) = n + 1 /\ Len(d) = n
        /\ \A k \in 1 .. n : d[k] = due[k + 1]
        /\ Head(due) = due[1] /\ due[1] \in SUBSET Mark
  BY <1>7
<1>9. Placed(due, n + 1, stream, m + 1, open)
  BY <1>5, <1>8 DEF Placed
<1>10. due[1] = stream[1].meta
  <2>1. stream[1].type = "DONE" /\ n + 1 \in Nat /\ m + 1 \in Nat /\ m + 1 > 0
    BY <1>0, <1>3
  <2> QED
    BY <1>9, <2>1, PlacedFirst
<1>11. Placed(d, n, t, m, open)
  <2>1. stream[1].type = "DONE" /\ Shifted(t, stream, m)
    BY <1>0, <1>3 DEF Shifted
  <2>2. Shifted(d, due, n)
    BY <1>8 DEF Shifted
  <2> QED
    BY <1>9, <2>1, <2>2, PlacedFinished
<1>12. PICK to \in [1 .. n -> 1 .. m + 1] : Place(to, d, n, t, m, open)
  BY <1>11 DEF Placed
<1>13. open => n > 0
  BY <1>12 DEF Place
<1>14. pc' = pc /\ Expected' = Expected
  BY <1>3 DEF sender, Expected
<1>15. pc # "body" => d[n] = Expected
  <2> SUFFICES ASSUME pc # "body" PROVE d[n] = Expected
    OBVIOUS
  <2>1. due[n + 1] = Expected
    BY <1>8 DEF TransferInv, DueInv
  <2>2. n \in 1 .. n
    BY <1>4, <1>13
  <2> QED
    BY <1>8, <2>1, <2>2
<1>16. Place(to, due', n, stream', m, pc' # "body")
  BY <1>0, <1>1, <1>4, <1>8, <1>12, <1>14 DEF Place
<1>17. DueInv'
  BY <1>0, <1>1, <1>8, <1>14, <1>15, <1>16 DEF DueInv
<1>18. TransferInv'
  BY <1>1, <1>2, <1>8, <1>17 DEF TransferInv
<1>19. marks = stream[1].meta
  <2>1. stream[1] \in DonePackets /\ 1 \in 1 .. Len(stream)
    BY <1>0, <1>3, Kinds
  <2>2. \A x \in Mark : Told(x, marks, stream, 1) <=> x \in stream[1].meta
    BY <1>1, <2>1 DEF ForwardInv, DoneInv
  <2>3. \A x : Told(x, marks, stream, 1) <=> x \in marks
    BY DEF Told
  <2>4. marks \subseteq Mark /\ stream[1].meta \subseteq Mark
    BY <1>1, <2>1 DEF ForwardInv, TypeOK, DonePackets
  <2> QED
    BY <2>2, <2>3, <2>4
<1> QED
  BY <1>3, <1>6, <1>8, <1>10, <1>18, <1>19

-----------------------------------------------------------------------------
(* What the receiver knows belongs to the oldest iteration under way *)
LEMMA FirstPlace ==
  ASSUME NEW n \in Nat, NEW m \in Nat, NEW d, NEW s, NEW open \in BOOLEAN,
         Placed(d, n, s, m, open), \E k \in 1 .. m : s[k].type = "DONE"
  PROVE  n > 0 /\ \E f \in 1 .. m :
           /\ s[f].type = "DONE" /\ s[f].meta = d[1]
           /\ \A j \in 1 .. f - 1 : s[j].type # "DONE"
<1> PICK at \in [1 .. n -> 1 .. m + 1] : Place(at, d, n, s, m, open)
  BY DEF Placed
<1>1. ASSUME NEW k \in 1 .. m, s[k].type = "DONE" PROVE n > 0 /\ at[1] \in 1 .. k
  <2>1. PICK i \in 1 .. n : at[i] = k
    BY <1>1 DEF Place
  <2>2. 1 \in 1 .. n /\ (i = 1 \/ 1 < i)
    OBVIOUS
  <2>3. at[1] <= at[i]
    BY <2>1, <2>2 DEF Place
  <2> QED
    BY <2>1, <2>2, <2>3
<1>2. n > 0 /\ at[1] \in 1 .. m
  BY <1>1
<1>3. s[at[1]].type = "DONE" /\ s[at[1]].meta = d[1]
  <2>1. 1 \in 1 .. n /\ at[1] <= m
    BY <1>2
  <2> QED
    BY <2>1 DEF Place
<1>4. ASSUME NEW j \in 1 .. at[1] - 1 PROVE s[j].type # "DONE"
  <2>1. j \in 1 .. m /\ at[1] \notin 1 .. j
    BY <1>2
  <2> QED
    BY <1>1, <2>1
<1> QED
  BY <1>2, <1>3, <1>4

LEMMA OnlyPlace ==
  ASSUME NEW n \in Nat, NEW m \in Nat, NEW d, NEW s,
         Placed(d, n, s, m, TRUE), \A k \in 1 .. m : s[k].type # "DONE"
  PROVE  n = 1
<1> PICK at \in [1 .. n -> 1 .. m + 1] : Place(at, d, n, s, m, TRUE)
  BY DEF Placed
<1>1. n > 0 /\ at[n] = m + 1
  BY DEF Place
<1> SUFFICES ASSUME n > 1 PROVE FALSE
  BY <1>1
<1>2. 1 \in 1 .. n /\ n \in 1 .. n /\ 1 < n
  OBVIOUS
<1>3. at[1] < at[n]
  BY <1>2 DEF Place
<1>4. at[1] \in 1 .. m
  BY <1>1, <1>2, <1>3
<1> QED
  BY <1>2, <1>4 DEF Place

LEMMA ToldOfThisIteration ==
  ASSUME ForwardInv, NEW x \in Mark, ToldNow(x)
  PROVE  pc # "body" /\ x \in Expected
<1>1. pc \notin {"body", "malloc"}
  BY DEF ForwardInv, ToldInv
<1>2. OfPagesBefore(x) => x \in Expected
  BY DEF OfPagesBefore, Expected
<1>3. CASE pc = "words"
  <2>1. pos \in Page /\ ~IsReadOnly(left[pos]) /\ left[pos] \in [Word -> SUBSET Bit]
    <3>1. Meta \subseteq SUBSET Bit
      BY DEF Meta, Bit
    <3> QED
      BY <1>3, <3>1 DEF ForwardInv, SlateInv, TypeOK
  <2>2. OfWordsBefore(x) => x \in MarksOf(pos, left[pos])
    BY <2>1, MarksAre DEF OfWordsBefore
  <2>3. OfPagesBefore(x) \/ OfWordsBefore(x)
    BY <1>3 DEF ForwardInv, ToldInv
  <2> QED
    BY <1>1, <1>2, <2>1, <2>2, <2>3 DEF Expected
<1>4. CASE pc = "pages"
  BY <1>1, <1>2, <1>4 DEF ForwardInv, ToldInv
<1>5. CASE pc = "event"
  BY <1>1, <1>5 DEF ForwardInv, ToldInv
<1> QED
  BY <1>1, <1>3, <1>4, <1>5 DEF ForwardInv, TypeOK

MarksAreDue == marks # {} => due # <<>> /\ marks \subseteq Head(due)

LEMMA KnowsTheOldest == TransferInv => MarksAreDue
<1> SUFFICES ASSUME TransferInv, NEW x \in marks PROVE due # <<>> /\ x \in Head(due)
  BY DEF MarksAreDue
<1>1. /\ ForwardInv /\ due \in Seq(SUBSET Mark) /\ stream \in Seq(AnyPacket)
      /\ x \in Mark
  BY DEF TransferInv, ForwardInv, TypeOK
<1>2. \A k \in 1 .. Len(stream) : stream[k] \in DonePackets <=> stream[k].type = "DONE"
  BY <1>1, Kinds
<1>3. Len(due) > 0 => due # <<>> /\ Head(due) = due[1]
  BY <1>1
<1> PICK n \in Nat, m \in Nat : n = Len(due) /\ m = Len(stream)
  BY <1>1
<1> PICK open \in BOOLEAN : open <=> pc # "body"
  OBVIOUS
<1>4. Placed(due, n, stream, m, open)
  BY PlacesNow DEF TransferInv, Placed
<1>5. CASE \E k \in 1 .. m : stream[k].type = "DONE"
  <2>1. PICK f \in 1 .. m : /\ stream[f].type = "DONE" /\ stream[f].meta = due[1]
                           /\ \A j \in 1 .. f - 1 : stream[j].type # "DONE"
    BY <1>4, <1>5, FirstPlace
  <2>2. \A j \in 1 .. f - 1 : stream[j] \notin DonePackets
    BY <1>2, <2>1
  <2>3. Told(x, marks, stream, f)
    BY <2>2 DEF Told
  <2>4. x \in stream[f].meta
    BY <1>1, <1>2, <2>1, <2>3 DEF ForwardInv, DoneInv
  <2>5. n > 0
    BY <1>4, <1>5, FirstPlace
  <2> QED
    BY <1>3, <2>1, <2>4, <2>5
<1>6. CASE \A k \in 1 .. m : stream[k].type # "DONE"
  <2>1. \A j \in 1 .. (m + 1) - 1 : stream[j] \notin DonePackets
    BY <1>2, <1>6
  <2>2. ToldNow(x)
    BY <2>1 DEF ToldNow, Told
  <2>3. pc # "body" /\ x \in Expected
    BY <1>1, <2>2, ToldOfThisIteration
  <2>4. open = TRUE
    BY <2>3
  <2>5. Placed(due, n, stream, m, TRUE)
    BY <1>4, <2>4
  <2>6. n = 1
    BY <1>6, <2>5, OnlyPlace
  <2>7. due[1] = Expected
    BY <2>3, <2>6 DEF TransferInv, DueInv
  <2> QED
    BY <1>3, <2>3, <2>6, <2>7
<1> QED
  BY <1>5, <1>6

(* Every step keeps the invariant, and is a step of IterationTransfer *)
LEMMA TransferKeeps == TransferInv /\ [TransferNext]_transferVars => TransferInv'
<1> SUFFICES ASSUME TransferInv, [TransferNext]_transferVars PROVE TransferInv'
  OBVIOUS
<1>1. CASE UNCHANGED transferVars
  <2>1. ForwardInv'
    BY <1>1, ForwardStep DEF TransferInv, transferVars
  <2>2. UNCHANGED <<due, stream, pc, left>>
    BY <1>1 DEF transferVars, vars, sender
  <2> QED
    BY <2>1, <2>2 DEF TransferInv, DueInv, Expected
<1> QED
  BY <1>1, ExecuteKeeps, SendOnKeeps, ReceiveKeeps, FinishTakes DEF TransferNext

LEMMA TransferStep ==
  ASSUME TransferInv, TransferInv', MarksAreDue', [TransferNext]_transferVars
  PROVE  [Transfer!TransferNext]_(Transfer!transferVars)
<1>1. CASE Execute
  <2>1. Expected' \in LeftBehind
    BY ExpectedLater DEF TransferInv
  <2>2. due' = Append(due, Expected') /\ marks' = marks
    BY <1>1 DEF Execute, RunBody, receiver
  <2> QED
    BY <2>1, <2>2 DEF Transfer!TransferNext, Transfer!Execute
<1>2. CASE SendOn
  <2>1. due' = due /\ marks' = marks
    BY <1>2 DEF SendOn, EndIter, BroadcastMallocs, SkipPage, ForwardPair, ForwardWhole,
                BufferRoPage, BeginWords, ForwardWord, EndWords, ForwardRoPage,
                BroadcastEvent, receiver
  <2> QED
    BY <2>1 DEF Transfer!transferVars
<1>3. CASE Receive
  <2>1. due' = due /\ marks \subseteq marks'
    BY <1>3 DEF Receive, ReceivePacket, TakeFirst, TakeShadow, TakeRoPage, TakeAlloc
  <2>2. CASE marks' = marks
    BY <2>1, <2>2 DEF Transfer!transferVars
  <2>3. CASE marks' # marks
    <3>1. marks' # {}
      BY <2>1, <2>3
    <3>2. due # <<>> /\ marks' \subseteq Head(due)
      BY <2>1, <3>1 DEF MarksAreDue
    <3> QED
      BY <2>1, <3>2 DEF Transfer!TransferNext, Transfer!Tell
  <2> QED
    BY <2>2, <2>3
<1>4. CASE Finish
  <2>1. due' = Tail(due)
    BY <1>4 DEF Finish
  <2> QED
    BY <1>4, <2>1, FinishTakes DEF Transfer!TransferNext, Transfer!Finish
<1>5. CASE UNCHANGED transferVars
  BY <1>5 DEF transferVars, vars, receiver, Transfer!transferVars
<1> QED
  BY <1>1, <1>2, <1>3, <1>4, <1>5 DEF TransferNext

(* The history variable restrains nothing: what is proved of end_iter and  *)
(* process_incoming_packets under Spec holds of the runs with the history. *)
THEOREM HistoryIsIdle == TransferSpec => Spec
<1>1. TransferInit => Init
  BY DEF TransferInit
<1>2. [TransferNext]_transferVars => [Next]_vars
  BY DEF TransferNext, transferVars, Execute, SendOn, Receive, Finish, Next, Sender, Receiver
<1> QED
  BY <1>1, <1>2, PTL DEF TransferSpec, Spec

(* The iterations under way have their DONE packets in the stream, in the  *)
(* order in which they were executed.                                      *)
THEOREM TransferInvariant == TransferSpec => []TransferInv
<1> QED
  BY TransferStart, TransferKeeps, PTL DEF TransferSpec

(* end_iter and process_incoming_packets hand the iterations over one by   *)
(* one: whatever mixture of whole pages, words and buffered read-only      *)
(* pages carries them, and however far the sender is ahead, the receiver   *)
(* learns of the oldest iteration only, and of all of it before the next.  *)
THEOREM ForwardImplementsTransfer == TransferSpec => ImplementsTransfer
<1>1. TransferInit => Transfer!Init
  BY DEF TransferInit, Init, Transfer!Init
<1>2. TransferInv /\ TransferInv' /\ MarksAreDue' /\ [TransferNext]_transferVars
        => [Transfer!TransferNext]_(Transfer!transferVars)
  BY TransferStep
<1> QED
  BY <1>1, <1>2, TransferInvariant, KnowsTheOldest, PTL
     DEF TransferSpec, ImplementsTransfer, Transfer!TransferSpec

=============================================================================
