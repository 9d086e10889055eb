---------------------------- MODULE PageForward ----------------------------
(***************************************************************************)
(* How the memory a worker touched in an iteration reaches a worker of a   *)
(* following stage: __specpriv_end_iter of loopevent_orig.cpp with         *)
(* clear_read, forward_pair, buffer_ro_page and forward_ro_page on the     *)
(* sending side, and process_incoming_packets, as __specpriv_begin_iter of *)
(* translation/loopevent_trans.c spells it out, on the receiving side.     *)
(*                                                                         *)
(* Each page has a shadow page with a byte of metadata for every byte of   *)
(* it.  The code handles the shadow eight bytes (a word) at a time and     *)
(* does the same to every byte of a word, so a word is modelled by one     *)
(* byte of metadata, the set of its bits 0, 1 and 2:                       *)
(*   0  the value that was there before has to be checked (read before     *)
(*      write),   1  written,   2  read.                                   *)
(* Bit 7 of the first byte, the "touched" mark of a page, is kept apart.   *)
(* The mark is all end_iter goes by, so the loop body is assumed to set it *)
(* on every page it leaves metadata on; for globals and stacks two TODOs   *)
(* of end_iter doubt that (loopevent_orig.cpp:704-706 and 771-773), and    *)
(* what is on a page without it is never sent.                             *)
(*                                                                         *)
(* The packets a worker sends to one worker of a following stage travel    *)
(* through one software queue, here a sequence (see SwQueue).  The         *)
(* receiver may take packets while the sender is in the middle of a page.  *)
(***************************************************************************)
EXTENDS Naturals, Sequences, FiniteSets

CONSTANTS
  NumPages,     (* pages of globals, stacks and heaps, in that order       *)
  NumStatic,    (* pages of globals and stacks, which exist from the start *)
  NumWords,     (* words of a page: PAGE_SIZE / 8                          *)
  WordLimit,    (* 8: with more nonzero words the whole page is sent       *)
  RoSize,       (* RO_ENTRY_BUFFER_SIZE                                    *)
  NULL,         (* an empty entry of the read-only page buffer             *)
  StreamBound   (* bound of the model: a new iteration starts with fewer   *)
                (* packets than this in the stream                         *)

ASSUME ForwardAssumption ==
  /\ NumPages \in Nat \ {0}
  /\ NumStatic \in 0 .. NumPages
  /\ NumWords \in Nat \ {0}
  /\ WordLimit \in Nat
  /\ RoSize \in Nat \ {0}
  /\ StreamBound \in Nat \ {0}

Page == 1 .. NumPages
Static == 1 .. NumStatic
Word == 0 .. NumWords - 1
RoSlot == 0 .. RoSize - 1

(* The metadata the instrumented loop body can leave on a byte: untouched, *)
(* read, written, written and then read, read and then written.            *)
Meta == {{}, {2}, {1}, {1, 2}, {0, 1, 2}}

ASSUME NoPageIsNull == NULL \notin Page

VARIABLES
  shadow,    (* shadow[p][w]: metadata of word w of page p                 *)
  touched,   (* pages whose touched mark is set                            *)
  mallocs,   (* ver_malloc_buffer: pages allocated and not yet broadcast   *)
  heap,      (* pages that exist in the sender                             *)
  ro,        (* ro_page_buffer: its data and its index                     *)
  pc,        (* where the sender is                                        *)
  pos,       (* the page the loops of end_iter have come to                *)
  word,      (* the word the loop of forward_pair has come to              *)
  left,      (* history: the metadata this iteration left behind           *)
  stream,    (* packets on their way to the receiver                       *)
  lead,      (* receiver: the first packet of a pair, or NULL              *)
  mapped,    (* receiver: pages that exist in it                           *)
  marks      (* receiver, history: what it was told of this iteration      *)

sender == <<shadow, touched, mallocs, heap, ro, pc, pos, word, left>>
receiver == <<lead, mapped, marks>>
vars == <<sender, stream, receiver>>

NoRo == [i \in RoSlot |-> NULL]
ZeroPage == [w \in Word |-> {}]
IsZero(page) == page = ZeroPage

Init ==
  /\ shadow = [p \in Page |-> ZeroPage]
  /\ touched = {}
  /\ mallocs = {}
  /\ heap = Static
  /\ ro = [data |-> NoRo, index |-> 0]
  /\ pc = "body"
  /\ pos = 1 /\ word = 0
  /\ left = [p \in Page |-> ZeroPage]
  /\ stream = <<>>
  /\ lead = NULL
  /\ mapped = Static
  /\ marks = {}

-----------------------------------------------------------------------------
(* Packets.  half is not in the code: it tells the properties which of the *)
(* two packets of a pair this is.                                          *)

MemWord(p, w) ==
  [type |-> "NORMAL", check |-> "REQUIRED", half |-> "mem",
   page |-> p, words |-> {w}, meta |-> {}]
ShadowWord(p, w, m) ==
  [type |-> "NORMAL", check |-> "REQUIRED", half |-> "shadow",
   page |-> p, words |-> {w}, meta |-> {<<p, w, m>>}]
MemPage(p) ==
  [type |-> "SUPER", check |-> "REQUIRED", half |-> "mem",
   page |-> p, words |-> Word, meta |-> {}]
ShadowPage(p, page) ==
  [type |-> "SUPER", check |-> "REQUIRED", half |-> "shadow",
   page |-> p, words |-> Word,
   meta |-> {<<p, w, page[w]>> : w \in {v \in Word : page[v] # {}}}]
RoPage(entries) ==
  [type |-> "SUPER", check |-> "RO_PAGE", half |-> "mem",
   page |-> NULL, words |-> {}, meta |-> {<<p, "read">> : p \in entries}]
Alloc(pages) ==
  [type |-> "ALLOC", check |-> "REGULAR", half |-> "mem",
   page |-> NULL, words |-> {}, meta |-> {<<p, "alloc">> : p \in pages}]
Done(expected) ==
  [type |-> "DONE", check |-> "EOI", half |-> "mem",
   page |-> NULL, words |-> {}, meta |-> expected]

-----------------------------------------------------------------------------
(* The loop body of one iteration, outside src/: it may allocate pages,    *)
(* touches pages that exist, and leaves metadata on what it read or wrote. *)
(* That metadata never comes without the touched mark is an assumption.    *)
RunBody ==
  /\ pc = "body"
  /\ Len(stream) < StreamBound
  /\ \E fresh \in SUBSET (Page \ heap) :
       /\ heap' = heap \cup fresh
       /\ mallocs' = mallocs \cup fresh
  /\ \E used \in SUBSET heap', m \in [Page -> [Word -> Meta]] :
       /\ \A p \in Page \ used : m[p] = ZeroPage
       /\ touched' = touched \cup used
       /\ shadow' = [p \in Page |-> [w \in Word |-> shadow[p][w] \cup m[p][w]]]
       /\ left' = m
  /\ pc' = "malloc"
  /\ UNCHANGED <<ro, pos, word, stream, receiver>>

(* Mutant: the buffer is cleared before it is broadcast. *)
BroadcastClearedMallocs ==
  /\ pc = "malloc"
  /\ stream' = Append(stream, Alloc({}))
  /\ mallocs' = {}
  /\ pc' = "pages"
  /\ pos' = 1
  /\ UNCHANGED <<shadow, touched, heap, ro, word, left, receiver>>

(* "If there are ver_mallocs that not broadcasted yet, handle them first." *)
BroadcastMallocs ==
  /\ pc = "malloc"
  /\ stream' = Append(stream, Alloc(mallocs))
  /\ mallocs' = {}
  /\ pc' = "pages"
  /\ pos' = 1
  /\ UNCHANGED <<shadow, touched, heap, ro, word, left, receiver>>

(* clear_read: what it leaves in the shadow, and the number it returns     *)
ReadMask(m) == IF 2 \in m /\ 1 \notin m THEN {0} ELSE {}
ClearRead(page) == [w \in Word |-> page[w] \cup (page[w] \cap ReadMask(page[w]))]
IsReadOnly(page) == \A w \in Word : page[w] \subseteq {2}
NonZeroWords(page) == {w \in Word : page[w] # {}}
NonZero(page) ==
  IF IsReadOnly(page) THEN 0 ELSE Cardinality(NonZeroWords(page))

RoEntries(data) == {data[i] : i \in RoSlot} \ {NULL}

(* forward_ro_page: the packets it sends and the buffer it leaves; the     *)
(* entries are erased, the index is not.                                   *)
RoPackets(b) == IF b.index # 0 THEN <<RoPage(RoEntries(b.data))>> ELSE <<>>
RoKept(b) == b  (* a mutant *)
RoErased(b) == IF b.index # 0 THEN [b EXCEPT !.data = NoRo] ELSE b

(* buffer_ro_page, which empties a full buffer first. *)
RoOverfull(b) == b.index > RoSize  (* a mutant *)
RoFull(b) == b.index = RoSize
RoRoom(b) == IF RoFull(b) THEN [RoErased(b) EXCEPT !.index = 0] ELSE b
RoAdd(b, p) ==
  LET r == RoRoom(b)
  IN  [data |-> [r.data EXCEPT ![r.index] = p], index |-> r.index + 1]

(* Mutants: a turn that leaves the touched mark of a clean page behind,    *)
(* and one that goes on without moving to the next page.                   *)
SkipPageTouched ==
  /\ pc = "pages" /\ pos \in Page
  /\ pos \notin touched \/ IsZero(shadow[pos])
  /\ pos' = pos + 1
  /\ UNCHANGED <<shadow, touched, mallocs, heap, ro, pc, word, left, stream,
                 receiver>>
SkipNothing ==
  /\ pc = "pages" /\ pos \in Page
  /\ pos \notin touched \/ IsZero(shadow[pos])
  /\ touched' = touched \ {pos}
  /\ UNCHANGED <<shadow, mallocs, heap, ro, pc, pos, word, left, stream,
                 receiver>>

(* One turn of the loops over shadow_globals, shadow_stacks and            *)
(* shadow_heaps: nothing is sent for a page that was not touched or whose  *)
(* metadata is zero, and forward_pair sends the rest.                      *)
SkipPage ==
  /\ pc = "pages" /\ pos \in Page
  /\ pos \notin touched \/ IsZero(shadow[pos])
  /\ touched' = touched \ {pos}
  /\ pos' = pos + 1
  /\ UNCHANGED <<shadow, mallocs, heap, ro, pc, word, left, stream, receiver>>

(* A page to be sent: forward_pair(clear_read(shadow), ...) *)
ToForward ==
  /\ pc = "pages" /\ pos \in touched
  /\ ~IsZero(shadow[pos])
  /\ touched' = touched \ {pos}

ForwardWhole ==
  /\ ToForward
  /\ NonZero(shadow[pos]) > WordLimit
  /\ stream' = stream \o <<MemPage(pos), ShadowPage(pos, ClearRead(shadow[pos]))>>
  /\ shadow' = [shadow EXCEPT ![pos] = ZeroPage]
  /\ pos' = pos + 1
  /\ UNCHANGED <<mallocs, heap, ro, pc, word, left, receiver>>

BufferRoPage ==
  /\ ToForward
  /\ NonZero(shadow[pos]) = 0
  /\ stream' = IF RoFull(ro) THEN stream \o RoPackets(ro) ELSE stream
  /\ ro' = RoAdd(ro, pos)
  /\ shadow' = [shadow EXCEPT ![pos] = ZeroPage]
  /\ pos' = pos + 1
  /\ UNCHANGED <<mallocs, heap, pc, word, left, receiver>>

BeginWords ==
  /\ ToForward
  /\ NonZero(shadow[pos]) \in 1 .. WordLimit
  /\ shadow' = [shadow EXCEPT ![pos] = ClearRead(@)]
  /\ pc' = "words" /\ word' = 0
  /\ UNCHANGED <<mallocs, heap, ro, pos, left, stream, receiver>>

(* One turn of the loop over the words of the page; in the mutant it tests *)
(* bit 0 alone.                                                            *)
ForwardChecked ==
  /\ pc = "words" /\ word \in Word
  /\ stream' = IF 0 \notin shadow[pos][word] THEN stream
               ELSE stream \o <<MemWord(pos, word),
                                ShadowWord(pos, word, shadow[pos][word])>>
  /\ word' = word + 1
  /\ UNCHANGED <<shadow, touched, mallocs, heap, ro, pc, pos, left, receiver>>
ForwardWord ==
  /\ pc = "words" /\ word \in Word
  /\ stream' = IF shadow[pos][word] = {} THEN stream
               ELSE stream \o <<MemWord(pos, word),
                                ShadowWord(pos, word, shadow[pos][word])>>
  /\ word' = word + 1
  /\ UNCHANGED <<shadow, touched, mallocs, heap, ro, pc, pos, left, receiver>>

EndWords ==
  /\ pc = "words" /\ word = NumWords
  /\ shadow' = [shadow EXCEPT ![pos] = ZeroPage]
  /\ pc' = "pages" /\ pos' = pos + 1
  /\ word' = 0
  /\ UNCHANGED <<touched, mallocs, heap, ro, left, stream, receiver>>

ForwardPair ==
  ForwardWhole \/ BufferRoPage \/ BeginWords \/ ForwardWord \/ EndWords

ForwardRoPage ==
  /\ pc = "pages" /\ pos > NumPages
  /\ stream' = stream \o RoPackets(ro)
  /\ ro' = RoErased(ro)
  /\ pc' = "event"
  /\ UNCHANGED <<shadow, touched, mallocs, heap, pos, word, left, receiver>>

(* The metadata a receiver has to end up with: a mark for each word, or    *)
(* one for the whole page when it was only read.                           *)
MarksOf(p, page) ==
  IF IsZero(page) THEN {}
  ELSE IF \A w \in Word : page[w] \subseteq {2} THEN {<<p, "read">>}
  ELSE {<<p, w, page[w]>> : w \in NonZeroWords(page)}
Expected == UNION {MarksOf(p, left[p]) : p \in Page}

(* broadcast_event(EOI), and advance_iter *)
BroadcastEvent ==
  /\ pc = "event"
  /\ stream' = Append(stream, Done(Expected))
  /\ pc' = "body"
  /\ pos' = 1
  /\ left' = [p \in Page |-> ZeroPage]
  /\ UNCHANGED <<shadow, touched, mallocs, heap, ro, word, receiver>>

-----------------------------------------------------------------------------
(* process_incoming_packets: one packet at a time; a NORMAL packet and a   *)
(* SUPER packet that is not of a read-only page have a second packet,      *)
(* which is taken without a look at its type.  AllSuperArePairs is a       *)
(* mutant that forgets the exception.                                      *)

Packet == Head(stream)
AllSuperArePairs(p) == p.type \in {"NORMAL", "SUPER"}
ComesAsPair(p) ==
  p.type = "NORMAL" \/ (p.type = "SUPER" /\ p.check # "RO_PAGE")

TakeFirst ==
  /\ lead = NULL
  /\ stream # <<>> /\ ComesAsPair(Packet)
  /\ lead' = Packet
  /\ stream' = Tail(stream)
  /\ UNCHANGED <<sender, mapped, marks>>

TakeShadow ==
  /\ lead # NULL
  /\ stream # <<>>
  /\ marks' = marks \cup Packet.meta
  /\ lead' = NULL
  /\ stream' = Tail(stream)
  /\ UNCHANGED <<sender, mapped>>

TakeRoPage ==
  /\ lead = NULL
  /\ stream # <<>> /\ Packet.type = "SUPER" /\ ~ComesAsPair(Packet)
  /\ marks' = marks \cup Packet.meta
  /\ stream' = Tail(stream)
  /\ UNCHANGED <<sender, lead, mapped>>

TakeAlloc ==
  /\ lead = NULL
  /\ stream # <<>> /\ Packet.type = "ALLOC"
  /\ mapped' = mapped \cup {m[1] : m \in Packet.meta}
  /\ stream' = Tail(stream)
  /\ UNCHANGED <<sender, lead, marks>>

TakeDone ==
  /\ lead = NULL
  /\ stream # <<>> /\ Packet.type = "DONE"
  /\ marks' = {}
  /\ stream' = Tail(stream)
  /\ UNCHANGED <<sender, lead, mapped>>

EndIter ==
  \/ BroadcastMallocs \/ SkipPage \/ ForwardPair
  \/ ForwardRoPage \/ BroadcastEvent
ReceivePacket == TakeFirst \/ TakeShadow \/ TakeRoPage \/ TakeAlloc

Sender == RunBody \/ EndIter
Receiver == ReceivePacket \/ TakeDone

Next == Sender \/ Receiver

Spec == Init /\ [][Next]_vars

(* A worker that has finished its loop body runs end_iter to the end, and  *)
(* a worker that waits for packets polls the queue.                        *)
FairSpec == Spec /\ WF_vars(EndIter) /\ WF_vars(Receiver)

-----------------------------------------------------------------------------
Bit == 0 .. 2
Mark ==
  (Page \X Word \X SUBSET Bit) \cup (Page \X {"read"})
PacketType ==
  [type : {"NORMAL", "SUPER", "ALLOC", "DONE"},
   check : {"REQUIRED", "RO_PAGE", "REGULAR", "EOI"},
   half : {"mem", "shadow"},
   page : Page \cup {NULL}, words : SUBSET Word,
   meta : SUBSET (Mark \cup (Page \X {"alloc"}))]

ASSUME NoPacketIsNull == NULL \notin PacketType

TypeOK ==
  /\ shadow \in [Page -> [Word -> SUBSET Bit]]
  /\ touched \subseteq Page /\ mallocs \subseteq Page /\ heap \subseteq Page
  /\ ro \in [data : [RoSlot -> Page \cup {NULL}], index : 0 .. RoSize]
  /\ pc \in {"body", "malloc", "pages", "words", "event"}
  /\ pos \in 1 .. NumPages + 1 /\ word \in 0 .. NumWords
  /\ left \in [Page -> [Word -> Meta]]
  /\ \A i \in 1 .. Len(stream) : stream[i] \in PacketType
  /\ lead = NULL \/ lead \in PacketType
  /\ mapped \subseteq Page
  /\ marks \subseteq Mark

(* The receiver never looks at the type of the second packet of a pair, so *)
(* sender and receiver have to agree on the framing of the stream: what is *)
(* taken as the shadow of a packet is the shadow of that page or word, and *)
(* a shadow is never taken for a packet of its own.                        *)
PairsStayTogether ==
  stream # <<>> =>
    IF lead = NULL THEN Packet.half = "mem"
    ELSE /\ Packet.half = "shadow"
         /\ Packet.page = lead.page /\ Packet.words = lead.words

(* When the receiver comes to the DONE packet of an iteration it has been  *)
(* told all the metadata the loop body left behind, and nothing else:      *)
(* whichever of the three ways each page was sent, whatever the buffer of  *)
(* read-only pages still held from iterations before.                      *)
ReceivesAllMetadata ==
  (stream # <<>> /\ lead = NULL /\ Packet.type = "DONE") => marks = Packet.meta

(* A page that another process allocated in the parallel region exists in  *)
(* the receiver before an update to it arrives: the ALLOC packet is ahead  *)
(* of the pages in the queue.                                              *)
UpdatesMappedPages ==
  /\ lead # NULL => lead.page \in mapped
  /\ (stream # <<>> /\ Packet.type = "SUPER" /\ Packet.check = "RO_PAGE")
       => {m[1] : m \in Packet.meta} \subseteq mapped

(* An iteration begins with no metadata and no unsent page left over from  *)
(* the iteration before, whichever way each page was sent.                 *)
CleanSlate ==
  pc = "body" =>
    /\ touched = {} /\ mallocs = {}
    /\ \A p \in Page : IsZero(shadow[p])
    /\ ro.data = NoRo

(* The receiver never hangs with half a pair or a packet in the queue: an  *)
(* iteration that was executed is received to the end.                     *)
IterationReceived ==
  (pc = "malloc") ~> (pc = "body" /\ stream = <<>> /\ lead = NULL)

(* What the comment in clear_read says: a byte that was read and not       *)
(* written is sent with bit 0 set, so that the try-commit unit, which      *)
(* checks loads by bit 0 only, verifies the value that was read.           *)
ReadsAreVerified ==
  \A i \in 1 .. Len(stream) :
    stream[i].half = "shadow" =>
      \A m \in stream[i].meta : (2 \in m[3] /\ 1 \notin m[3]) => 0 \in m[3]
=============================================================================
