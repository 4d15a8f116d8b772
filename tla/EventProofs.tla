------------------------------ MODULE EventProofs ------------------------------
(***************************************************************************)
(* Proofs about the way of an event: the hub that sends it (SSEManager),   *)
(* the connection of the web client that receives it (EventClient), and    *)
(* the queries it marks, with the mutations that mark them too (WebCache   *)
(* over the tables of WebHooks).                                           *)
(*                                                                         *)
(* The hub: types, the order of what is delivered, and that run never      *)
(* sends on a closed channel while no connection ended before its          *)
(* registration was handled.  The connection: its four invariants need     *)
(* each other, since that a timer finds no connection rests on the fact    *)
(* that an unused page has no timer, and whether who listens waits rests   *)
(* on both.  The queries: of every hook's mutations it is proved that they *)
(* mark, in the query of every hook, what they change, or pass it by; the  *)
(* cache is proved from that.                                              *)
(***************************************************************************)
EXTENDS SSEManager, WebCache, SequenceTheorems, TLAPS

-----------------------------------------------------------------------------
(* SSEManager, for any number of connections and instances and any size of  *)
(* the queues.                                                             *)

Numbers == Seq(1..MaxEvents)

(* What c received, what its channel holds, the queue of the hub and the   *)
(* number of the latest event: numbers rise along all of it.               *)
Rising(s) == \A i, j \in 1..Len(s) : i < j => s[i] < s[j]
Below(s, t) == \A i \in 1..Len(s), j \in 1..Len(t) : s[i] < t[j]
BelowQueue(s, b) == \A i \in 1..Len(s), k \in 1..Len(b) : s[i] < b[k].no
UpTo(s, n) == \A i \in 1..Len(s) : s[i] <= n

QueueRises(b, n) ==
    /\ \A k, l \in 1..Len(b) : k < l => b[k].no < b[l].no
    /\ \A k \in 1..Len(b) : b[k].no <= n

Delivered(g, ch, b, n) ==
    /\ Rising(g) /\ Rising(ch) /\ Below(g, ch)
    /\ UpTo(g, n) /\ UpTo(ch, n)
    /\ BelowQueue(g, b) /\ BelowQueue(ch, b)

Ordered ==
    /\ QueueRises(broadcast, events)
    /\ \A c \in Clients : Delivered(got[c], channel[c], broadcast, events)

(* Who waits where, of the connections that did not end too early: a       *)
(* registration waits only for an open one, and what is to be closed, or   *)
(* is, has left; what is closed is not registered.                         *)
Left == {"leaving", "gone"}

Queued ==
    /\ early = {} => alive
    /\ \A c \in ToSet(register) \ early : conn[c] = "open"
    /\ \A c \in ToSet(unregister) \ early : conn[c] \in Left
    /\ \A c \in closed \ early : conn[c] \in Left /\ c \notin clients

IInv == TypeOK /\ Ordered /\ Queued

-----------------------------------------------------------------------------
(* Lemmas about rising sequences.                                          *)

LEMMA NumbersOfSeq == ASSUME NEW s \in Numbers PROVE \A i \in 1..Len(s) : s[i] \in Nat
<1> TAKE i \in 1..Len(s)
<1>1. s[i] \in 1..MaxEvents
  BY ElementOfSeq DEF Numbers
<1>2. QED
  BY <1>1, SSEAssumption

LEMMA NumbersOfQueue ==
    ASSUME NEW b \in Seq(Event) PROVE \A k \in 1..Len(b) : b[k].no \in Nat
<1> TAKE k \in 1..Len(b)
<1>1. b[k] \in Event
  BY ElementOfSeq
<1>2. QED
  BY <1>1, SSEAssumption DEF Event

LEMMA RisingTail ==
    ASSUME NEW s \in Numbers, s # <<>>, Rising(s)
    PROVE  /\ Tail(s) \in Numbers /\ Rising(Tail(s))
           /\ Head(s) \in 1..MaxEvents /\ Head(s) = s[1]
           /\ \A i \in 1..Len(Tail(s)) : Head(s) < Tail(s)[i] /\ i + 1 \in 1..Len(s)
                                           /\ Tail(s)[i] = s[i + 1]
<1>1. /\ Head(s) \in 1..MaxEvents /\ Tail(s) \in Numbers /\ Len(Tail(s)) = Len(s) - 1
      /\ \A i \in 1..Len(Tail(s)) : Tail(s)[i] = s[i + 1]
  BY HeadTailProperties DEF Numbers
<1>2. Len(s) \in Nat /\ Len(s) # 0 /\ Len(Tail(s)) \in Nat
  BY <1>1, EmptySeq, LenProperties DEF Numbers
<1>3. \A i \in 1..Len(Tail(s)) : i + 1 \in 1..Len(s) /\ 1 \in 1..Len(s)
  BY <1>1, <1>2
<1>4. Head(s) = s[1]
  BY DEF Numbers
<1>5. Rising(Tail(s))
  BY <1>1, <1>3 DEF Rising
<1>6. \A i \in 1..Len(Tail(s)) : s[1] < s[i + 1]
  BY <1>3 DEF Rising
<1>7. QED
  BY <1>1, <1>3, <1>4, <1>5, <1>6

LEMMA RisingAppend ==
    ASSUME NEW s \in Numbers, NEW n \in 1..MaxEvents, Rising(s),
           \A i \in 1..Len(s) : s[i] < n
    PROVE  /\ Append(s, n) \in Numbers /\ Rising(Append(s, n))
           /\ \A i \in 1..Len(Append(s, n)) :
                 Append(s, n)[i] = n \/ (i \in 1..Len(s) /\ Append(s, n)[i] = s[i])
<1> DEFINE t == Append(s, n)
<1>1. /\ t \in Numbers /\ Len(t) = Len(s) + 1 /\ t[Len(s) + 1] = n
      /\ \A i \in 1..Len(s) : t[i] = s[i]
  BY AppendProperties DEF Numbers
<1>2. Len(s) \in Nat
  BY LenProperties DEF Numbers
<1> HIDE DEF t
<1>3. \A i \in 1..Len(t) : i = Len(s) + 1 \/ i \in 1..Len(s)
  BY <1>1, <1>2
<1>4. ASSUME NEW i \in 1..Len(t), NEW j \in 1..Len(t), i < j PROVE t[i] < t[j]
  <2>1. i \in 1..Len(s)
    BY <1>1, <1>2, <1>4
  <2>2. CASE j \in 1..Len(s)
    BY <1>1, <1>4, <2>1, <2>2 DEF Rising
  <2>3. CASE j = Len(s) + 1
    BY <1>1, <2>1, <2>3
  <2>4. QED
    BY <1>3, <2>2, <2>3
<1>5. Rising(t)
  BY <1>4 DEF Rising
<1>6. QED
  BY <1>1, <1>3, <1>5 DEF t

LEMMA QueueTail ==
    ASSUME NEW b \in Seq(Event), NEW n \in Nat, b # <<>>, QueueRises(b, n)
    PROVE  /\ Tail(b) \in Seq(Event) /\ Len(Tail(b)) = Len(b) - 1 /\ Len(b) \in Nat
           /\ QueueRises(Tail(b), n)
           /\ 1 \in 1..Len(b) /\ Head(b) = b[1] /\ Head(b) \in Event
           /\ \A k \in 1..Len(Tail(b)) : k + 1 \in 1..Len(b) /\ Tail(b)[k] = b[k + 1]
           /\ \A k \in 1..Len(Tail(b)) : Head(b).no < Tail(b)[k].no
<1>1. /\ Head(b) \in Event /\ Tail(b) \in Seq(Event) /\ Len(Tail(b)) = Len(b) - 1
      /\ \A k \in 1..Len(Tail(b)) : Tail(b)[k] = b[k + 1]
  BY HeadTailProperties
<1>2. Len(b) \in Nat /\ Len(b) # 0
  BY EmptySeq, LenProperties
<1>3. \A k \in 1..Len(Tail(b)) : k + 1 \in 1..Len(b)
  BY <1>1, <1>2
<1>4. Head(b) = b[1] /\ 1 \in 1..Len(b)
  BY <1>2
<1>5. QueueRises(Tail(b), n)
  BY <1>1, <1>3 DEF QueueRises
<1>6. \A k \in 1..Len(Tail(b)) : b[1].no < b[k + 1].no
  BY <1>3, <1>4 DEF QueueRises
<1>7. QED
  BY <1>1, <1>2, <1>3, <1>4, <1>5, <1>6

LEMMA QueueAppend ==
    ASSUME NEW b \in Seq(Event), NEW n \in Nat, NEW e \in Event, e.no = n + 1,
           QueueRises(b, n)
    PROVE  /\ Append(b, e) \in Seq(Event) /\ Len(Append(b, e)) = Len(b) + 1
           /\ QueueRises(Append(b, e), n + 1) /\ QueueRises(b, n + 1)
           /\ \A k \in 1..Len(Append(b, e)) :
                 Append(b, e)[k] = e \/ (k \in 1..Len(b) /\ Append(b, e)[k] = b[k])
<1> DEFINE t == Append(b, e)
<1>1. /\ t \in Seq(Event) /\ Len(t) = Len(b) + 1 /\ t[Len(b) + 1] = e
      /\ \A k \in 1..Len(b) : t[k] = b[k]
  BY AppendProperties
<1>2. Len(b) \in Nat
  BY LenProperties
<1>a. \A k \in 1..Len(b) : b[k].no \in Nat
  BY NumbersOfQueue
<1> HIDE DEF t
<1>3. \A k \in 1..Len(t) : k = Len(b) + 1 \/ k \in 1..Len(b)
  BY <1>1, <1>2
<1>4. ASSUME NEW k \in 1..Len(t) PROVE t[k].no <= n + 1
  BY <1>1, <1>3, <1>a DEF QueueRises
<1>5. ASSUME NEW k \in 1..Len(t), NEW l \in 1..Len(t), k < l PROVE t[k].no < t[l].no
  <2>1. k \in 1..Len(b)
    BY <1>1, <1>2, <1>5
  <2>2. CASE l \in 1..Len(b)
    BY <1>1, <1>5, <2>1, <2>2 DEF QueueRises
  <2>3. CASE l = Len(b) + 1
    BY <1>1, <1>a, <2>1, <2>3 DEF QueueRises
  <2>4. QED
    BY <1>3, <2>2, <2>3
<1>6. QueueRises(b, n + 1)
  BY <1>a DEF QueueRises
<1>7. QueueRises(t, n + 1)
  BY <1>4, <1>5 DEF QueueRises
<1>8. QED
  BY <1>1, <1>3, <1>6, <1>7 DEF t

(* An event is relayed, broadcast, taken from the queue, or sent.          *)
LEMMA RelayKeepsOrder ==
    ASSUME NEW g \in Numbers, NEW ch \in Numbers, NEW b \in Seq(Event), NEW n \in Nat,
           Delivered(g, ch, b, n), ch # <<>>
    PROVE  /\ Append(g, Head(ch)) \in Numbers /\ Tail(ch) \in Numbers
           /\ Delivered(Append(g, Head(ch)), Tail(ch), b, n)
<1> DEFINE h == Head(ch)
           u == Tail(ch)
           t == Append(g, h)
<1>1. /\ u \in Numbers /\ Rising(u) /\ h \in 1..MaxEvents /\ h = ch[1]
      /\ \A i \in 1..Len(u) : h < u[i] /\ i + 1 \in 1..Len(ch) /\ u[i] = ch[i + 1]
  BY RisingTail DEF Delivered
<1>2. 1 \in 1..Len(ch)
  BY EmptySeq, LenProperties DEF Numbers
<1>3. \A i \in 1..Len(g) : g[i] < h
  BY <1>1, <1>2 DEF Delivered, Below
<1>4. /\ t \in Numbers /\ Rising(t)
      /\ \A i \in 1..Len(t) : t[i] = h \/ (i \in 1..Len(g) /\ t[i] = g[i])
  BY <1>1, <1>3, RisingAppend DEF Delivered
<1> HIDE DEF h, u, t
<1>5. Below(t, u)
  BY <1>1, <1>4 DEF Delivered, Below
<1>6. UpTo(t, n) /\ UpTo(u, n)
  BY <1>1, <1>2, <1>4 DEF Delivered, UpTo
<1>7. BelowQueue(t, b) /\ BelowQueue(u, b)
  BY <1>1, <1>2, <1>4 DEF Delivered, BelowQueue
<1>8. QED
  BY <1>1, <1>4, <1>5, <1>6, <1>7 DEF Delivered, h, u, t

LEMMA BroadcastKeepsOrder ==
    ASSUME NEW g \in Numbers, NEW ch \in Numbers, NEW b \in Seq(Event), NEW n \in Nat,
           NEW e \in Event, e.no = n + 1, QueueRises(b, n), Delivered(g, ch, b, n)
    PROVE  Delivered(g, ch, Append(b, e), n + 1) /\ Delivered(g, ch, b, n + 1)
<1>1. \A i \in 1..Len(g) : g[i] \in Nat
  BY NumbersOfSeq
<1>2. \A i \in 1..Len(ch) : ch[i] \in Nat
  BY NumbersOfSeq
<1>3. UpTo(g, n + 1) /\ UpTo(ch, n + 1)
  BY <1>1, <1>2 DEF Delivered, UpTo
<1>4. /\ \A i \in 1..Len(g) : g[i] < e.no
      /\ \A i \in 1..Len(ch) : ch[i] < e.no
  BY <1>1, <1>2 DEF Delivered, UpTo
<1>5. \A k \in 1..Len(Append(b, e)) :
         Append(b, e)[k] = e \/ (k \in 1..Len(b) /\ Append(b, e)[k] = b[k])
  BY QueueAppend
<1> HIDE DEF Event
<1>6. BelowQueue(g, Append(b, e)) /\ BelowQueue(ch, Append(b, e))
  BY <1>4, <1>5 DEF Delivered, BelowQueue
<1>7. QED
  BY <1>3, <1>6 DEF Delivered

LEMMA TakingKeepsOrder ==
    ASSUME NEW g \in Numbers, NEW ch \in Numbers, NEW b \in Seq(Event), NEW n \in Nat,
           b # <<>>, QueueRises(b, n), Delivered(g, ch, b, n)
    PROVE  /\ Delivered(g, ch, Tail(b), n)
           /\ Append(ch, Head(b).no) \in Numbers
           /\ Delivered(g, Append(ch, Head(b).no), Tail(b), n)
<1> DEFINE h == Head(b)
           u == Tail(b)
           t == Append(ch, h.no)
<1>1. /\ 1 \in 1..Len(b) /\ h = b[1] /\ h \in Event
      /\ \A k \in 1..Len(u) : k + 1 \in 1..Len(b) /\ u[k] = b[k + 1]
      /\ \A k \in 1..Len(u) : h.no < u[k].no
  BY QueueTail
<1>2. h.no \in 1..MaxEvents /\ h.no <= n
  BY <1>1 DEF Event, QueueRises
<1>3. /\ \A i \in 1..Len(g) : g[i] < h.no
      /\ \A i \in 1..Len(ch) : ch[i] < h.no
  BY <1>1 DEF Delivered, BelowQueue
<1>4. /\ t \in Numbers /\ Rising(t)
      /\ \A i \in 1..Len(t) : t[i] = h.no \/ (i \in 1..Len(ch) /\ t[i] = ch[i])
  BY <1>2, <1>3, RisingAppend DEF Delivered
<1> HIDE DEF h, u, t
<1>5. BelowQueue(g, u) /\ BelowQueue(ch, u)
  BY <1>1 DEF Delivered, BelowQueue
<1>6. BelowQueue(t, u)
  BY <1>1, <1>4, <1>5 DEF BelowQueue
<1>7. Below(g, t) /\ UpTo(t, n)
  BY <1>2, <1>3, <1>4 DEF Delivered, Below, UpTo
<1>8. QED
  BY <1>4, <1>5, <1>6, <1>7 DEF Delivered, h, u, t

-----------------------------------------------------------------------------
(* Lemmas about the sets of waiting connections.                           *)

LEMMA ToSetAppend ==
    ASSUME NEW S, NEW s \in Seq(S), NEW x \in S
    PROVE  ToSet(Append(s, x)) \subseteq ToSet(s) \cup {x}
<1>1. /\ Append(s, x) \in Seq(S) /\ Len(Append(s, x)) = Len(s) + 1
      /\ Append(s, x)[Len(s) + 1] = x
      /\ \A i \in 1..Len(s) : Append(s, x)[i] = s[i]
  BY AppendProperties
<1>2. Len(s) \in Nat /\ DOMAIN s = 1..Len(s) /\ DOMAIN Append(s, x) = 1..Len(Append(s, x))
  BY <1>1, LenProperties
<1>3. \A i \in 1..Len(s) + 1 : i = Len(s) + 1 \/ i \in 1..Len(s)
  BY <1>2
<1>4. QED
  BY <1>1, <1>2, <1>3 DEF ToSet

LEMMA ToSetTail ==
    ASSUME NEW S, NEW s \in Seq(S), s # <<>>
    PROVE  ToSet(Tail(s)) \subseteq ToSet(s) /\ Head(s) \in ToSet(s)
<1>1. /\ Tail(s) \in Seq(S) /\ Len(Tail(s)) = Len(s) - 1
      /\ \A i \in 1..Len(Tail(s)) : Tail(s)[i] = s[i + 1]
  BY HeadTailProperties
<1>2. /\ Len(s) \in Nat /\ Len(s) # 0 /\ DOMAIN s = 1..Len(s)
      /\ DOMAIN Tail(s) = 1..Len(Tail(s))
  BY <1>1, LenProperties, EmptySeq
<1>3. \A i \in 1..Len(Tail(s)) : i + 1 \in 1..Len(s)
  BY <1>1, <1>2
<1>4. Head(s) = s[1] /\ 1 \in 1..Len(s)
  BY <1>2
<1>5. QED
  BY <1>1, <1>2, <1>3, <1>4 DEF ToSet

LEMMA ToSetEmpty == ToSet(<<>>) = {}
BY DEF ToSet

-----------------------------------------------------------------------------
(* The invariant holds at first and after every step.                      *)

LEMMA InitIInv == HubInit => IInv
<1> SUFFICES ASSUME HubInit PROVE IInv
  OBVIOUS
<1>1. TypeOK
  <2>1. Len(<<>>) <= QueueCap /\ Len(<<>>) <= BroadcastCap /\ 0 \in 0..MaxEvents
    BY SSEAssumption, EmptySeq
  <2>2. /\ <<>> \in Seq(Clients) /\ <<>> \in Seq(Event) /\ <<>> \in Seq(1..MaxEvents)
    BY EmptySeq
  <2>3. QED
    BY <2>1, <2>2 DEF HubInit, TypeOK
<1>2. Ordered
  <2>1. QueueRises(<<>>, 0) /\ Delivered(<<>>, <<>>, <<>>, 0)
    BY DEF QueueRises, Delivered, Rising, Below, UpTo, BelowQueue
  <2>2. QED
    BY <2>1 DEF HubInit, Ordered
<1>3. Queued
  BY ToSetEmpty DEF HubInit, Queued
<1>4. QED
  BY <1>1, <1>2, <1>3 DEF IInv

LEMMA RegisterClientIInv ==
    ASSUME IInv, alive, NEW c \in Clients, RegisterClient(c) PROVE IInv'
<1>1. TypeOK'
  <2>1. register' \in Seq(Clients) /\ Len(register') = Len(register) + 1
    BY AppendProperties DEF IInv, TypeOK, RegisterClient
  <2>2. Len(register') <= QueueCap
    BY <2>1, SSEAssumption, LenProperties DEF IInv, TypeOK, RegisterClient
  <2>3. QED
    BY <2>1, <2>2 DEF IInv, TypeOK, RegisterClient
<1>2. Ordered'
  BY DEF IInv, Ordered, RegisterClient
<1>3. Queued'
  <2>1. ToSet(register') \subseteq ToSet(register) \cup {c}
    BY ToSetAppend DEF IInv, TypeOK, RegisterClient
  <2>2. conn[c] = "new" /\ conn'[c] = "open" /\ \A d \in Clients \ {c} : conn'[d] = conn[d]
    BY DEF IInv, TypeOK, RegisterClient
  <2>3. ToSet(register) \subseteq Clients /\ ToSet(unregister) \subseteq Clients
    BY LenProperties DEF IInv, TypeOK, ToSet
  <2>4. QED
    BY <2>1, <2>2, <2>3 DEF IInv, TypeOK, Queued, Left, RegisterClient
<1>4. QED
  BY <1>1, <1>2, <1>3 DEF IInv

LEMMA RelayIInv ==
    ASSUME IInv, alive, NEW c \in Clients, Relay(c) PROVE IInv'
<1>1. /\ got[c] \in Numbers /\ channel[c] \in Numbers /\ broadcast \in Seq(Event)
      /\ events \in Nat /\ channel[c] # <<>>
      /\ Delivered(got[c], channel[c], broadcast, events)
  BY SSEAssumption DEF IInv, TypeOK, Ordered, Relay, Numbers
<1>2. /\ Append(got[c], Head(channel[c])) \in Numbers /\ Tail(channel[c]) \in Numbers
      /\ Delivered(Append(got[c], Head(channel[c])), Tail(channel[c]), broadcast, events)
  BY <1>1, RelayKeepsOrder
<1>3. /\ got' = [got EXCEPT ![c] = Append(got[c], Head(channel[c]))]
      /\ channel' = [channel EXCEPT ![c] = Tail(channel[c])]
      /\ UNCHANGED <<conn, register, unregister, broadcast, clients, closed,
                     limiters, events, alive, early>>
  BY DEF Relay
<1>4. got \in [Clients -> Numbers] /\ channel \in [Clients -> Numbers]
  BY DEF IInv, TypeOK, Numbers
<1>5. got' \in [Clients -> Numbers] /\ channel' \in [Clients -> Numbers]
  BY <1>2, <1>3, <1>4
<1>6. TypeOK'
  BY <1>3, <1>5 DEF IInv, TypeOK, Numbers
<1>7. ASSUME NEW d \in Clients PROVE Delivered(got'[d], channel'[d], broadcast, events)
  <2>1. CASE d = c
    BY <1>2, <1>3, <1>4, <2>1
  <2>2. CASE d # c
    BY <1>3, <1>4, <2>2 DEF IInv, Ordered
  <2>3. QED
    BY <2>1, <2>2
<1>8. Ordered'
  BY <1>3, <1>7 DEF IInv, Ordered
<1>9. Queued'
  BY <1>3 DEF IInv, Queued
<1>10. QED
  BY <1>6, <1>8, <1>9 DEF IInv

LEMMA UnregisterClientIInv ==
    ASSUME IInv, alive, NEW c \in Clients, UnregisterClient(c) PROVE IInv'
<1>1. TypeOK'
  <2>1. unregister' \in Seq(Clients) /\ Len(unregister') = Len(unregister) + 1
    BY AppendProperties DEF IInv, TypeOK, UnregisterClient
  <2>2. Len(unregister') <= QueueCap
    BY <2>1, SSEAssumption, LenProperties DEF IInv, TypeOK, UnregisterClient
  <2>3. early' \subseteq Clients
    BY DEF IInv, TypeOK, UnregisterClient
  <2>4. QED
    BY <2>1, <2>2, <2>3 DEF IInv, TypeOK, UnregisterClient
<1>2. Ordered'
  BY DEF IInv, Ordered, UnregisterClient
<1>3. early \subseteq early' /\ (c \notin early' => c \notin ToSet(register))
  BY DEF UnregisterClient
<1>4. Queued'
  <2>1. ToSet(unregister') \subseteq ToSet(unregister) \cup {c}
    BY ToSetAppend DEF IInv, TypeOK, UnregisterClient
  <2>2. conn'[c] = "leaving" /\ \A d \in Clients \ {c} : conn'[d] = conn[d]
    BY DEF IInv, TypeOK, UnregisterClient
  <2>3. ToSet(register) \subseteq Clients /\ ToSet(unregister) \subseteq Clients
    BY LenProperties DEF IInv, TypeOK, ToSet
  <2>4. QED
    BY <1>3, <2>1, <2>2, <2>3 DEF IInv, TypeOK, Queued, Left, UnregisterClient
<1>5. QED
  BY <1>1, <1>2, <1>4 DEF IInv

LEMMA DropLimiterIInv ==
    ASSUME IInv, alive, NEW c \in Clients, DropLimiter(c) PROVE IInv'
<1>1. TypeOK'
  BY DEF IInv, TypeOK, DropLimiter
<1>2. Ordered'
  BY DEF IInv, Ordered, DropLimiter
<1>3. Queued'
  <2>1. conn[c] = "leaving" /\ conn'[c] = "gone" /\ \A d \in Clients \ {c} : conn'[d] = conn[d]
    BY DEF IInv, TypeOK, DropLimiter
  <2>2. ToSet(register) \subseteq Clients /\ ToSet(unregister) \subseteq Clients
    BY LenProperties DEF IInv, TypeOK, ToSet
  <2>3. QED
    BY <2>1, <2>2 DEF IInv, TypeOK, Queued, Left, DropLimiter
<1>4. QED
  BY <1>1, <1>2, <1>3 DEF IInv

LEMMA BroadcastIInv ==
    ASSUME IInv, alive, NEW i \in Instances, Broadcast(i) PROVE IInv'
<1> DEFINE e == [no |-> events + 1, instance |-> i]
<1>1. events \in Nat /\ events + 1 \in 1..MaxEvents /\ events' = events + 1
  BY SSEAssumption DEF IInv, TypeOK, Broadcast
<1>2. e \in Event /\ e.no = events + 1
  BY <1>1 DEF Event
<1>3. \/ broadcast' = Append(broadcast, e) /\ Len(broadcast) < BroadcastCap
      \/ broadcast' = broadcast
  BY <1>1 DEF Broadcast
<1> HIDE DEF e
<1>4. /\ broadcast \in Seq(Event) /\ QueueRises(broadcast, events)
      /\ Len(broadcast) \in Nat
  BY LenProperties DEF IInv, TypeOK, Ordered
<1>5. /\ Append(broadcast, e) \in Seq(Event)
      /\ Len(Append(broadcast, e)) = Len(broadcast) + 1
      /\ QueueRises(Append(broadcast, e), events + 1) /\ QueueRises(broadcast, events + 1)
  BY <1>1, <1>2, <1>4, QueueAppend
<1>6. TypeOK'
  <2>1. broadcast' \in Seq(Event) /\ Len(broadcast') <= BroadcastCap
    <3>1. CASE broadcast' = broadcast
      BY <3>1 DEF IInv, TypeOK
    <3>2. CASE broadcast' = Append(broadcast, e) /\ Len(broadcast) < BroadcastCap
      <4>1. BroadcastCap \in Nat
        BY SSEAssumption
      <4>2. Len(broadcast) + 1 <= BroadcastCap
        BY <1>4, <3>2, <4>1
      <4>3. QED
        BY <1>5, <3>2, <4>2
    <3>3. QED
      BY <1>3, <3>1, <3>2
  <2>2. events' \in 0..MaxEvents
    BY <1>1
  <2>3. QED
    BY <2>1, <2>2 DEF IInv, TypeOK, Broadcast
<1>7. ASSUME NEW c \in Clients PROVE Delivered(got[c], channel[c], broadcast', events + 1)
  <2>1. /\ got[c] \in Numbers /\ channel[c] \in Numbers
        /\ Delivered(got[c], channel[c], broadcast, events)
    BY DEF IInv, TypeOK, Ordered, Numbers
  <2>2. QED
    BY <1>1, <1>2, <1>3, <1>4, <2>1, BroadcastKeepsOrder
<1>8. Ordered'
  BY <1>1, <1>3, <1>5, <1>7 DEF Ordered, Broadcast
<1>9. Queued'
  BY DEF IInv, Queued, Broadcast
<1>10. QED
  BY <1>6, <1>8, <1>9 DEF IInv

LEMMA RunRegisterIInv == ASSUME IInv, alive, RunRegister PROVE IInv'
<1>1. /\ Head(register) \in Clients /\ register' \in Seq(Clients)
      /\ Len(register') = Len(register) - 1
      /\ ToSet(register') \subseteq ToSet(register) /\ Head(register) \in ToSet(register)
  BY HeadTailProperties, ToSetTail DEF IInv, TypeOK, RunRegister
<1>2. TypeOK'
  <2>1. Len(register') <= QueueCap
    BY <1>1, SSEAssumption, LenProperties DEF IInv, TypeOK
  <2>2. QED
    BY <1>1, <2>1 DEF IInv, TypeOK, RunRegister
<1>3. Ordered'
  BY DEF IInv, Ordered, RunRegister
<1>4. Queued'
  BY <1>1 DEF IInv, Queued, Left, RunRegister
<1>5. QED
  BY <1>2, <1>3, <1>4 DEF IInv

LEMMA RunUnregisterIInv == ASSUME IInv, alive, RunUnregister PROVE IInv'
<1>1. /\ Head(unregister) \in Clients /\ unregister' \in Seq(Clients)
      /\ Len(unregister') = Len(unregister) - 1
      /\ ToSet(unregister') \subseteq ToSet(unregister)
      /\ Head(unregister) \in ToSet(unregister)
  BY HeadTailProperties, ToSetTail DEF IInv, TypeOK, RunUnregister
<1>2. TypeOK'
  <2>1. Len(unregister') <= QueueCap
    BY <1>1, SSEAssumption, LenProperties DEF IInv, TypeOK
  <2>2. QED
    BY <1>1, <2>1 DEF IInv, TypeOK, RunUnregister
<1>3. Ordered'
  BY DEF IInv, Ordered, RunUnregister
<1>4. Queued'
  BY <1>1 DEF IInv, Queued, RunUnregister
<1>5. QED
  BY <1>2, <1>3, <1>4 DEF IInv

LEMMA RunBroadcastIInv == ASSUME IInv, alive, RunBroadcast PROVE IInv'
<1>1. /\ broadcast \in Seq(Event) /\ broadcast # <<>> /\ broadcast' = Tail(broadcast)
      /\ events \in Nat /\ QueueRises(broadcast, events)
  BY SSEAssumption DEF IInv, TypeOK, Ordered, RunBroadcast
<1>2. /\ Tail(broadcast) \in Seq(Event) /\ Len(Tail(broadcast)) = Len(broadcast) - 1
      /\ Len(broadcast) \in Nat /\ QueueRises(Tail(broadcast), events)
  BY <1>1, QueueTail
<1> DEFINE e == Head(broadcast)
<1>3. PICK chosen \in SUBSET Addressed(e) :
         /\ alive' = (chosen \cap closed = {})
         /\ channel' = [c \in Clients |->
              IF c \in chosen \ closed /\ Len(channel[c]) < ChannelCap
              THEN Append(channel[c], e.no) ELSE channel[c]]
  BY DEF RunBroadcast
<1>4. /\ limiters' = limiters \cup Addressed(e)
      /\ UNCHANGED <<conn, register, unregister, clients, closed, events, got, early>>
  BY DEF RunBroadcast
<1>5. Addressed(e) \subseteq clients
  BY DEF Addressed
<1>6. ASSUME NEW c \in Clients
      PROVE  /\ channel'[c] \in Numbers
             /\ Delivered(got[c], channel'[c], Tail(broadcast), events)
  <2>1. /\ got[c] \in Numbers /\ channel[c] \in Numbers
        /\ Delivered(got[c], channel[c], broadcast, events)
    BY DEF IInv, TypeOK, Ordered, Numbers
  <2>2. channel'[c] = channel[c] \/ channel'[c] = Append(channel[c], e.no)
    BY <1>3
  <2>3. QED
    BY <1>1, <2>1, <2>2, TakingKeepsOrder
<1>7. TypeOK'
  <2>1. channel' \in [Clients -> Numbers]
    BY <1>3, <1>6
  <2>2. Len(broadcast') <= BroadcastCap
    BY <1>1, <1>2, SSEAssumption DEF IInv, TypeOK
  <2>3. alive' \in BOOLEAN
    BY <1>3
  <2>4. QED
    BY <1>1, <1>2, <1>4, <1>5, <2>1, <2>2, <2>3 DEF IInv, TypeOK, Numbers
<1>8. Ordered'
  BY <1>1, <1>2, <1>4, <1>6 DEF Ordered
<1>9. Queued'
  BY <1>3, <1>4, <1>5 DEF IInv, Queued
<1>10. QED
  BY <1>7, <1>8, <1>9 DEF IInv

LEMMA NextIInv == IInv /\ [HubNext]_hubVars => IInv'
<1> SUFFICES ASSUME IInv, [HubNext]_hubVars PROVE IInv'
  OBVIOUS
<1>1. ASSUME alive, NEW c \in Clients, Handler(c) PROVE IInv'
  BY <1>1, RegisterClientIInv, RelayIInv, UnregisterClientIInv, DropLimiterIInv DEF Handler
<1>2. ASSUME alive, NEW i \in Instances, Broadcast(i) PROVE IInv'
  BY <1>2, BroadcastIInv
<1>3. ASSUME alive, Run PROVE IInv'
  BY <1>3, RunRegisterIInv, RunUnregisterIInv, RunBroadcastIInv DEF Run
<1>4. CASE UNCHANGED hubVars
  BY <1>4 DEF hubVars, IInv, TypeOK, Ordered, Queued
<1>5. QED
  BY <1>1, <1>2, <1>3, <1>4 DEF HubNext

-----------------------------------------------------------------------------
(* What was delivered and what waits in the channel form one sequence.     *)
LEMMA DeliveredRises ==
    ASSUME NEW g \in Numbers, NEW ch \in Numbers, NEW b, NEW n, Delivered(g, ch, b, n)
    PROVE  Rising(g \o ch) /\ BelowQueue(g \o ch, b)
<1> DEFINE s == g \o ch
<1>1. /\ Len(s) = Len(g) + Len(ch)
      /\ \A i \in 1..Len(g) + Len(ch) : s[i] = IF i <= Len(g) THEN g[i] ELSE ch[i - Len(g)]
  BY ConcatProperties DEF Numbers
<1>2. Len(g) \in Nat /\ Len(ch) \in Nat
  BY LenProperties DEF Numbers
<1> HIDE DEF s
<1>3. ASSUME NEW i \in 1..Len(s)
      PROVE  \/ i \in 1..Len(g) /\ s[i] = g[i]
             \/ i > Len(g) /\ i - Len(g) \in 1..Len(ch) /\ s[i] = ch[i - Len(g)]
  BY <1>1, <1>2
<1>4. BelowQueue(s, b)
  BY <1>3 DEF Delivered, BelowQueue
<1>5. ASSUME NEW i \in 1..Len(s), NEW j \in 1..Len(s), i < j PROVE s[i] < s[j]
  <2>1. CASE i \in 1..Len(g) /\ s[i] = g[i] /\ j \in 1..Len(g) /\ s[j] = g[j]
    BY <1>5, <2>1 DEF Delivered, Rising
  <2>2. CASE /\ i \in 1..Len(g) /\ s[i] = g[i]
             /\ j - Len(g) \in 1..Len(ch) /\ s[j] = ch[j - Len(g)]
    BY <2>2 DEF Delivered, Below
  <2>3. CASE /\ i - Len(g) \in 1..Len(ch) /\ s[i] = ch[i - Len(g)]
             /\ j - Len(g) \in 1..Len(ch) /\ s[j] = ch[j - Len(g)]
    <3>1. i - Len(g) < j - Len(g)
      BY <1>2, <1>5
    <3>2. QED
      BY <2>3, <3>1 DEF Delivered, Rising
  <2>4. ~(i > Len(g) /\ j \in 1..Len(g))
    BY <1>2, <1>5
  <2>5. QED
    BY <1>3, <2>1, <2>2, <2>3, <2>4
<1>6. QED
  BY <1>4, <1>5 DEF Rising, s

(* Whatever the sizes of the queues and however connections come and go:   *)
(* what a client is sent is in the order of the broadcasts, each event at  *)
(* most once, whatever a full channel or a filter dropped; and run does    *)
(* not send on a closed channel, which would bring the daemon down, as     *)
(* long as no connection ended while its registration was still queued.    *)
THEOREM HubStaysSound == HubSpec => []HubIsSound
<1>1. IInv => HubIsSound
  <2> SUFFICES ASSUME IInv PROVE HubIsSound
    OBVIOUS
  <2>1. ASSUME NEW c \in Clients
        PROVE  Rising(got[c] \o channel[c]) /\ BelowQueue(got[c] \o channel[c], broadcast)
    BY DeliveredRises DEF IInv, TypeOK, Ordered, Numbers
  <2>2. InOrder
    BY <2>1 DEF InOrder, Rising, BelowQueue
  <2>3. DaemonSurvives
    BY DEF IInv, Queued, DaemonSurvives
  <2>4. QED
    BY <2>2, <2>3 DEF IInv, HubIsSound
<1>2. QED
  BY <1>1, InitIInv, NextIInv, PTL DEF HubSpec

(* A connection that is gone, closed and without a limiter does not get    *)
(* another one (the clean-up at the end of UnregisterClient), unless it    *)
(* ended while its registration was still queued.                          *)
THEOREM LimitersStayGone == HubSpec => LimitersStopGrowing
<1>1. ASSUME IInv, [HubNext]_hubVars, NEW c \in Clients \ early, c \in closed, c \notin limiters
      PROVE  c \notin limiters'
  <2>1. c \notin clients
    BY <1>1 DEF IInv, Queued
  <2>2. ASSUME NEW e PROVE c \notin Addressed(e)
    BY <2>1 DEF Addressed
  <2>3. CASE RunBroadcast
    BY <1>1, <2>2, <2>3 DEF RunBroadcast
  <2>4. CASE ~RunBroadcast
    BY <1>1, <2>4 DEF HubNext, Handler, RegisterClient, Relay, UnregisterClient, DropLimiter, Broadcast, Run,
       RunRegister, RunUnregister, hubVars
  <2> QED
    BY <2>3, <2>4
<1>2. IInv /\ [HubNext]_hubVars
        => [\A c \in Clients \ early :
              (conn[c] = "gone" /\ c \in closed /\ c \notin limiters) => c \notin limiters']_hubVars
  BY <1>1
<1> QED
  BY <1>2, InitIInv, NextIInv, PTL DEF HubSpec, LimitersStopGrowing

-----------------------------------------------------------------------------
(* EventClient, for any set of listeners.                                  *)

ConnectionInv ==
    /\ EventTypeOK
    /\ ClosedWhenUnused
    /\ OneConnection
    /\ StatusAgrees
    /\ WaitsOrStranded

LEMMA InitConnection == EventInit => ConnectionInv
<1> SUFFICES ASSUME EventInit PROVE ConnectionInv
  OBVIOUS
<1>1. breaks \in 0..MaxBreaks
  BY BreaksAssumption, SMT DEF EventInit
<1>2. EventTypeOK
  BY <1>1, Zenon DEF EventInit, EventTypeOK
<1>3. ClosedWhenUnused /\ OneConnection /\ StatusAgrees /\ WaitsOrStranded
  BY Zenon DEF EventInit, ClosedWhenUnused, OneConnection, StatusAgrees, WaitsOrStranded
<1> QED
  BY <1>2, <1>3 DEF ConnectionInv

LEMMA ListenConnection ==
  ASSUME NEW l \in Listeners, ConnectionInv, Listen(l)
  PROVE  ConnectionInv'
<1> USE DEF ConnectionInv, EventTypeOK, ClosedWhenUnused, OneConnection, StatusAgrees, WaitsOrStranded, network
<1>1. listeners' # {} /\ listeners' \subseteq Listeners
  BY DEF Listen
<1>2. CASE listeners = {}
  <2>1. source' = "connecting" /\ status' = "connecting" /\ timer' = FALSE /\ stranded' = FALSE
    BY <1>2 DEF Listen, Create
  <2> QED
    BY <1>1, <2>1 DEF Listen
<1>3. CASE listeners # {}
  BY <1>1, <1>3 DEF Listen
<1> QED
  BY <1>2, <1>3

LEMMA HushConnection ==
  ASSUME NEW l \in Listeners, ConnectionInv, Hush(l)
  PROVE  ConnectionInv'
<1> USE DEF ConnectionInv, EventTypeOK, ClosedWhenUnused, OneConnection, StatusAgrees, WaitsOrStranded, network
<1>1. listeners' \subseteq Listeners /\ timer' = FALSE /\ stranded' \in BOOLEAN
  BY DEF Hush
<1>2. CASE listeners' = {}
  <2>1. source' = "none" /\ status' = "disconnected"
    BY <1>2 DEF Hush
  <2> QED
    BY <1>1, <1>2, <2>1 DEF Hush
<1>3. CASE listeners' # {}
  <2>1. source' = source /\ status' = status /\ stranded' = (timer \/ stranded)
    BY <1>3 DEF Hush
  <2>2. listeners # {}
    BY DEF Hush
  <2> QED
    BY <1>1, <1>3, <2>1, <2>2 DEF Hush
<1> QED
  BY <1>2, <1>3

LEMMA NetworkConnection ==
  ASSUME ConnectionInv, OnOpen \/ OnError \/ Reconnect \/ Down \/ Up
  PROVE  ConnectionInv'
<1> USE DEF ConnectionInv, EventTypeOK, ClosedWhenUnused, OneConnection, StatusAgrees, WaitsOrStranded, network
<1>1. CASE OnOpen
  BY <1>1 DEF OnOpen
<1>2. CASE OnError
  BY <1>2 DEF OnError
<1>3. CASE Reconnect
  <2>1. source' = "connecting" /\ status' = "connecting" /\ timer' = FALSE
    BY <1>3 DEF Reconnect, Create
  <2> QED
    BY <1>3, <2>1 DEF Reconnect
<1>4. CASE Down
  <2>1. breaks' \in 0..MaxBreaks
    BY <1>4, BreaksAssumption, SMT DEF Down
  <2> QED
    BY <1>4, <2>1 DEF Down
<1>5. CASE Up
  BY <1>5 DEF Up
<1> QED
  BY <1>1, <1>2, <1>3, <1>4, <1>5

LEMMA NextConnection == ConnectionInv /\ [EventNext]_eventVars => ConnectionInv'
<1> SUFFICES ASSUME ConnectionInv, [EventNext]_eventVars PROVE ConnectionInv'
  OBVIOUS
<1>1. CASE EventNext
  BY <1>1, ListenConnection, HushConnection, NetworkConnection DEF EventNext
<1>2. CASE UNCHANGED eventVars
  BY <1>2 DEF eventVars, network, ConnectionInv, EventTypeOK, ClosedWhenUnused, OneConnection, StatusAgrees, WaitsOrStranded
<1> QED
  BY <1>1, <1>2

LEMMA Connected == EventSpec => []ConnectionInv
  BY InitConnection, NextConnection, PTL DEF EventSpec

(* However hooks come and go and the network breaks: never two connections,
   none without a listener, no listener without one or a timer but a
   stranded one, and the hooks are told what is (useGlobalSSE.ts).          *)
THEOREM ConnectionStaysSound == EventSpec => []ConnectionIsSound
<1>1. ConnectionInv => ConnectionIsSound
  BY DEF ConnectionInv, ConnectionIsSound
<1> QED
  BY <1>1, Connected, PTL

-----------------------------------------------------------------------------
(* The entry of the cache, for the query that is watched.                  *)
Marking(view) == \A w \in view.writes : w.routed /\ w.now /\ w.told => w.marks

DataIsSeen == ~entry.marked /\ ~overtaken.data /\ entry.data # NoData => entry.data >= owed
AnswerIsNew == entry.fetch = "answered" /\ ~overtaken.fetch => entry.answer >= owed

Tags == {"idle", "sent", "answered"}
EntryTyped ==
    /\ entry \in [data : Int, marked : BOOLEAN, fetch : Tags, answer : Int, tries : Int]
    /\ overtaken \in [data : BOOLEAN, fetch : BOOLEAN]

VersionsTyped == server \in Int /\ owed \in Int /\ owed <= server
MutationIsOurs ==
    /\ mutation = [write |-> mutation.write, stage |-> mutation.stage, tries |-> mutation.tries]
    /\ mutation.stage # "idle" => mutation.write \in watched.writes
    /\ mutation.stage = "applied" => mutation.write.routed

CacheInv ==
    /\ Marking(watched)
    /\ VersionsTyped /\ EntryTyped /\ MutationIsOurs
    /\ DataIsSeen /\ AnswerIsNew

LEMMA SameEntry ==
    ASSUME CacheInv, UNCHANGED cache, owed' = owed, watched' = watched, VersionsTyped', MutationIsOurs'
    PROVE  CacheInv'
BY DEF CacheInv, cache, EntryTyped, DataIsSeen, AnswerIsNew, Marking

LEMMA SentIsSeen ==
    ASSUME NEW e \in [data : Int, marked : BOOLEAN, fetch : Tags, answer : Int, tries : Int]
    PROVE  Sent(e) = [data |-> e.data, marked |-> e.marked, fetch |-> "sent", answer |-> NoData, tries |-> 0]
<1>1. PICK s : s = [e EXCEPT !.fetch = "sent", !.answer = NoData, !.tries = 0]
  OBVIOUS
<1>2. s = [data |-> e.data, marked |-> e.marked, fetch |-> "sent", answer |-> NoData, tries |-> 0]
  BY <1>1
<1> QED
  BY <1>1, <1>2 DEF Sent

(* A mark: what is owed may grow to what the daemon has by now.            *)
LEMMA MarkIsSeen ==
    ASSUME CacheInv, NEW f, Mark(f)
    PROVE  /\ EntryTyped'
           /\ entry'.marked = TRUE
           /\ entry'.fetch = "answered" => overtaken'.fetch = TRUE
<1>1. entry \in [data : Int, marked : BOOLEAN, fetch : Tags, answer : Int, tries : Int]
      /\ overtaken \in [data : BOOLEAN, fetch : BOOLEAN]
  BY DEF CacheInv, EntryTyped
<1>2. PICK m \in [data : Int, marked : BOOLEAN, fetch : Tags, answer : Int, tries : Int] :
        m = [entry EXCEPT !.marked = TRUE] /\ m.marked = TRUE /\ m.fetch = entry.fetch
  <2>1. PICK m : m = [entry EXCEPT !.marked = TRUE]
    OBVIOUS
  <2>2. m.marked = TRUE /\ m.fetch = entry.fetch
    BY <1>1, <2>1
  <2>3. m \in [data : Int, marked : BOOLEAN, fetch : Tags, answer : Int, tries : Int]
    BY <1>1, <2>1
  <2> QED
    BY <2>1, <2>2, <2>3
<1>3. CASE f /\ mounted /\ (entry.fetch = "idle" \/ entry.data # NoData)
  <2>1. entry' = Sent(m) /\ overtaken' = [overtaken EXCEPT !.fetch = FALSE]
    BY <1>2, <1>3 DEF Mark, Fetch
  <2>2. entry' = [data |-> m.data, marked |-> m.marked, fetch |-> "sent", answer |-> NoData, tries |-> 0]
    BY <2>1, SentIsSeen
  <2>3. overtaken' \in [data : BOOLEAN, fetch : BOOLEAN]
    BY <1>1, <2>1
  <2> QED
    BY <1>2, <2>2, <2>3 DEF EntryTyped, Tags, NoData
<1>4. CASE ~(f /\ mounted /\ (entry.fetch = "idle" \/ entry.data # NoData))
  <2>1. entry' = m /\ overtaken' = [overtaken EXCEPT !.fetch = entry.fetch # "idle"]
    BY <1>2, <1>4 DEF Mark
  <2>2. overtaken' \in [data : BOOLEAN, fetch : BOOLEAN] /\ overtaken'.fetch = (entry.fetch # "idle")
    BY <1>1, <2>1
  <2> QED
    BY <1>2, <2>1, <2>2 DEF EntryTyped
<1> QED
  BY <1>3, <1>4

LEMMA MarkKeeps ==
    ASSUME CacheInv, NEW f, Mark(f), watched' = watched, VersionsTyped', MutationIsOurs'
    PROVE  CacheInv'
BY MarkIsSeen DEF CacheInv, DataIsSeen, AnswerIsNew, Marking

LEMMA ServeStep == ASSUME CacheInv, Serve PROVE CacheInv'
<1>1. entry' = [entry EXCEPT !.fetch = "answered", !.answer = server] /\ UNCHANGED <<watched, server, mutation, owed, overtaken>>
  BY DEF Serve, page, daemon
<1>2. server \in Int /\ server >= owed
  BY DEF CacheInv, VersionsTyped
<1>3. entry' \in [data : Int, marked : BOOLEAN, fetch : Tags, answer : Int, tries : Int]
      /\ entry'.data = entry.data /\ entry'.marked = entry.marked /\ entry'.answer = server
  BY <1>1, <1>2 DEF CacheInv, EntryTyped, Tags
<1> QED
  BY <1>1, <1>2, <1>3 DEF CacheInv, VersionsTyped, EntryTyped, MutationIsOurs, DataIsSeen, AnswerIsNew

LEMMA ReceiveStep == ASSUME CacheInv, Receive PROVE CacheInv'
<1>1. entry' = [data |-> entry.answer, marked |-> FALSE, fetch |-> "idle", answer |-> NoData, tries |-> 0]
      /\ overtaken' = [data |-> overtaken.fetch, fetch |-> FALSE] /\ entry.fetch = "answered"
      /\ UNCHANGED <<watched, server, mutation, owed>>
  BY DEF Receive, page, daemon
<1>2. EntryTyped'
  BY <1>1 DEF CacheInv, EntryTyped, Tags, NoData
<1>3. DataIsSeen'
  BY <1>1 DEF CacheInv, AnswerIsNew, DataIsSeen
<1> QED
  BY <1>1, <1>2, <1>3 DEF CacheInv, VersionsTyped, MutationIsOurs, AnswerIsNew

LEMMA FetchStep ==
    ASSUME CacheInv, entry' \in [data : Int, marked : BOOLEAN, fetch : Tags, answer : Int, tries : Int],
           entry'.data = entry.data, entry'.marked = entry.marked, entry'.fetch # "answered",
           overtaken' \in [data : BOOLEAN, fetch : BOOLEAN], overtaken'.data = overtaken.data,
           UNCHANGED <<watched, server, mutation, owed>>
    PROVE  CacheInv'
BY DEF CacheInv, VersionsTyped, EntryTyped, MutationIsOurs, DataIsSeen, AnswerIsNew

LEMMA FetchKeeps == ASSUME CacheInv, Fetch(entry), UNCHANGED <<watched, server, mutation, owed>> PROVE CacheInv'
<1>1. entry' = [data |-> entry.data, marked |-> entry.marked, fetch |-> "sent", answer |-> NoData, tries |-> 0]
  BY SentIsSeen DEF Fetch, CacheInv, EntryTyped
<1>2. overtaken' \in [data : BOOLEAN, fetch : BOOLEAN] /\ overtaken'.data = overtaken.data
  BY DEF Fetch, CacheInv, EntryTyped
<1>3. entry.data \in Int /\ entry.marked \in BOOLEAN
  BY DEF CacheInv, EntryTyped
<1>4. entry' \in [data : Int, marked : BOOLEAN, fetch : Tags, answer : Int, tries : Int]
      /\ entry'.data = entry.data /\ entry'.marked = entry.marked /\ entry'.fetch # "answered"
  BY <1>1, <1>3 DEF NoData, Tags
<1> QED
  BY <1>2, <1>4, FetchStep

LEMMA FailsStep == ASSUME CacheInv, FetchFails PROVE CacheInv'
<1>1. UNCHANGED <<watched, server, mutation, owed, overtaken>> /\ Fails
  BY DEF FetchFails, page, daemon
<1>2. entry.data \in Int /\ entry.marked \in BOOLEAN /\ entry.tries \in Int /\ entry.fetch \in Tags
      /\ entry \in [data : Int, marked : BOOLEAN, fetch : Tags, answer : Int, tries : Int]
  BY DEF CacheInv, EntryTyped
<1>3. overtaken' \in [data : BOOLEAN, fetch : BOOLEAN] /\ overtaken'.data = overtaken.data
  BY <1>1 DEF CacheInv, EntryTyped
<1>4. entry' \in [data : Int, marked : BOOLEAN, fetch : Tags, answer : Int, tries : Int]
      /\ entry'.data = entry.data /\ entry'.marked = entry.marked /\ entry'.fetch # "answered"
  <2>1. CASE mounted /\ entry.tries < watched.retries
    <3>1. PICK s : s = [data |-> entry.data, marked |-> entry.marked, fetch |-> "sent", answer |-> NoData, tries |-> 0]
      OBVIOUS
    <3>2. entry' = [s EXCEPT !.tries = entry.tries + 1]
      BY <1>1, <1>2, <2>1, <3>1, SentIsSeen DEF Fails
    <3>3. entry' = [data |-> entry.data, marked |-> entry.marked, fetch |-> "sent", answer |-> NoData,
                    tries |-> entry.tries + 1]
      BY <3>1, <3>2
    <3> QED
      BY <1>2, <3>3 DEF NoData, Tags
  <2>2. CASE ~(mounted /\ entry.tries < watched.retries)
    <3>1. entry' = [entry EXCEPT !.fetch = "idle", !.answer = NoData, !.tries = 0]
      BY <1>1, <2>2 DEF Fails
    <3>2. entry' = [data |-> entry.data, marked |-> entry.marked, fetch |-> "idle", answer |-> NoData, tries |-> 0]
      BY <1>2, <3>1
    <3> QED
      BY <1>2, <3>2 DEF NoData, Tags
  <2> QED
    BY <2>1, <2>2
<1> QED
  BY <1>1, <1>3, <1>4, FetchStep

LEMMA OpenStep == ASSUME CacheInv, Open PROVE CacheInv'
<1>1. UNCHANGED <<watched, server, mutation, owed>> /\ (Fetch(entry) \/ UNCHANGED cache)
  BY DEF Open, page, daemon
<1>2. VersionsTyped' /\ MutationIsOurs'
  BY <1>1 DEF CacheInv, VersionsTyped, MutationIsOurs
<1> QED
  BY <1>1, <1>2, FetchKeeps, SameEntry

(* Steps that leave the entry alone.                                       *)
LEMMA DaemonSteps ==
    ASSUME CacheInv, UNCHANGED cache, UNCHANGED <<watched, owed, mutation>>, server' = server \/ server' = server + 1
    PROVE  CacheInv'
<1>1. VersionsTyped' /\ MutationIsOurs'
  BY DEF CacheInv, VersionsTyped, MutationIsOurs
<1> QED
  BY <1>1, SameEntry

LEMMA MutateStep == ASSUME CacheInv, NEW w \in watched.writes, Mutate(w) PROVE CacheInv'
<1>1. UNCHANGED cache /\ UNCHANGED <<watched, owed, server>> /\ mutation' = [write |-> w, stage |-> "sent", tries |-> 0]
  BY DEF Mutate, page, daemon
<1>2. VersionsTyped' /\ MutationIsOurs'
  BY <1>1 DEF CacheInv, VersionsTyped, MutationIsOurs
<1> QED
  BY <1>1, <1>2, SameEntry

LEMMA ApplyStep == ASSUME CacheInv, Apply PROVE CacheInv'
<1>1. UNCHANGED cache /\ UNCHANGED <<watched, owed>> /\ mutation' = [mutation EXCEPT !.stage = "applied"]
      /\ mutation.stage = "sent" /\ mutation.write.routed /\ (server' = server \/ server' = server + 1)
  BY DEF Apply, page
<1>2. VersionsTyped' /\ MutationIsOurs'
  BY <1>1 DEF CacheInv, VersionsTyped, MutationIsOurs
<1> QED
  BY <1>1, <1>2, SameEntry

LEMMA SucceedStep == ASSUME CacheInv, Succeed PROVE CacheInv'
<1>1. mutation.stage = "applied" /\ mutation' = Resting /\ UNCHANGED <<watched, server>>
      /\ owed' = (IF mutation.write.now /\ mutation.write.told THEN server ELSE owed)
  BY DEF Succeed, page, daemon
<1>2. VersionsTyped'
  BY <1>1 DEF CacheInv, VersionsTyped
<1>3. MutationIsOurs'
  BY <1>1 DEF MutationIsOurs, Resting
<1>4. CASE mutation.write.marks
  <2>1. PICK f : Mark(f)
    <3>1. Mark(watched.auto \/ watched.key[1] = "dnsmasq")
      BY <1>4 DEF Succeed
    <3> QED
      BY <3>1
  <2> QED
    BY <1>1, <1>2, <1>3, <2>1, MarkKeeps
<1>5. CASE ~mutation.write.marks
  <2>1. owed' = owed
    BY <1>1, <1>5 DEF CacheInv, Marking, MutationIsOurs
  <2>2. UNCHANGED cache
    BY <1>5 DEF Succeed
  <2> QED
    BY <1>1, <1>2, <1>3, <2>1, <2>2, SameEntry
<1> QED
  BY <1>4, <1>5

LEMMA ErrStep == ASSUME CacheInv, Err PROVE CacheInv'
<1>1. mutation.stage # "idle" /\ UNCHANGED <<watched, server, owed>>
  BY DEF Err, page, daemon
<1>2. VersionsTyped'
  BY <1>1 DEF CacheInv, VersionsTyped
<1>3. mutation' = [mutation EXCEPT !.stage = "sent", !.tries = @ + 1] \/ mutation' = Resting
  BY DEF Err
<1>4. MutationIsOurs'
  <2>1. CASE mutation' = Resting
    BY <2>1 DEF MutationIsOurs, Resting
  <2>2. CASE mutation' = [mutation EXCEPT !.stage = "sent", !.tries = @ + 1]
    <3>1. mutation' = [write |-> mutation.write, stage |-> "sent", tries |-> mutation.tries + 1]
      BY <2>2 DEF CacheInv, MutationIsOurs
    <3> QED
      BY <1>1, <3>1 DEF CacheInv, MutationIsOurs
  <2> QED
    BY <1>3, <2>1, <2>2
<1>5. UNCHANGED cache \/ \E f : Mark(f)
  <2>1. UNCHANGED cache \/ Mark(watched.auto)
    BY DEF Err
  <2> QED
    BY <2>1
<1> QED
  BY <1>1, <1>2, <1>4, <1>5, SameEntry, MarkKeeps

(* Each promise of an event is kept by what the event invalidates.         *)
LEMMA PromisesMark ==
    ASSUME NEW type, NEW key, <<type, key>> \in EventPromises
    PROVE  IsMarkedBy(key, EventInvalidates(type))
<1>1. ASSUME type \in {"dnsmasq:restart", "dnsmasq:config"}, key \in {<<"dnsmasq", "status">>, <<"dnsmasq", "config">>}
      PROVE  IsMarkedBy(key, EventInvalidates(type))
  <2>1. EventInvalidates(type) = {<<"dnsmasq">>}
    BY <1>1 DEF EventInvalidates, OperationEvents, PodEvents, DeploymentEvents, ServiceEvents
  <2>2. IsPrefix(<<"dnsmasq">>, key)
    BY <1>1 DEF IsPrefix
  <2> QED
    BY <2>1, <2>2 DEF IsMarkedBy
<1>2. ASSUME type = "central:status", key = <<"central", "status">> PROVE IsMarkedBy(key, EventInvalidates(type))
  <2>1. EventInvalidates(type) = {<<"central", "status">>}
    BY <1>2 DEF EventInvalidates, OperationEvents, PodEvents, DeploymentEvents, ServiceEvents
  <2>2. IsPrefix(<<"central", "status">>, key)
    BY <1>2 DEF IsPrefix
  <2> QED
    BY <2>1, <2>2 DEF IsMarkedBy
<1>3. ASSUME type = "operation:completed", key = SetupKey PROVE IsMarkedBy(key, EventInvalidates(type))
  <2>1. SetupKey \in EventInvalidates(type)
    BY <1>3 DEF EventInvalidates, OperationEvents, PodEvents, DeploymentEvents, ServiceEvents
  <2>2. IsPrefix(SetupKey, SetupKey)
    BY DEF IsPrefix, SetupKey, Here
  <2> QED
    BY <1>3, <2>1, <2>2 DEF IsMarkedBy
<1> QED
  BY <1>1, <1>2, <1>3 DEF EventPromises

LEMMA DeliverStep == ASSUME CacheInv, NEW type, Deliver(type) PROVE CacheInv'
<1>1. UNCHANGED <<watched, server, mutation>>
  BY DEF Deliver, page, daemon
<1>2. owed' = owed \/ owed' = server
  BY DEF Deliver
<1>3. VersionsTyped' /\ MutationIsOurs'
  BY <1>1, <1>2 DEF CacheInv, VersionsTyped, MutationIsOurs
<1>4. CASE mounted /\ IsMarkedBy(watched.key, EventInvalidates(type))
  <2>1. PICK f : Mark(f)
    <3>1. Mark(watched.auto)
      BY <1>4 DEF Deliver
    <3> QED
      BY <3>1
  <2> QED
    BY <1>1, <1>3, <2>1, MarkKeeps
<1>5. CASE ~(mounted /\ IsMarkedBy(watched.key, EventInvalidates(type)))
  <2>1. UNCHANGED cache
    BY <1>5 DEF Deliver
  <2>2. owed' = owed
    BY <1>5, PromisesMark DEF Deliver
  <2> QED
    BY <1>1, <1>3, <2>1, <2>2, SameEntry
<1> QED
  BY <1>4, <1>5

LEMMA CacheStep == CacheInv /\ [Next]_vars => CacheInv'
<1> SUFFICES ASSUME CacheInv, [Next]_vars PROVE CacheInv'
  OBVIOUS
<1>1. CASE Refetch
  BY <1>1, FetchKeeps DEF Refetch, page, daemon
<1>2. CASE Leave \/ Connection \/ (\E r \in watched.shows : OthersChange(r)) \/ Tick \/ (\E job \in jobs : JobEnds(job))
  <2>1. UNCHANGED cache /\ UNCHANGED <<watched, owed, mutation>> /\ (server' = server \/ server' = server + 1)
    BY <1>2 DEF Leave, Connection, OthersChange, Tick, JobEnds, page, daemon
  <2> QED
    BY <2>1, DaemonSteps
<1>3. CASE UNCHANGED vars
  BY <1>3, DaemonSteps DEF vars, page, daemon
<1>4. CASE Serve \/ Receive \/ FetchFails \/ Open
  BY <1>4, ServeStep, ReceiveStep, FailsStep, OpenStep
<1>5. CASE Apply \/ Succeed \/ Err \/ \E w \in watched.writes : Mutate(w)
  BY <1>5, ApplyStep, SucceedStep, ErrStep, MutateStep
<1>6. CASE \E type \in wire : Deliver(type)
  BY <1>6, DeliverStep
<1> QED
  BY <1>1, <1>2, <1>3, <1>4, <1>5, <1>6 DEF Next

-----------------------------------------------------------------------------
(* The tables of WebHooks.  A part of the daemon's state that a mutation   *)
(* has changed is one its hook is known to change, and the key prefix that *)
(* goes with that part is among those the mutation marks.                  *)
Marks(m) == m.inv \cup m.always

Written(r, m) ==
    \/ r = "nodes" /\ m \in UseNodes.mutations /\ Here(<<"nodes">>) \in Marks(m)
    \/ r = "discovery" /\ Here(<<"discovery">>) \in Marks(m)
    \/ r \in Document /\ m \in UseInstanceConfig.mutations /\ ConfigKey \in Marks(m)
    \/ r \in Document /\ m \in UseConfigYaml.mutations /\ <<"instance", "i", "config">> \in Marks(m)
    \/ r = "global" /\ <<"globalConfig">> \in Marks(m)
    \/ r = "instances" /\ m \in UseInstances.mutations /\ <<"instances">> \in Marks(m)
    \/ r = "secrets" /\ Here(<<"secrets">>) \in Marks(m)
    \/ r = "config" /\ m \in UseServiceConfig.mutations /\ Here(<<"services">>) \in Marks(m)
    \/ r = "services" /\ Here(<<"services">>) \in Marks(m)
    \/ r = "apps" /\ Here(<<"apps">>) \in Marks(m)
    \/ r \in {"appConfig", "secrets"} /\ m \in UseDeployedApps.mutations /\ Here(<<"apps">>) \in Marks(m)
    \/ r = "talosconfig" /\ m \in UseCluster.mutations
    \/ /\ r = "kubeconfig" /\ m \in UseCluster.mutations
       /\ m.call = ClusterApi.configureEndpoints \/ Here(<<"cluster", "kubeconfig">>) \in Marks(m)
    \/ r = "kubeconfig" /\ m \in UseRegenerateKubeconfig.mutations /\ Here(<<"kubeconfig">>) \in Marks(m)
    \/ r = "operations" /\ \E h \in {UseDeployedApps, UseAppBackupsOfApps, UseAppBackups, UseServices, UseCluster} :
                             m \in h.mutations
    \/ r = "operations" /\ m \in UseInstallService.mutations /\ OperationsKey \in Marks(m)
    \/ r = "operations" /\ m \in UseCancelOperation.mutations /\ <<"operations", "i">> \in Marks(m)
    \/ r = "backups" /\ {AppBackupKey, Here(<<"all-backups">>)} \subseteq Marks(m)
    \/ r = "schedules" /\ ScheduleKey \in Marks(m)
    \/ r = "dnsmasq" /\ <<"dnsmasq", "status">> \in Marks(m)
    \/ r = "dnsmasqConfig" /\ <<"dnsmasq", "config">> \in Marks(m)
    \/ r = "assets" /\ m \in UseDownloadAsset.mutations \cup UseDeleteAsset.mutations /\ <<"assets">> \in Marks(m)
    \/ r = "kubernetesSecrets"

WritesFit(h) == \A m \in h.mutations : Routed(m.call) => \A r \in m.now : Written(r, m)

(* Three mutations would mark too little of what they change: no route     *)
(* takes their calls.                                                      *)
LEMMA NotRouted ==
    \A call \in {ApiService.downloadPXEAssets, PxeApi.deleteAsset, BackupsApi.verifyBackup} : ~Routed(call)
<1> DEFINE Unfit(route) ==
      /\ route[1] # "POST" \/ Len(route[2]) # 2 \/ route[2][1] \notin {"pxe", Var}
      /\ route[1] # "DELETE" \/ Len(route[2]) # 5
      /\ route[1] # "POST" \/ Len(route[2]) # 7 \/ route[2][7] # Var
<1>1. \A route \in InstanceRoutes : Unfit(route)
  BY DEF InstanceRoutes, Get, Post, Put, Patch, Delete, In, Var, Operation
<1>2. \A route \in NodeRoutes : Unfit(route)
  BY DEF NodeRoutes, Get, Post, Put, Patch, Delete, In, Var
<1>3. \A route \in AssetRoutes : Unfit(route)
  BY DEF AssetRoutes, Get, Post, Put, Patch, Delete, In, Var, Asset
<1>4. \A route \in ClusterRoutes : Unfit(route)
  BY DEF ClusterRoutes, Get, Post, Put, Patch, Delete, In, Var
<1>5. \A route \in ServiceRoutes : Unfit(route)
  BY DEF ServiceRoutes, Get, Post, Put, Patch, Delete, In, Var, Service
<1>6. \A route \in AppRoutes : Unfit(route)
  BY DEF AppRoutes, Get, Post, Put, Patch, Delete, In, Var, App
<1>7. \A route \in BackupRoutes : Unfit(route)
  BY DEF BackupRoutes, Get, Post, Put, Patch, Delete, In, Var, App
<1>8. \A route \in GlobalRoutes : Unfit(route)
  BY DEF GlobalRoutes, Get, Post, Put, Patch, Delete, In, Var
<1>9. \A route \in Routes : Unfit(route)
  BY <1>1, <1>2, <1>3, <1>4, <1>5, <1>6, <1>7, <1>8 DEF Routes
<1>10. ApiService.downloadPXEAssets = <<"POST", <<"pxe", "assets">>>>
  BY DEF ApiService, Post
<1>11. PxeApi.deleteAsset = <<"DELETE", <<"instances", Var, "pxe", "assets", Var>>>>
  BY DEF PxeApi, Delete, In
<1>12. BackupsApi.verifyBackup = <<"POST", <<"instances", Var, "apps", Var, "backup", "verify", Var>>>>
  BY DEF BackupsApi, Post, App, In
<1>13. \A route : Unfit(route) => ~Takes(route, <<"POST", <<"pxe", "assets">>>>)
  BY DEF Takes
<1>14. \A route : Unfit(route) => ~Takes(route, <<"DELETE", <<"instances", Var, "pxe", "assets", Var>>>>)
  BY DEF Takes
<1>15. \A route : Unfit(route) =>
          ~Takes(route, <<"POST", <<"instances", Var, "apps", Var, "backup", "verify", Var>>>>)
  BY DEF Takes
<1> HIDE DEF Unfit
<1> QED
  BY <1>9, <1>10, <1>11, <1>12, <1>13, <1>14, <1>15 DEF Routed

LEMMA NodesWrite == \A h \in {UseNodes, UseCluster, UseRegenerateKubeconfig} : WritesFit(h)
<1> USE DEF WritesFit, Written, Marks, Hook, Write, Starts
<1>1. WritesFit(UseNodes)
  BY DEF UseNodes
<1>2. WritesFit(UseCluster)
  BY DEF UseCluster
<1>3. WritesFit(UseRegenerateKubeconfig)
  BY DEF UseRegenerateKubeconfig
<1> HIDE DEF WritesFit
<1> QED
  BY <1>1, <1>2, <1>3

LEMMA ConfigWrites ==
    \A h \in {UseInstances, UseInstanceConfig, UseConfigYaml, UseConfig, UseUpdateSecrets, UseCopySecret} : WritesFit(h)
<1> USE DEF WritesFit, Written, Marks, Hook, Write, Document, ConfigKey
<1>1. WritesFit(UseInstances)
  BY DEF UseInstances
<1>2. WritesFit(UseInstanceConfig)
  BY DEF UseInstanceConfig
<1>3. WritesFit(UseConfigYaml)
  BY DEF UseConfigYaml
<1>4. WritesFit(UseConfig)
  BY DEF UseConfig
<1>5. WritesFit(UseUpdateSecrets)
  BY DEF UseUpdateSecrets
<1>6. WritesFit(UseCopySecret)
  BY DEF UseCopySecret
<1> HIDE DEF WritesFit
<1> QED
  BY <1>1, <1>2, <1>3, <1>4, <1>5, <1>6

LEMMA AppsWrite ==
    \A h \in {UseDeployedApps, UseAppBackupsOfApps, UseAppBackups, UseBackupVerification, UseDeleteAppBackup} :
        WritesFit(h)
<1> USE DEF WritesFit, Written, Marks, Hook, Write, Starts
<1>1. WritesFit(UseDeployedApps)
  BY DEF UseDeployedApps
<1>2. WritesFit(UseAppBackupsOfApps)
  BY DEF UseAppBackupsOfApps
<1>3. WritesFit(UseAppBackups)
  BY DEF UseAppBackups
<1>4. WritesFit(UseBackupVerification)
  <2>1. \A m \in UseBackupVerification.mutations : m.call = BackupsApi.verifyBackup
    BY DEF UseBackupVerification
  <2> QED
    BY <2>1, NotRouted DEF WritesFit
<1>5. WritesFit(UseDeleteAppBackup)
  BY DEF UseDeleteAppBackup
<1> HIDE DEF WritesFit
<1> QED
  BY <1>1, <1>2, <1>3, <1>4, <1>5

LEMMA ServicesWrite ==
    \A h \in {UseServices, UseServiceConfig, UseInstallService, UseCancelOperation, UseDnsmasq} : WritesFit(h)
<1> USE DEF WritesFit, Written, Marks, Hook, Write, Starts, Settling
<1>1. WritesFit(UseServices)
  BY DEF UseServices
<1>2. WritesFit(UseServiceConfig)
  <2>1. \A m \in UseServiceConfig.mutations : m.now = {"services", "config"} /\ Here(<<"services">>) \in Marks(m)
    BY DEF UseServiceConfig
  <2> HIDE DEF Marks
  <2> QED
    BY <2>1
<1>3. WritesFit(UseInstallService)
  BY DEF UseInstallService, OperationsKey
<1>4. WritesFit(UseCancelOperation)
  BY DEF UseCancelOperation
<1>5. WritesFit(UseDnsmasq)
  BY DEF UseDnsmasq
<1> HIDE DEF WritesFit
<1> QED
  BY <1>1, <1>2, <1>3, <1>4, <1>5

LEMMA AssetsWrite ==
    \A h \in {UseDownloadAsset, UseDeleteAsset, UseDownloadPxeAsset, UseDeletePxeAsset, UseAssets, UseHealth} :
        WritesFit(h)
<1> USE DEF WritesFit, Written, Marks, Hook, Write
<1>1. WritesFit(UseDownloadAsset)
  BY DEF UseDownloadAsset
<1>2. WritesFit(UseDeleteAsset)
  BY DEF UseDeleteAsset
<1>3. WritesFit(UseDownloadPxeAsset)
  BY DEF UseDownloadPxeAsset
<1>4. WritesFit(UseDeletePxeAsset)
  <2>1. \A m \in UseDeletePxeAsset.mutations : m.call = PxeApi.deleteAsset
    BY DEF UseDeletePxeAsset
  <2> QED
    BY <2>1, NotRouted DEF WritesFit
<1>5. WritesFit(UseAssets)
  <2>1. \A m \in UseAssets.mutations : m.call = ApiService.downloadPXEAssets
    BY DEF UseAssets
  <2> QED
    BY <2>1, NotRouted DEF WritesFit
<1>6. WritesFit(UseHealth)
  BY DEF UseHealth
<1> HIDE DEF WritesFit
<1> QED
  BY <1>1, <1>2, <1>3, <1>4, <1>5, <1>6

LEMMA SchedulesWrite ==
    \A h \in {UseCreateSchedule, UseUpdateSchedule, UseDeleteSchedule, UseRunSchedule, UseToggleSchedule} : WritesFit(h)
<1> USE DEF WritesFit, Written, Marks, Hook, Write
<1>1. WritesFit(UseCreateSchedule) /\ WritesFit(UseUpdateSchedule)
  BY DEF UseCreateSchedule, UseUpdateSchedule
<1>2. WritesFit(UseDeleteSchedule) /\ WritesFit(UseRunSchedule)
  BY DEF UseDeleteSchedule, UseRunSchedule
<1>3. WritesFit(UseToggleSchedule)
  BY DEF UseToggleSchedule
<1> HIDE DEF WritesFit
<1> QED
  BY <1>1, <1>2, <1>3

(* Every mutation of every screen is one of these hooks'.                  *)
Writers == {
    UseNodes, UseCluster, UseRegenerateKubeconfig, UseInstances, UseInstanceConfig, UseConfigYaml, UseConfig,
    UseUpdateSecrets, UseCopySecret, UseDeployedApps, UseAppBackupsOfApps, UseAppBackups, UseBackupVerification,
    UseDeleteAppBackup, UseServices, UseServiceConfig, UseInstallService, UseCancelOperation, UseDnsmasq,
    UseDownloadAsset, UseDeleteAsset, UseDownloadPxeAsset, UseDeletePxeAsset, UseAssets, UseHealth,
    UseCreateSchedule, UseUpdateSchedule, UseDeleteSchedule, UseRunSchedule, UseToggleSchedule}

Readers == {
    UseDiscoveryStatus, UseNodeHardware, UseSetupStatus, UseClusterHealth, UseClusterStatus, UseClusterNodes,
    UseKubeconfig, UseTalosconfig, UseInstance, UseSecrets, UseInstanceCard, UseInstanceOperations,
    UseInstanceClusterHealth, UseAvailableApps, UseAvailableApp, UseAppStatuses, UseAppEnhanced, UseAppRuntime,
    UseAppLogs, UseAppEvents, UseAppReadme, UseServiceStatus, UseServiceManifest, UseService, UseBaseServices,
    UseBaseServiceStatus, UseOperations, UseOperationList, UseAllBackups, UseBackupDiscovery, UseScheduleHistory,
    UseCentralStatus, UseStatus, UseAssetList, UseAsset, UseAssetStatus, UsePxeAssets, UsePxeAsset,
    UseDashboardToken, UseClusterVersions, UseNodeIPs, UseControlPlaneIP}

LEMMA ReadersWriteNothing == \A h \in Readers : h.mutations = {}
BY DEF Readers, Hook, UseDiscoveryStatus, UseNodeHardware, UseSetupStatus, UseClusterHealth, UseClusterStatus,
    UseClusterNodes, UseKubeconfig, UseTalosconfig, UseInstance, UseSecrets, UseInstanceCard, UseInstanceOperations,
    UseInstanceClusterHealth, UseAvailableApps, UseAvailableApp, UseAppStatuses, UseAppEnhanced, UseAppRuntime,
    UseAppLogs, UseAppEvents, UseAppReadme, UseServiceStatus, UseServiceManifest, UseService, UseBaseServices,
    UseBaseServiceStatus, UseOperations, UseOperationList, UseAllBackups, UseBackupDiscovery, UseScheduleHistory,
    UseCentralStatus, UseStatus, UseAssetList, UseAsset, UseAssetStatus, UsePxeAssets, UsePxeAsset,
    UseDashboardToken, UseClusterVersions, UseNodeIPs, UseControlPlaneIP

LEMMA HooksKnown == \A s \in DOMAIN Screens \cup {"unused"} : HooksOf(s) \subseteq Readers \cup Writers
<1>1. Unused \subseteq Readers \cup Writers
  BY DEF Unused, Readers, Writers
<1>2. \A s \in DOMAIN Screens : Screens[s] \subseteq Readers \cup Writers
  BY DEF Screens, Readers, Writers
<1> QED
  BY <1>1, <1>2 DEF HooksOf

LEMMA AllWritten == \A m \in AllMutations : Routed(m.call) => \A r \in m.now : Written(r, m)
<1>1. \A h \in Writers : WritesFit(h)
  BY NodesWrite, ConfigWrites, AppsWrite, ServicesWrite, AssetsWrite, SchedulesWrite DEF Writers
<1>2. AllMutations \subseteq By(Writers)
  <2>1. \A s \in DOMAIN Screens \cup {"unused"} : MutationsOf(s) \subseteq By(Writers)
    BY HooksKnown, ReadersWriteNothing DEF MutationsOf, By
  <2> QED
    BY <2>1 DEF AllMutations
<1> QED
  BY <1>1, <1>2 DEF By, WritesFit

(* What is marked, and what is passed by.                                  *)
Settled(m, key) == <<m, key>> \in PassedBy \/ IsMarkedBy(key, Marks(m))
Kept(q) == \A m \in AllMutations, r \in q.shows : Written(r, m) => Settled(m, q.key)
ReadsFit(h) == \A q \in h.queries : Kept(q)

LEMMA MarkedSettles == ASSUME NEW m, NEW key, NEW p \in Marks(m), IsPrefix(p, key) PROVE Settled(m, key)
BY DEF Settled, IsMarkedBy

LEMMA NodesPrefix ==
    /\ \A key \in {Here(<<"nodes">>), Here(<<"nodes", "hardware", "ip">>)} : IsPrefix(Here(<<"nodes">>), key)
    /\ IsPrefix(Here(<<"discovery">>), Here(<<"discovery">>))
    /\ IsPrefix(Here(<<"cluster", "kubeconfig">>), Here(<<"cluster", "kubeconfig">>))
    /\ IsPrefix(Here(<<"kubeconfig">>), Here(<<"kubeconfig">>))
BY DEF IsPrefix, Here

LEMMA ConfigPrefix ==
    /\ IsPrefix(ConfigKey, ConfigKey)
    /\ IsPrefix(<<"instance", "i", "config">>, YamlKey)
    /\ IsPrefix(<<"globalConfig">>, <<"globalConfig">>)
    /\ IsPrefix(<<"instances">>, <<"instances">>)
    /\ \A form \in {"raw", "masked"} : IsPrefix(Here(<<"secrets">>), Here(<<"secrets", form>>))
BY DEF IsPrefix, Here, ConfigKey, YamlKey

LEMMA AppsPrefix ==
    /\ IsPrefix(Here(<<"apps">>), Here(<<"apps">>))
    /\ \A part \in {"status", "enhanced", "runtime", "readme"} : IsPrefix(Here(<<"apps">>), Here(<<"apps", "app", part>>))
    /\ IsPrefix(AppBackupKey, AppBackupKey)
    /\ IsPrefix(Here(<<"all-backups">>), Here(<<"all-backups", "apps">>))
    /\ IsPrefix(ScheduleKey, ScheduleKey \o <<"id", "history">>)
BY DEF IsPrefix, Here, AppBackupKey, ScheduleKey

LEMMA ServicesPrefix ==
    /\ IsPrefix(Here(<<"services">>), Here(<<"services">>))
    /\ IsPrefix(Here(<<"services">>), Here(<<"services", "svc">>))
    /\ \A part \in {"status", "config"} : IsPrefix(Here(<<"services">>), Here(<<"services", "svc", part>>))
    /\ IsPrefix(OperationsKey, OperationsKey)
    /\ IsPrefix(<<"operations", "i">>, ListKey)
BY DEF IsPrefix, Here, OperationsKey, ListKey

LEMMA AssetsPrefix ==
    /\ IsPrefix(<<"dnsmasq", "status">>, <<"dnsmasq", "status">>)
    /\ IsPrefix(<<"dnsmasq", "config">>, <<"dnsmasq", "config">>)
    /\ IsPrefix(<<"assets">>, <<"assets">>)
    /\ IsPrefix(<<"assets">>, <<"assets", "s", "v">>)
    /\ IsPrefix(<<"assets">>, <<"assets", "s", "v", "status">>)
BY DEF IsPrefix

LEMMA PassedLines ==
    /\ (AllMutations \X {SetupKey}) \subseteq PassedBy
    /\ (By({UseNodes, UseDeployedApps, UseServiceConfig}) \X ({ConfigKey, YamlKey} \cup Instance)) \subseteq PassedBy
    /\ (By({UseInstanceConfig}) \X ({YamlKey} \cup Instance \cup ConfigUsers)) \subseteq PassedBy
    /\ (By({UseConfigYaml}) \X ({ConfigKey} \cup Instance \cup ConfigUsers)) \subseteq PassedBy
    /\ (By({UseNodes}) \X {<<"cluster-nodes", "i">>}) \subseteq PassedBy
    /\ (By({UseDeployedApps}) \X {Here(<<"secrets", "raw">>), Here(<<"secrets", "masked">>)}) \subseteq PassedBy
    /\ (By({UseCluster}) \X {Here(<<"kubeconfig">>), Here(<<"talosconfig">>), Here(<<"cluster", "talosconfig">>)})
          \subseteq PassedBy
    /\ ({m \in By({UseCluster}) : m.call = ClusterApi.configureEndpoints} \X {Here(<<"cluster", "kubeconfig">>)})
          \subseteq PassedBy
    /\ (By({UseRegenerateKubeconfig}) \X {Here(<<"cluster", "kubeconfig">>)}) \subseteq PassedBy
    /\ (By({UseDeployedApps, UseAppBackupsOfApps, UseAppBackups, UseServices, UseCluster})
            \X {DashboardKey, ListKey, OperationsKey}) \subseteq PassedBy
    /\ (By({UseInstallService}) \X {DashboardKey, ListKey}) \subseteq PassedBy
    /\ (By({UseCancelOperation}) \X {DashboardKey, OperationsKey}) \subseteq PassedBy
    /\ (By({UseInstances}) \X {<<"central", "status">>}) \subseteq PassedBy
    /\ (By({UseDownloadAsset, UseDeleteAsset}) \X {PxeKey, PxeKey \o <<"kernel">>}) \subseteq PassedBy
BY Zenon DEF PassedBy

LEMMA Passing ==
    ASSUME NEW hooks, NEW keys, (By(hooks) \X keys) \subseteq PassedBy
    PROVE  \A h \in hooks : \A m \in h.mutations, key \in keys : <<m, key>> \in PassedBy
BY DEF By

LEMMA ConfigPasses ==
    /\ \A h \in {UseNodes, UseDeployedApps, UseServiceConfig} :
         \A m \in h.mutations, key \in {ConfigKey, YamlKey} \cup Instance : <<m, key>> \in PassedBy
    /\ \A h \in {UseInstanceConfig} :
         \A m \in h.mutations, key \in {YamlKey} \cup Instance \cup ConfigUsers : <<m, key>> \in PassedBy
    /\ \A h \in {UseConfigYaml} :
         \A m \in h.mutations, key \in {ConfigKey} \cup Instance \cup ConfigUsers : <<m, key>> \in PassedBy
BY PassedLines, Passing

LEMMA NodesPass ==
    /\ \A h \in {UseNodes} : \A m \in h.mutations, key \in {<<"cluster-nodes", "i">>} : <<m, key>> \in PassedBy
    /\ \A h \in {UseDeployedApps} :
         \A m \in h.mutations, key \in {Here(<<"secrets", "raw">>), Here(<<"secrets", "masked">>)} : <<m, key>> \in PassedBy
    /\ \A h \in {UseInstances} : \A m \in h.mutations, key \in {<<"central", "status">>} : <<m, key>> \in PassedBy
BY PassedLines, Passing

LEMMA AccessPasses ==
    /\ \A h \in {UseCluster} : \A m \in h.mutations,
          key \in {Here(<<"kubeconfig">>), Here(<<"talosconfig">>), Here(<<"cluster", "talosconfig">>)} :
         <<m, key>> \in PassedBy
    /\ \A m \in UseCluster.mutations :
         m.call = ClusterApi.configureEndpoints => <<m, Here(<<"cluster", "kubeconfig">>)>> \in PassedBy
    /\ \A h \in {UseRegenerateKubeconfig} : \A m \in h.mutations, key \in {Here(<<"cluster", "kubeconfig">>)} :
         <<m, key>> \in PassedBy
<1>1. \A m \in UseCluster.mutations :
        m.call = ClusterApi.configureEndpoints => <<m, Here(<<"cluster", "kubeconfig">>)>> \in PassedBy
  <2>1. UseCluster.mutations = By({UseCluster})
    BY DEF By
  <2> QED
    BY <2>1, PassedLines
<1> QED
  BY <1>1, PassedLines, Passing

LEMMA OperationsPass ==
    /\ \A h \in {UseDeployedApps, UseAppBackupsOfApps, UseAppBackups, UseServices, UseCluster} :
         \A m \in h.mutations, key \in {DashboardKey, ListKey, OperationsKey} : <<m, key>> \in PassedBy
    /\ \A h \in {UseInstallService} : \A m \in h.mutations, key \in {DashboardKey, ListKey} : <<m, key>> \in PassedBy
    /\ \A h \in {UseCancelOperation} :
         \A m \in h.mutations, key \in {DashboardKey, OperationsKey} : <<m, key>> \in PassedBy
BY PassedLines, Passing

LEMMA AssetsPass ==
    \A h \in {UseDownloadAsset, UseDeleteAsset} : \A m \in h.mutations, key \in {PxeKey, PxeKey \o <<"kernel">>} :
        <<m, key>> \in PassedBy
BY PassedLines, Passing

LEMMA UnwrittenFit ==
    \A h \in {UseNodeHardware, UseClusterHealth, UseClusterStatus, UseInstanceClusterHealth, UseAvailableApps,
              UseAvailableApp, UseAppLogs, UseAppEvents, UseServiceManifest, UseBackupDiscovery, UseStatus,
              UseDashboardToken, UseClusterVersions, UseNodeIPs, UseControlPlaneIP} : ReadsFit(h)
<1>1. \A r \in {"hardware", "cluster", "catalog", "logs", "resources", "central", "utilities"} : \A m : ~Written(r, m)
  BY DEF Written, Document
<1>2. \A h : (\A q \in h.queries : q.shows \subseteq {"hardware", "cluster", "catalog", "logs", "resources", "central", "utilities"})
             => ReadsFit(h)
  BY <1>1 DEF ReadsFit, Kept
<1> USE DEF Hook, Read, Polled
<1>3. ReadsFit(UseNodeHardware) /\ ReadsFit(UseClusterHealth) /\ ReadsFit(UseClusterStatus) /\ ReadsFit(UseInstanceClusterHealth)
  BY <1>2 DEF UseNodeHardware, UseClusterHealth, UseClusterStatus, UseInstanceClusterHealth
<1>4. ReadsFit(UseAvailableApps) /\ ReadsFit(UseAvailableApp) /\ ReadsFit(UseAppLogs) /\ ReadsFit(UseAppEvents)
  BY <1>2 DEF UseAvailableApps, UseAvailableApp, UseAppLogs, UseAppEvents
<1>5. ReadsFit(UseServiceManifest) /\ ReadsFit(UseBackupDiscovery) /\ ReadsFit(UseStatus) /\ ReadsFit(UseDashboardToken)
  BY <1>2 DEF UseServiceManifest, UseBackupDiscovery, UseStatus, UseDashboardToken
<1>6. ReadsFit(UseClusterVersions) /\ ReadsFit(UseNodeIPs) /\ ReadsFit(UseControlPlaneIP)
  BY <1>2 DEF UseClusterVersions, UseNodeIPs, UseControlPlaneIP
<1> QED
  BY <1>3, <1>4, <1>5, <1>6

(* The queries of each part of the state, by the hooks that change it.     *)
LEMMA NodesKept ==
    \A m \in AllMutations, key \in {Here(<<"nodes">>), <<"cluster-nodes", "i">>} : Written("nodes", m) => Settled(m, key)
<1> SUFFICES ASSUME NEW m \in AllMutations, NEW key \in {Here(<<"nodes">>), <<"cluster-nodes", "i">>}, Written("nodes", m)
             PROVE  Settled(m, key)
  OBVIOUS
<1>1. \/ m \in UseNodes.mutations /\ Here(<<"nodes">>) \in Marks(m)
      \/ m \in UseInstanceConfig.mutations \/ m \in UseConfigYaml.mutations
  BY DEF Written
<1>2. CASE m \in UseInstanceConfig.mutations \/ m \in UseConfigYaml.mutations
  BY <1>2, ConfigPasses DEF ConfigUsers, Settled
<1>3. CASE m \in UseNodes.mutations /\ Here(<<"nodes">>) \in Marks(m)
  BY <1>3, NodesPass, NodesPrefix, MarkedSettles DEF Settled
<1> QED
  BY <1>1, <1>2, <1>3

LEMMA DocumentKept ==
    \A m \in AllMutations, r \in Document, key \in {ConfigKey, YamlKey} \cup Instance : Written(r, m) => Settled(m, key)
<1> SUFFICES ASSUME NEW m \in AllMutations, NEW r \in Document, NEW key \in {ConfigKey, YamlKey} \cup Instance, Written(r, m)
             PROVE  Settled(m, key)
  OBVIOUS
<1>1. \/ \E h \in {UseNodes, UseDeployedApps, UseServiceConfig} : m \in h.mutations
      \/ m \in UseInstanceConfig.mutations /\ ConfigKey \in Marks(m)
      \/ m \in UseConfigYaml.mutations /\ <<"instance", "i", "config">> \in Marks(m)
  BY DEF Written, Document
<1>2. CASE \E h \in {UseNodes, UseDeployedApps, UseServiceConfig} : m \in h.mutations
  BY <1>2, ConfigPasses DEF Settled
<1>3. CASE m \in UseInstanceConfig.mutations /\ ConfigKey \in Marks(m)
  <2>1. key = ConfigKey \/ key \in {YamlKey} \cup Instance \cup ConfigUsers
    OBVIOUS
  <2> QED
    BY <1>3, <2>1, ConfigPasses, ConfigPrefix, MarkedSettles DEF Settled
<1>4. CASE m \in UseConfigYaml.mutations /\ <<"instance", "i", "config">> \in Marks(m)
  <2>1. key = YamlKey \/ key \in {ConfigKey} \cup Instance \cup ConfigUsers
    OBVIOUS
  <2> QED
    BY <1>4, <2>1, ConfigPasses, ConfigPrefix, MarkedSettles DEF Settled
<1> QED
  BY <1>1, <1>2, <1>3, <1>4

LEMMA ServicesKept ==
    \A m \in AllMutations, key \in {Here(<<"services", "svc", "status">>), Here(<<"services", "svc", "config">>)} :
        Written("config", m) \/ Written("services", m) => Settled(m, key)
<1> SUFFICES ASSUME NEW m \in AllMutations,
                    NEW key \in {Here(<<"services", "svc", "status">>), Here(<<"services", "svc", "config">>)},
                    Written("config", m) \/ Written("services", m)
             PROVE  Settled(m, key)
  OBVIOUS
<1>1. m \in UseInstanceConfig.mutations \/ m \in UseConfigYaml.mutations \/ Here(<<"services">>) \in Marks(m)
  BY DEF Written
<1>2. CASE m \in UseInstanceConfig.mutations \/ m \in UseConfigYaml.mutations
  BY <1>2, ConfigPasses DEF ConfigUsers, Settled
<1>3. CASE Here(<<"services">>) \in Marks(m)
  BY <1>3, ServicesPrefix, MarkedSettles
<1> QED
  BY <1>1, <1>2, <1>3

LEMMA ServiceListsKept ==
    \A m \in AllMutations, key \in {Here(<<"services">>), Here(<<"services", "svc">>)} :
        Written("services", m) => Settled(m, key)
<1>1. \A m : Written("services", m) => Here(<<"services">>) \in Marks(m)
  BY DEF Written, Document
<1> QED
  BY <1>1, ServicesPrefix, MarkedSettles

LEMMA AppsKept ==
    /\ \A m \in AllMutations : Written("apps", m) => Settled(m, Here(<<"apps">>))
    /\ \A m \in AllMutations, part \in {"status", "enhanced", "runtime", "readme"} :
         Written("apps", m) => Settled(m, Here(<<"apps", "app", part>>))
    /\ \A m \in AllMutations : Written("appConfig", m) => Settled(m, Here(<<"apps", "app", "enhanced">>))
<1>1. \A m : Written("apps", m) => Here(<<"apps">>) \in Marks(m)
  BY DEF Written, Document
<1>2. \A m : Written("appConfig", m) =>
        m \in UseInstanceConfig.mutations \/ m \in UseConfigYaml.mutations \/ Here(<<"apps">>) \in Marks(m)
  BY DEF Written
<1>3. \A m : m \in UseInstanceConfig.mutations \/ m \in UseConfigYaml.mutations =>
        Settled(m, Here(<<"apps", "app", "enhanced">>))
  BY ConfigPasses DEF ConfigUsers, Settled
<1> QED
  BY <1>1, <1>2, <1>3, AppsPrefix, MarkedSettles

LEMMA AccessKept ==
    /\ \A m \in AllMutations : Written("kubeconfig", m) => Settled(m, Here(<<"cluster", "kubeconfig">>))
    /\ \A m \in AllMutations : Written("kubeconfig", m) => Settled(m, Here(<<"kubeconfig">>))
    /\ \A m \in AllMutations, key \in {Here(<<"talosconfig">>), Here(<<"cluster", "talosconfig">>)} :
         Written("talosconfig", m) => Settled(m, key)
<1>1. \A m : Written("talosconfig", m) => m \in UseCluster.mutations
  BY DEF Written, Document
<1>2. ASSUME NEW m, Written("kubeconfig", m)
      PROVE  \/ /\ m \in UseCluster.mutations
                /\ m.call = ClusterApi.configureEndpoints \/ Here(<<"cluster", "kubeconfig">>) \in Marks(m)
             \/ m \in UseRegenerateKubeconfig.mutations /\ Here(<<"kubeconfig">>) \in Marks(m)
  BY <1>2 DEF Written, Document
<1>3. \A m \in UseCluster.mutations : Settled(m, Here(<<"kubeconfig">>)) /\ Settled(m, Here(<<"talosconfig">>))
                                      /\ Settled(m, Here(<<"cluster", "talosconfig">>))
  BY AccessPasses DEF Settled
<1>4. \A m \in UseCluster.mutations :
        m.call = ClusterApi.configureEndpoints \/ Here(<<"cluster", "kubeconfig">>) \in Marks(m) =>
            Settled(m, Here(<<"cluster", "kubeconfig">>))
  BY AccessPasses, NodesPrefix, MarkedSettles DEF Settled
<1>5. \A m \in UseRegenerateKubeconfig.mutations : Settled(m, Here(<<"cluster", "kubeconfig">>))
  BY AccessPasses DEF Settled
<1>6. \A m : Here(<<"kubeconfig">>) \in Marks(m) => Settled(m, Here(<<"kubeconfig">>))
  BY NodesPrefix, MarkedSettles
<1> QED
  BY <1>1, <1>2, <1>3, <1>4, <1>5, <1>6

LEMMA OperationsKept ==
    \A m \in AllMutations, key \in {DashboardKey, ListKey, OperationsKey} : Written("operations", m) => Settled(m, key)
<1> SUFFICES ASSUME NEW m \in AllMutations, NEW key \in {DashboardKey, ListKey, OperationsKey}, Written("operations", m)
             PROVE  Settled(m, key)
  OBVIOUS
<1>1. \/ \E h \in {UseDeployedApps, UseAppBackupsOfApps, UseAppBackups, UseServices, UseCluster} : m \in h.mutations
      \/ m \in UseInstallService.mutations /\ OperationsKey \in Marks(m)
      \/ m \in UseCancelOperation.mutations /\ <<"operations", "i">> \in Marks(m)
  BY DEF Written, Document
<1>2. CASE \E h \in {UseDeployedApps, UseAppBackupsOfApps, UseAppBackups, UseServices, UseCluster} : m \in h.mutations
  BY <1>2, OperationsPass DEF Settled
<1>3. CASE m \in UseInstallService.mutations /\ OperationsKey \in Marks(m)
  BY <1>3, OperationsPass, ServicesPrefix, MarkedSettles DEF Settled
<1>4. CASE m \in UseCancelOperation.mutations /\ <<"operations", "i">> \in Marks(m)
  BY <1>4, OperationsPass, ServicesPrefix, MarkedSettles DEF Settled
<1> QED
  BY <1>1, <1>2, <1>3, <1>4

LEMMA SetupKept == \A m \in AllMutations : Settled(m, SetupKey)
BY PassedLines DEF Settled

(* Each of these parts is written under one prefix alone.                  *)
LEMMA OnePrefix ==
    \A m : /\ Written("discovery", m) => Here(<<"discovery">>) \in Marks(m)
           /\ Written("global", m) => <<"globalConfig">> \in Marks(m)
           /\ Written("backups", m) => {AppBackupKey, Here(<<"all-backups">>)} \subseteq Marks(m)
           /\ Written("schedules", m) => ScheduleKey \in Marks(m)
           /\ Written("dnsmasq", m) => <<"dnsmasq", "status">> \in Marks(m)
           /\ Written("dnsmasqConfig", m) => <<"dnsmasq", "config">> \in Marks(m)
BY DEF Written, Document

LEMMA OthersKept ==
    \A m \in AllMutations :
        /\ Written("discovery", m) => Settled(m, Here(<<"discovery">>))
        /\ Written("global", m) => Settled(m, <<"globalConfig">>)
        /\ Written("backups", m) => Settled(m, AppBackupKey) /\ Settled(m, Here(<<"all-backups", "apps">>))
        /\ Written("schedules", m) => Settled(m, ScheduleKey \o <<"id", "history">>)
        /\ Written("dnsmasq", m) => Settled(m, <<"dnsmasq", "status">>)
        /\ Written("dnsmasqConfig", m) => Settled(m, <<"dnsmasq", "config">>)
<1> TAKE m \in AllMutations
<1>1. {AppBackupKey, Here(<<"all-backups">>)} \subseteq Marks(m) =>
        Settled(m, AppBackupKey) /\ Settled(m, Here(<<"all-backups", "apps">>))
  BY AppsPrefix, MarkedSettles
<1>2. Here(<<"discovery">>) \in Marks(m) => Settled(m, Here(<<"discovery">>))
  BY NodesPrefix, MarkedSettles
<1>3. <<"globalConfig">> \in Marks(m) => Settled(m, <<"globalConfig">>)
  BY ConfigPrefix, MarkedSettles
<1>4. ScheduleKey \in Marks(m) => Settled(m, ScheduleKey \o <<"id", "history">>)
  BY AppsPrefix, MarkedSettles
<1>5. <<"dnsmasq", "status">> \in Marks(m) => Settled(m, <<"dnsmasq", "status">>)
  BY AssetsPrefix, MarkedSettles
<1>6. <<"dnsmasq", "config">> \in Marks(m) => Settled(m, <<"dnsmasq", "config">>)
  BY AssetsPrefix, MarkedSettles
<1> QED
  BY <1>1, <1>2, <1>3, <1>4, <1>5, <1>6, OnePrefix

LEMMA InstancesKept ==
    \A m \in AllMutations, key \in {<<"instances">>, <<"central", "status">>} :
        Written("instances", m) \/ Written("central", m) => Settled(m, key)
<1>1. \A m : ~Written("central", m)
  BY DEF Written, Document
<1>2. \A m : Written("instances", m) => m \in UseInstances.mutations /\ <<"instances">> \in Marks(m)
  BY DEF Written, Document
<1>3. \A m : <<"instances">> \in Marks(m) => Settled(m, <<"instances">>)
  BY ConfigPrefix, MarkedSettles
<1>4. \A m \in UseInstances.mutations : Settled(m, <<"central", "status">>)
  BY NodesPass DEF Settled
<1> QED
  BY <1>1, <1>2, <1>3, <1>4

LEMMA SecretsKept ==
    \A m \in AllMutations, key \in {Here(<<"secrets", "raw">>), Here(<<"secrets", "masked">>)} :
        Written("secrets", m) => Settled(m, key)
<1> SUFFICES ASSUME NEW m \in AllMutations, NEW key \in {Here(<<"secrets", "raw">>), Here(<<"secrets", "masked">>)},
                    Written("secrets", m)
             PROVE  Settled(m, key)
  OBVIOUS
<1>1. Here(<<"secrets">>) \in Marks(m) \/ m \in UseDeployedApps.mutations
  BY DEF Written, Document
<1>2. CASE Here(<<"secrets">>) \in Marks(m)
  BY <1>2, ConfigPrefix, MarkedSettles
<1>3. CASE m \in UseDeployedApps.mutations
  BY <1>3, NodesPass DEF Settled
<1> QED
  BY <1>1, <1>2, <1>3

LEMMA AssetsKept ==
    \A m \in AllMutations,
       key \in {<<"assets">>, <<"assets", "s", "v">>, <<"assets", "s", "v", "status">>, PxeKey, PxeKey \o <<"kernel">>} :
        Written("assets", m) => Settled(m, key)
<1> SUFFICES ASSUME NEW m \in AllMutations, Written("assets", m)
             PROVE  /\ \A key \in {<<"assets">>, <<"assets", "s", "v">>, <<"assets", "s", "v", "status">>} : Settled(m, key)
                    /\ \A key \in {PxeKey, PxeKey \o <<"kernel">>} : Settled(m, key)
  BY Zenon
<1>1. m \in UseDownloadAsset.mutations \cup UseDeleteAsset.mutations /\ <<"assets">> \in Marks(m)
  BY DEF Written, Document
<1>2. \A key \in {<<"assets">>, <<"assets", "s", "v">>, <<"assets", "s", "v", "status">>} : Settled(m, key)
  BY <1>1, AssetsPrefix, MarkedSettles
<1>3. \A key \in {PxeKey, PxeKey \o <<"kernel">>} : Settled(m, key)
  BY <1>1, AssetsPass DEF Settled
<1> QED
  BY <1>1, <1>2, <1>3

(* The hooks that read, one by one.                                        *)
LEMMA ConfigFits ==
    \A h \in {UseInstance, UseInstanceConfig, UseConfigYaml, UseConfig, UseSecrets, UseInstanceCard, UseInstances,
              UseCentralStatus} : ReadsFit(h)
<1> USE DEF ReadsFit, Kept, Hook, Read
<1>1. \A q \in UseInstance.queries : q.key = Here(<<>>) /\ q.shows = Document
  BY DEF UseInstance
<1>2. \A q \in UseInstanceConfig.queries : q.key = ConfigKey /\ q.shows = Document
  BY DEF UseInstanceConfig, ConfigKey
<1>3. \A q \in UseConfigYaml.queries : q.key = YamlKey /\ q.shows = Document
  BY DEF UseConfigYaml, YamlKey
<1>4. \A q \in UseInstanceCard.queries : q.key = <<"instance", "i">> /\ q.shows = Document
  BY DEF UseInstanceCard
<1>5. \A h \in {UseInstance, UseInstanceConfig, UseConfigYaml, UseInstanceCard} : ReadsFit(h)
  BY <1>1, <1>2, <1>3, <1>4, DocumentKept DEF Instance
<1>6. ReadsFit(UseConfig)
  BY OthersKept DEF UseConfig
<1>7. ReadsFit(UseSecrets)
  BY SecretsKept DEF UseSecrets
<1>8. ReadsFit(UseInstances) /\ ReadsFit(UseCentralStatus)
  BY InstancesKept DEF UseInstances, UseCentralStatus
<1> HIDE DEF ReadsFit
<1> QED
  BY <1>5, <1>6, <1>7, <1>8

LEMMA ClusterFits ==
    \A h \in {UseNodes, UseDiscoveryStatus, UseSetupStatus, UseCluster, UseClusterNodes, UseKubeconfig, UseTalosconfig} :
        ReadsFit(h)
<1> USE DEF ReadsFit, Kept, Hook, Read, Polled
<1>1. ReadsFit(UseNodes)
  BY NodesKept DEF UseNodes
<1>2. ReadsFit(UseClusterNodes)
  BY NodesKept DEF UseClusterNodes
<1>3. ReadsFit(UseDiscoveryStatus)
  BY OthersKept DEF UseDiscoveryStatus
<1>4. ReadsFit(UseSetupStatus)
  BY SetupKept DEF UseSetupStatus
<1>5. ReadsFit(UseKubeconfig)
  BY AccessKept DEF UseKubeconfig
<1>6. ReadsFit(UseTalosconfig)
  BY AccessKept DEF UseTalosconfig
<1>7. ReadsFit(UseCluster)
  <2>1. \A m : ~Written("cluster", m)
    BY DEF Written, Document
  <2>2. \A q \in UseCluster.queries :
          \/ q.shows = {"cluster"} \/ q \in UseSetupStatus.queries
          \/ q.key = Here(<<"cluster", "kubeconfig">>) /\ q.shows = {"kubeconfig"}
          \/ q.key = Here(<<"cluster", "talosconfig">>) /\ q.shows = {"talosconfig"}
    BY DEF UseCluster
  <2> QED
    BY <2>1, <2>2, <1>4, AccessKept
<1> HIDE DEF ReadsFit
<1> QED
  BY <1>1, <1>2, <1>3, <1>4, <1>5, <1>6, <1>7

LEMMA AppsFit ==
    \A h \in {UseDeployedApps, UseAppStatuses, UseAppBackupsOfApps, UseAppEnhanced, UseAppRuntime, UseAppReadme,
              UseAppBackups, UseAllBackups, UseScheduleHistory} : ReadsFit(h)
<1> USE DEF ReadsFit, Kept, Hook, Read
<1>1. ReadsFit(UseDeployedApps) /\ ReadsFit(UseAppStatuses)
  BY AppsKept DEF UseDeployedApps, UseAppStatuses
<1>2. ReadsFit(UseAppBackupsOfApps) /\ ReadsFit(UseAppBackups)
  BY OthersKept DEF UseAppBackupsOfApps, UseAppBackups
<1>3. ReadsFit(UseAllBackups)
  BY OthersKept DEF UseAllBackups
<1>6. ReadsFit(UseScheduleHistory)
  <2>1. \A q \in UseScheduleHistory.queries : q.key = ScheduleKey \o <<"id", "history">> /\ q.shows = {"schedules"}
    BY DEF UseScheduleHistory
  <2> HIDE DEF Hook, Read
  <2> QED
    BY <2>1, OthersKept
<1>4. ReadsFit(UseAppEnhanced) /\ ReadsFit(UseAppRuntime)
  BY AppsKept DEF UseAppEnhanced, UseAppRuntime
<1>5. ReadsFit(UseAppReadme)
  <2>1. \A m : ~Written("catalog", m)
    BY DEF Written, Document
  <2> QED
    BY <2>1, AppsKept DEF UseAppReadme
<1> HIDE DEF ReadsFit
<1> QED
  BY <1>1, <1>2, <1>3, <1>4, <1>5, <1>6

LEMMA ServicesFit ==
    \A h \in {UseServices, UseServiceStatus, UseServiceConfig, UseService, UseBaseServices, UseBaseServiceStatus,
              UseOperations, UseOperationList, UseInstanceOperations} : ReadsFit(h)
<1> USE DEF ReadsFit, Kept, Hook, Read, Polled
<1>1. ReadsFit(UseServices) /\ ReadsFit(UseService) /\ ReadsFit(UseBaseServices)
  BY ServiceListsKept DEF UseServices, UseService, UseBaseServices
<1>2. ReadsFit(UseServiceStatus) /\ ReadsFit(UseBaseServiceStatus)
  BY ServicesKept DEF UseServiceStatus, UseBaseServiceStatus
<1>3. ReadsFit(UseServiceConfig)
  <2>1. \A q \in UseServiceConfig.queries :
          q.key = Here(<<"services">>) \o <<"svc", "config">> /\ q.shows = {"services", "config"}
    BY DEF UseServiceConfig
  <2>2. Here(<<"services">>) \o <<"svc", "config">> = Here(<<"services", "svc", "config">>)
    BY DEF Here
  <2> QED
    BY <2>1, <2>2, ServicesKept
<1>4. ReadsFit(UseOperations)
  BY OperationsKept DEF UseOperations, OperationsKey
<1>5. ReadsFit(UseOperationList) /\ ReadsFit(UseInstanceOperations)
  BY OperationsKept DEF UseOperationList, UseInstanceOperations, ListKey, DashboardKey
<1> HIDE DEF ReadsFit
<1> QED
  BY <1>1, <1>2, <1>3, <1>4, <1>5

LEMMA AssetsFit ==
    \A h \in {UseDnsmasq, UseAssetList, UseAsset, UseAssetStatus, UsePxeAssets, UsePxeAsset} : ReadsFit(h)
<1> USE DEF ReadsFit, Kept, Hook, Read, Polled
<1>1. ReadsFit(UseDnsmasq)
  BY OthersKept DEF UseDnsmasq
<1>2. ReadsFit(UseAssetList) /\ ReadsFit(UseAsset) /\ ReadsFit(UseAssetStatus)
  BY AssetsKept DEF UseAssetList, UseAsset, UseAssetStatus
<1>3. ReadsFit(UsePxeAssets)
  BY AssetsKept DEF UsePxeAssets
<1>4. ReadsFit(UsePxeAsset)
  <2>1. \A q \in UsePxeAsset.queries : q.key = PxeKey \o <<"kernel">> /\ q.shows = {"assets"}
    BY DEF UsePxeAsset
  <2> HIDE DEF Hook, Read, Polled
  <2> QED
    BY <2>1, AssetsKept
<1> HIDE DEF ReadsFit
<1> QED
  BY <1>1, <1>2, <1>3, <1>4

LEMMA OthersAskNothing ==
    \A h \in {UseRegenerateKubeconfig, UseUpdateSecrets, UseCopySecret, UseBackupVerification, UseDeleteAppBackup,
              UseInstallService, UseCancelOperation, UseDownloadAsset, UseDeleteAsset, UseDownloadPxeAsset,
              UseDeletePxeAsset, UseAssets, UseHealth, UseCreateSchedule, UseUpdateSchedule, UseDeleteSchedule,
              UseRunSchedule, UseToggleSchedule} : h.queries = {}
BY DEF Hook, UseRegenerateKubeconfig, UseUpdateSecrets, UseCopySecret, UseBackupVerification, UseDeleteAppBackup,
    UseInstallService, UseCancelOperation, UseDownloadAsset, UseDeleteAsset, UseDownloadPxeAsset, UseDeletePxeAsset,
    UseAssets, UseHealth, UseCreateSchedule, UseUpdateSchedule, UseDeleteSchedule, UseRunSchedule, UseToggleSchedule

LEMMA AllKept == \A s \in DOMAIN Screens \cup {"unused"} : \A q \in QueriesOf(s) : Kept(q)
<1>1. \A h : h.queries = {} => ReadsFit(h)
  BY DEF ReadsFit
<1>2. \A h \in Readers : ReadsFit(h)
  BY UnwrittenFit, ConfigFits, ClusterFits, AppsFit, ServicesFit, AssetsFit DEF Readers
<1>3. \A h \in Writers : ReadsFit(h)
  BY <1>1, OthersAskNothing, ConfigFits, ClusterFits, AppsFit, ServicesFit, AssetsFit DEF Writers
<1> QED
  BY <1>2, <1>3, HooksKnown DEF QueriesOf, ReadsFit

(* Whatever a mutation of any screen has changed of what is watched by the *)
(* time it succeeds, its hook marks the query or passes it by.             *)
LEMMA WatchingMarks == \A s \in DOMAIN Screens \cup {"unused"} : \A q \in QueriesOf(s) : Marking(Watching(s, q))
<1> SUFFICES ASSUME NEW s \in DOMAIN Screens \cup {"unused"}, NEW q \in QueriesOf(s), NEW w \in Watching(s, q).writes,
                    w.routed, w.now, w.told
             PROVE  w.marks
  BY DEF Marking
<1>1. PICK m \in AllMutations : w = WriteTo(q, m)
  BY DEF Watching
<1>2. /\ w.now = (m.now \cap q.shows # {}) /\ w.told = (<<m, q.key>> \notin PassedBy)
      /\ w.marks = IsMarkedBy(q.key, Marks(m)) /\ w.routed = Routed(m.call)
  BY <1>1, Zenon DEF WriteTo, Marks
<1>3. PICK r \in m.now : r \in q.shows
  BY <1>2
<1>4. Written(r, m)
  BY <1>1, <1>2, <1>3, AllWritten
<1>5. Settled(m, q.key)
  BY <1>1, <1>3, <1>4, AllKept DEF Kept
<1> QED
  BY <1>2, <1>5 DEF Settled

LEMMA CacheStart == Init => CacheInv
<1> SUFFICES ASSUME Init PROVE CacheInv
  OBVIOUS
<1>1. Marking(watched)
  BY WatchingMarks DEF Init
<1>2. VersionsTyped /\ MutationIsOurs
  BY DEF Init, Start, VersionsTyped, MutationIsOurs, Resting
<1>3. EntryTyped /\ DataIsSeen /\ AnswerIsNew
  BY DEF Init, Start, EntryTyped, DataIsSeen, AnswerIsNew, Tags, NoData
<1> QED
  BY <1>1, <1>2, <1>3 DEF CacheInv

(* For every query of every screen and the mutations of all screens, any   *)
(* number of versions, clicks, lost answers and listeners: what the client *)
(* has been told of is what it shows, or is marked.  Two cases are left    *)
(* out: mutations that pass the query by (PassedBy of WebCache lists the   *)
(* pairs), and a fetch that was running when the client was told, whose    *)
(* answer took the mark away (queryClient.ts and the hooks).               *)
THEOREM AcknowledgedStaysSeen == Spec => []AcknowledgedIsSeen
<1>1. CacheInv => AcknowledgedIsSeen
  BY DEF CacheInv, DataIsSeen, AcknowledgedIsSeen
<1> QED
  BY <1>1, CacheStart, CacheStep, PTL DEF Spec

-----------------------------------------------------------------------------
(* What Forgotten rests on, but for fairness.  A connection that ended is  *)
(* closed, or waits to be.                                                 *)
WaitsAt(c, i) == i \in 1..Len(unregister) /\ unregister[i] = c
NoneIsLost == \A c \in Clients : conn[c] \in Left => c \in closed \/ \E i \in Nat : WaitsAt(c, i)

(* Who waits keeps its place or moves up, and who is first goes next.      *)
InTurn ==
    \A c \in Clients, i \in Nat : WaitsAt(c, i) =>
        \/ WaitsAt(c, i)'
        \/ i > 1 /\ WaitsAt(c, i - 1)'
        \/ i = 1 /\ c \in closed' /\ c \notin clients'

Forgot(c) == conn[c] = "gone" /\ c \in closed /\ c \notin clients /\ c \notin early
ForgottenForGood == \A c \in Clients : Forgot(c) => Forgot(c)'

LEMMA HubStep ==
    ASSUME IInv, NoneIsLost, [HubNext]_hubVars
    PROVE  NoneIsLost' /\ InTurn /\ ForgottenForGood
<1>1. unregister \in Seq(Clients) /\ Len(unregister) \in Nat
  BY LenProperties DEF IInv, TypeOK
<1>2. conn = [c \in Clients |-> conn[c]]
  BY DEF IInv, TypeOK
<1>3. ASSUME UNCHANGED <<unregister, closed>>, \A c \in Clients : conn'[c] \in Left => conn[c] \in Left
      PROVE  NoneIsLost' /\ InTurn
  BY <1>3 DEF NoneIsLost, InTurn, WaitsAt
<1>4. ASSUME UNCHANGED <<closed, clients, early>>, \A c \in Clients : conn[c] = "gone" => conn'[c] = "gone"
      PROVE  ForgottenForGood
  BY <1>4 DEF ForgottenForGood, Forgot
<1>5. ASSUME NEW c \in Clients, RegisterClient(c) \/ DropLimiter(c) PROVE NoneIsLost' /\ InTurn /\ ForgottenForGood
  <2>1. UNCHANGED <<unregister, closed, clients, early>>
    BY <1>5 DEF RegisterClient, DropLimiter
  <2>2. \A d \in Clients : (conn'[d] \in Left => conn[d] \in Left) /\ (conn[d] = "gone" => conn'[d] = "gone")
    BY <1>2, <1>5 DEF RegisterClient, DropLimiter, Left
  <2> QED
    BY <1>3, <1>4, <2>1, <2>2
<1>6. ASSUME NEW c \in Clients, UnregisterClient(c) PROVE NoneIsLost' /\ InTurn /\ ForgottenForGood
  <2>0. PICK n \in Nat : n = Len(unregister) + 1
    BY <1>1
  <2>1. /\ Len(unregister') = n /\ unregister'[n] = c
        /\ \A i \in 1..Len(unregister) : unregister'[i] = unregister[i]
    BY <1>1, <1>6, <2>0, AppendProperties DEF UnregisterClient
  <2>2. \A d \in Clients, i \in Nat : WaitsAt(d, i) => WaitsAt(d, i)'
    BY <1>1, <2>0, <2>1 DEF WaitsAt
  <2>3. WaitsAt(c, n)'
    BY <1>1, <2>0, <2>1 DEF WaitsAt
  <2>4. \A d \in Clients \ {c} : conn'[d] = conn[d]
    BY <1>2, <1>6 DEF UnregisterClient
  <2>5. closed' = closed /\ clients' = clients /\ conn[c] = "open"
    BY <1>6 DEF UnregisterClient
  <2>6. NoneIsLost'
    <3> SUFFICES ASSUME NEW d \in Clients, conn'[d] \in Left, d \notin closed' PROVE \E i \in Nat : WaitsAt(d, i)'
      BY DEF NoneIsLost
    <3>1. CASE d = c
      BY <1>1, <2>3, <3>1
    <3>2. CASE d # c
      <4>1. PICK i \in Nat : WaitsAt(d, i)
        BY <2>4, <2>5, <3>2 DEF NoneIsLost
      <4> QED
        BY <2>2, <4>1
    <3> QED
      BY <3>1, <3>2
  <2>7. ForgottenForGood
    <3> SUFFICES ASSUME NEW d \in Clients, Forgot(d) PROVE Forgot(d)'
      BY DEF ForgottenForGood
    <3>1. d # c
      BY <2>5 DEF Forgot
    <3>2. d \notin early'
      BY <1>6, <3>1 DEF UnregisterClient, Forgot
    <3> QED
      BY <2>4, <2>5, <3>1, <3>2 DEF Forgot
  <2> QED
    BY <2>2, <2>6, <2>7 DEF InTurn
<1>7. ASSUME RunRegister PROVE NoneIsLost' /\ InTurn /\ ForgottenForGood
  <2>1. UNCHANGED <<conn, unregister, closed, early>> /\ clients' = clients \cup {Head(register)}
    BY <1>7 DEF RunRegister
  <2>2. Head(register) \in ToSet(register)
    BY <1>7, ToSetTail DEF RunRegister, IInv, TypeOK
  <2>3. ForgottenForGood
    BY <2>1, <2>2 DEF ForgottenForGood, Forgot, IInv, Queued
  <2> QED
    BY <1>3, <2>1, <2>3
<1>8. ASSUME RunUnregister PROVE NoneIsLost' /\ InTurn /\ ForgottenForGood
  <2>1. /\ Len(unregister') = Len(unregister) - 1
        /\ \A i \in 1..Len(unregister') : unregister'[i] = unregister[i + 1]
        /\ Head(unregister) = unregister[1]
    BY <1>1, <1>8, HeadTailProperties DEF RunUnregister
  <2>2. clients' = clients \ {Head(unregister)} /\ closed' = closed \cup {Head(unregister)} /\ UNCHANGED <<conn, early>>
    BY <1>8 DEF RunUnregister
  <2>3. ASSUME NEW c \in Clients, NEW i \in Nat, WaitsAt(c, i)
        PROVE  (i > 1 /\ WaitsAt(c, i - 1)') \/ (i = 1 /\ c \in closed' /\ c \notin clients')
    <3>1. CASE i = 1
      BY <2>1, <2>2, <2>3, <3>1 DEF WaitsAt
    <3>2. CASE i # 1
      <4>1. PICK j \in Nat : j = i - 1
        BY <2>3, <3>2 DEF WaitsAt
      <4>2. j \in 1..Len(unregister') /\ i = j + 1 /\ i > 1
        BY <1>1, <2>1, <2>3, <3>2, <4>1 DEF WaitsAt
      <4>3. WaitsAt(c, j)'
        BY <2>1, <2>3, <4>2 DEF WaitsAt
      <4> QED
        BY <4>1, <4>2, <4>3
    <3> QED
      BY <3>1, <3>2
  <2>4. NoneIsLost'
    <3> SUFFICES ASSUME NEW c \in Clients, conn'[c] \in Left, c \notin closed' PROVE \E i \in Nat : WaitsAt(c, i)'
      BY DEF NoneIsLost
    <3>1. PICK i \in Nat : WaitsAt(c, i)
      BY <2>2 DEF NoneIsLost
    <3>2. i > 1 /\ WaitsAt(c, i - 1)' /\ i - 1 \in Nat
      BY <2>3, <3>1
    <3> QED
      BY <3>2
  <2>5. ForgottenForGood
    BY <2>2 DEF ForgottenForGood, Forgot
  <2> QED
    BY <2>3, <2>4, <2>5 DEF InTurn
<1>9. ASSUME NEW c \in Clients, Relay(c) PROVE NoneIsLost' /\ InTurn /\ ForgottenForGood
  BY <1>3, <1>4, <1>9 DEF Relay
<1>10. ASSUME NEW i \in Instances, Broadcast(i) PROVE NoneIsLost' /\ InTurn /\ ForgottenForGood
  BY <1>3, <1>4, <1>10 DEF Broadcast
<1>11. ASSUME RunBroadcast PROVE NoneIsLost' /\ InTurn /\ ForgottenForGood
  BY <1>3, <1>4, <1>11 DEF RunBroadcast
<1>12. ASSUME UNCHANGED hubVars PROVE NoneIsLost' /\ InTurn /\ ForgottenForGood
  BY <1>3, <1>4, <1>12 DEF hubVars
<1> QED
  BY <1>5, <1>6, <1>7, <1>8, <1>9, <1>10, <1>11, <1>12 DEF HubNext, Handler, Run

(* However connections come and go: one that ended is closed or waits in   *)
(* the hub's queue, where it moves up until its turn comes; and one that   *)
(* is gone, closed and no longer registered stays so, unless it ended      *)
(* while its registration was still queued.                                *)
THEOREM GoneWaitTheirTurn == HubSpec => []NoneIsLost /\ [][InTurn /\ ForgottenForGood]_hubVars
<1>1. HubInit => IInv /\ NoneIsLost
  <2>1. HubInit => NoneIsLost
    BY DEF HubInit, NoneIsLost, Left
  <2> QED
    BY <2>1, InitIInv
<1>2. IInv /\ NoneIsLost /\ [HubNext]_hubVars => (IInv /\ NoneIsLost)'
  BY HubStep, NextIInv
<1>3. IInv /\ NoneIsLost /\ [HubNext]_hubVars => [InTurn /\ ForgottenForGood]_hubVars
  BY HubStep
<1> QED
  BY <1>1, <1>2, <1>3, PTL DEF HubSpec
=============================================================================
