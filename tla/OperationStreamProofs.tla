------------------------ MODULE OperationStreamProofs ------------------------
(***************************************************************************)
(* Proofs about OperationStream, for any number of streams, services and   *)
(* lines and any capacity of the channels: the worker never sends on a     *)
(* closed channel, and what a stream delivers is the output of the         *)
(* scripts, of which it lacks nothing but what was published between its   *)
(* replay and its subscription.                                            *)
(***************************************************************************)
EXTENDS OperationStream, SequenceTheorems, TLAPS

Seen(h) == got[h] \o channel[h]
Published == line - Len(pending)

(* Each line that follows another one, with only messages between them, is *)
(* the next; and the last line is n.                                       *)
Contiguous(s) ==
    \A i, j \in 1..Len(s) :
        (i < j /\ s[i] > 0 /\ s[j] > 0 /\ \A k \in i + 1..j - 1 : s[k] = 0)
            => s[j] = s[i] + 1
LastLineIs(s, n) ==
    \A i \in 1..Len(s) : (s[i] > 0 /\ \A k \in i + 1..Len(s) : s[k] = 0) => s[i] = n

(* A stream is subscribed from the moment it follows until its channel is  *)
(* closed.                                                                 *)
Subscribed ==
    /\ clients \cap closed = {}
    /\ \A h \in clients : hpc[h] = "follow"
    /\ \A h \in closed : hpc[h] \in {"follow", "done", "panicked"}
    /\ \A h \in Streams :
         /\ hpc[h] = "follow" => h \in clients \cup closed
         /\ hpc[h] \in {"new", "replay", "subscribe"} => got[h] = <<>> /\ channel[h] = <<>>

(* The lines that wait to be published are the latest ones; an              *)
(* installation that ended has a result.                                   *)
Pending ==
    /\ wpc = "end" => result # "none"
    /\ Len(pending) <= line
    /\ \A i \in 1..Len(pending) : pending[i] = Published + i

Live ==
    \A h \in Streams \ dropped :
        /\ Contiguous(Seen(h))
        /\ h \in clients => LastLineIs(Seen(h), Published)

(* What of the log was published reached the stream, unless it came too    *)
(* late for the replay and too early for the subscription.                 *)
Covered ==
    \A h \in Streams \ dropped :
        hpc[h] = "subscribe" \/ h \in clients =>
            ToSet(log) \ ToSet(pending) \subseteq replayed[h] \cup missed[h] \cup ToSet(Seen(h))

IInv == TypeOK /\ Subscribed /\ Pending /\ Live /\ Covered

-----------------------------------------------------------------------------
(* Lemmas about sequences of lines.                                        *)

LEMMA LinesAreNat == ASSUME NEW s \in Seq(Lines) PROVE \A i \in 1..Len(s) : s[i] \in Nat
<1> TAKE i \in 1..Len(s)
<1>1. s[i] \in Lines
  BY ElementOfSeq
<1>2. QED
  BY <1>1, StreamAssumption DEF Lines

(* Receiving moves a message from the channel to the client.               *)
LEMMA ReceivedIsSeen ==
    ASSUME NEW S, NEW g \in Seq(S), NEW c \in Seq(S), c # <<>>
    PROVE  /\ Append(g, Head(c)) \in Seq(S) /\ Tail(c) \in Seq(S)
           /\ Append(g, Head(c)) \o Tail(c) = g \o c
<1>1. Head(c) \in S /\ Tail(c) \in Seq(S)
  BY HeadTailProperties
<1>2. <<Head(c)>> \in Seq(S)
  BY <1>1
<1>3. Append(g, Head(c)) = g \o <<Head(c)>> /\ Append(g, Head(c)) \in Seq(S)
  BY <1>1, AppendIsConcat, AppendProperties
<1>4. <<Head(c)>> \o Tail(c) = c
  <2>1. /\ Len(Tail(c)) = Len(c) - 1 /\ Len(c) \in Nat /\ Len(c) # 0
        /\ \A i \in 1..Len(Tail(c)) : Tail(c)[i] = c[i + 1]
    BY HeadTailProperties, LenProperties, EmptySeq
  <2> DEFINE t == <<Head(c)>> \o Tail(c)
  <2>2. /\ t \in Seq(S) /\ Len(t) = Len(<<Head(c)>>) + Len(Tail(c))
        /\ \A i \in 1..Len(<<Head(c)>>) + Len(Tail(c)) :
              t[i] = IF i <= Len(<<Head(c)>>) THEN <<Head(c)>>[i]
                     ELSE Tail(c)[i - Len(<<Head(c)>>)]
    BY <1>1, <1>2, ConcatProperties
  <2>3. Len(<<Head(c)>>) = 1 /\ <<Head(c)>>[1] = Head(c) /\ Head(c) = c[1]
    OBVIOUS
  <2> HIDE DEF t
  <2>4. Len(t) = Len(c)
    BY <2>1, <2>2, <2>3
  <2>5. ASSUME NEW i \in 1..Len(t) PROVE t[i] = c[i]
    <3>1. CASE i = 1
      BY <2>1, <2>2, <2>3, <2>4, <3>1
    <3>2. CASE i # 1
      <4>1. i - 1 \in 1..Len(Tail(c)) /\ i \in 1..1 + Len(Tail(c)) /\ ~(i <= 1)
        BY <2>1, <2>4, <3>2
      <4>2. t[i] = Tail(c)[i - 1]
        BY <2>2, <2>3, <4>1
      <4>3. Tail(c)[i - 1] = c[(i - 1) + 1]
        BY <2>1, <4>1
      <4>4. (i - 1) + 1 = i
        BY <2>1, <2>4
      <4>5. QED
        BY <4>2, <4>3, <4>4
    <3>3. QED
      BY <3>1, <3>2
  <2>6. t = c
    BY <2>2, <2>4, <2>5, SeqEqual
  <2>7. QED
    BY <2>6 DEF t
<1>5. (g \o <<Head(c)>>) \o Tail(c) = g \o (<<Head(c)>> \o Tail(c))
  BY <1>1, <1>2, ConcatAssociative
<1>6. QED
  BY <1>1, <1>3, <1>4, <1>5

(* A message that is sent comes after everything seen so far.              *)
LEMMA SentIsSeenLast ==
    ASSUME NEW S, NEW g \in Seq(S), NEW c \in Seq(S), NEW m \in S
    PROVE  g \o Append(c, m) = Append(g \o c, m)
<1>1. <<m>> \in Seq(S) /\ g \o c \in Seq(S)
  BY ConcatProperties
<1>2. Append(c, m) = c \o <<m>> /\ Append(g \o c, m) = (g \o c) \o <<m>>
  BY <1>1, AppendIsConcat
<1>3. (g \o c) \o <<m>> = g \o (c \o <<m>>)
  BY <1>1, ConcatAssociative
<1>4. QED
  BY <1>2, <1>3

LEMMA ToSetAppend ==
    ASSUME NEW S, NEW s \in Seq(S), NEW x \in S
    PROVE  ToSet(Append(s, x)) = ToSet(s) \cup {x}
<1>1. /\ Append(s, x) \in Seq(S) /\ Len(Append(s, x)) = Len(s) + 1
      /\ Append(s, x)[Len(s) + 1] = x
      /\ \A i \in 1..Len(s) : Append(s, x)[i] = s[i]
  BY AppendProperties
<1>2. Len(s) \in Nat /\ DOMAIN s = 1..Len(s) /\ DOMAIN Append(s, x) = 1..Len(s) + 1
  BY <1>1, LenProperties
<1>3. \A i \in 1..Len(s) + 1 : i = Len(s) + 1 \/ i \in 1..Len(s)
  BY <1>2
<1>4. \A i \in 1..Len(s) : i \in 1..Len(s) + 1
  BY <1>2
<1>5. Len(s) + 1 \in 1..Len(s) + 1
  BY <1>2
<1>6. ToSet(s) = {s[i] : i \in 1..Len(s)}
  BY <1>2 DEF ToSet
<1>7. ToSet(Append(s, x)) = {Append(s, x)[i] : i \in 1..Len(s) + 1}
  BY <1>2 DEF ToSet
<1>8. QED
  BY <1>1, <1>3, <1>4, <1>5, <1>6, <1>7

LEMMA ToSetTail ==
    ASSUME NEW S, NEW s \in Seq(S), s # <<>>
    PROVE  ToSet(s) = {Head(s)} \cup ToSet(Tail(s))
<1>1. /\ Tail(s) \in Seq(S) /\ Len(Tail(s)) = Len(s) - 1
      /\ \A i \in 1..Len(Tail(s)) : Tail(s)[i] = s[i + 1]
  BY HeadTailProperties
<1>2. /\ Len(s) \in Nat /\ Len(s) # 0 /\ DOMAIN s = 1..Len(s)
      /\ DOMAIN Tail(s) = 1..Len(s) - 1
  BY <1>1, LenProperties, EmptySeq
<1>3. \A i \in 1..Len(s) - 1 : i + 1 \in 1..Len(s)
  BY <1>1, <1>2
<1>4. Head(s) = s[1] /\ 1 \in 1..Len(s)
  BY <1>2
<1>5. ASSUME NEW i \in 1..Len(s), i # 1
      PROVE  i - 1 \in 1..Len(s) - 1 /\ Tail(s)[i - 1] = s[i]
  <2>1. i - 1 \in 1..Len(s) - 1 /\ (i - 1) + 1 = i
    BY <1>2, <1>5
  <2>2. QED
    BY <1>1, <2>1
<1>6. ToSet(s) \subseteq {Head(s)} \cup ToSet(Tail(s))
  <2>1. ToSet(s) = {s[i] : i \in 1..Len(s)} /\ ToSet(Tail(s)) = {Tail(s)[i] : i \in 1..Len(s) - 1}
    BY <1>2 DEF ToSet
  <2>2. ASSUME NEW i \in 1..Len(s) PROVE s[i] \in {Head(s)} \cup ToSet(Tail(s))
    BY <1>4, <1>5, <2>1
  <2>3. QED
    BY <2>1, <2>2
<1>7. {Head(s)} \cup ToSet(Tail(s)) \subseteq ToSet(s)
  BY <1>1, <1>2, <1>3, <1>4 DEF ToSet
<1>8. QED
  BY <1>6, <1>7

LEMMA ToSetConcat ==
    ASSUME NEW S, NEW s \in Seq(S), NEW t \in Seq(S)
    PROVE  ToSet(s \o t) = ToSet(s) \cup ToSet(t)
<1>1. Range(s \o t) = Range(s) \cup Range(t)
  BY RangeConcatenation
<1>2. QED
  BY <1>1, Zenon DEF ToSet, Range

(* A message that is no line, or the next line, is sent.                   *)
LEMMA MessageKeepsLive ==
    ASSUME NEW s \in Seq(Lines), 0 \in Lines, Contiguous(s)
    PROVE  /\ Contiguous(Append(s, 0))
           /\ \A n \in Nat : LastLineIs(s, n) => LastLineIs(Append(s, 0), n)
<1> DEFINE t == Append(s, 0)
<1>1. /\ Len(t) = Len(s) + 1 /\ t[Len(s) + 1] = 0
      /\ \A i \in 1..Len(s) : t[i] = s[i]
  BY AppendProperties
<1>2. Len(s) \in Nat
  BY LenProperties
<1> HIDE DEF t
<1>3. \A i \in 1..Len(t) : t[i] > 0 => i \in 1..Len(s)
  BY <1>1, <1>2
<1>4. ASSUME NEW i \in 1..Len(t), NEW j \in 1..Len(t),
             i < j, t[i] > 0, t[j] > 0, \A k \in i + 1..j - 1 : t[k] = 0
      PROVE  t[j] = t[i] + 1
  <2>1. i \in 1..Len(s) /\ j \in 1..Len(s)
    BY <1>3, <1>4
  <2>2. \A k \in i + 1..j - 1 : k \in 1..Len(s)
    BY <1>2, <2>1
  <2>3. QED
    BY <1>1, <1>4, <2>1, <2>2 DEF Contiguous
<1>5. ASSUME NEW n \in Nat, LastLineIs(s, n), NEW i \in 1..Len(t), t[i] > 0,
             \A k \in i + 1..Len(t) : t[k] = 0
      PROVE  t[i] = n
  <2>1. i \in 1..Len(s)
    BY <1>3, <1>5
  <2>2. \A k \in i + 1..Len(s) : k \in 1..Len(s) /\ k \in i + 1..Len(t)
    BY <1>1, <1>2, <2>1
  <2>3. QED
    BY <1>1, <1>5, <2>1, <2>2 DEF LastLineIs
<1>6. Contiguous(t)
  BY <1>4 DEF Contiguous
<1>7. \A n \in Nat : LastLineIs(s, n) => LastLineIs(t, n)
  BY <1>5 DEF LastLineIs
<1>8. QED
  BY <1>6, <1>7 DEF t

LEMMA NextLineKeepsLive ==
    ASSUME NEW s \in Seq(Lines), NEW n \in Nat, n + 1 \in Lines, Contiguous(s),
           LastLineIs(s, n)
    PROVE  Contiguous(Append(s, n + 1)) /\ LastLineIs(Append(s, n + 1), n + 1)
<1> DEFINE t == Append(s, n + 1)
<1>1. /\ Len(t) = Len(s) + 1 /\ t[Len(s) + 1] = n + 1
      /\ \A i \in 1..Len(s) : t[i] = s[i]
  BY AppendProperties
<1>2. Len(s) \in Nat
  BY LenProperties
<1> HIDE DEF t
<1>3. \A i \in 1..Len(t) : i = Len(s) + 1 \/ i \in 1..Len(s)
  BY <1>1, <1>2
<1>4. ASSUME NEW i \in 1..Len(t), NEW j \in 1..Len(t),
             i < j, t[i] > 0, t[j] > 0, \A k \in i + 1..j - 1 : t[k] = 0
      PROVE  t[j] = t[i] + 1
  <2>1. i \in 1..Len(s)
    BY <1>1, <1>2, <1>4
  <2>2. \A k \in i + 1..j - 1 : k \in 1..Len(s)
    BY <1>1, <1>2, <2>1
  <2>3. CASE j \in 1..Len(s)
    BY <1>1, <1>4, <2>1, <2>2, <2>3 DEF Contiguous
  <2>4. CASE j = Len(s) + 1
    <3>1. j - 1 = Len(s)
      BY <1>2, <2>4
    <3>2. \A k \in i + 1..Len(s) : s[k] = 0
      BY <1>1, <1>4, <2>2, <3>1
    <3>3. s[i] = n
      BY <1>1, <1>4, <2>1, <3>2 DEF LastLineIs
    <3>4. QED
      BY <1>1, <2>1, <2>4, <3>3
  <2>5. QED
    BY <1>3, <2>3, <2>4
<1>5. ASSUME NEW i \in 1..Len(t), t[i] > 0, \A k \in i + 1..Len(t) : t[k] = 0
      PROVE  t[i] = n + 1
  <2>1. CASE i \in 1..Len(s)
    <3>1. Len(t) \in i + 1..Len(t)
      BY <1>1, <1>2, <2>1
    <3>2. QED
      BY <1>1, <1>5, <3>1
  <2>2. CASE i = Len(s) + 1
    BY <1>1, <2>2
  <2>3. QED
    BY <1>3, <2>1, <2>2
<1>6. Contiguous(t)
  BY <1>4 DEF Contiguous
<1>7. LastLineIs(t, n + 1)
  BY <1>5 DEF LastLineIs
<1>8. QED
  BY <1>6, <1>7 DEF t

-----------------------------------------------------------------------------
(* The invariant holds at first and after every step.                      *)

LEMMA SeenType ==
    ASSUME TypeOK, NEW h \in Streams
    PROVE  /\ got[h] \in Seq(Lines) /\ channel[h] \in Seq(Lines) /\ Seen(h) \in Seq(Lines)
           /\ ToSet(Seen(h)) = ToSet(got[h]) \cup ToSet(channel[h])
<1>1. got[h] \in Seq(Lines) /\ channel[h] \in Seq(Lines)
  BY DEF TypeOK
<1>2. QED
  BY <1>1, ConcatProperties, ToSetConcat DEF Seen

LEMMA ToSetType ==
    ASSUME NEW S, NEW s \in Seq(S) PROVE ToSet(s) \subseteq S
BY ElementOfSeq, LenProperties DEF ToSet

LEMMA NothingSeen ==
    /\ Contiguous(<<>>) /\ \A n \in Nat : LastLineIs(<<>>, n)
    /\ <<>> \o <<>> = <<>> /\ ToSet(<<>>) = {} /\ Len(<<>>) = 0
    /\ <<>> \in Seq(Lines)
BY DEF Contiguous, LastLineIs, ToSet

LEMMA InitIInv == Init => IInv
<1> SUFFICES ASSUME Init PROVE IInv
  OBVIOUS
<1>1. TypeOK
  <2>1. 0 \in 0..NumServices /\ 0 \in Lines
    BY StreamAssumption DEF Lines
  <2>2. QED
    BY <2>1, NothingSeen DEF Init, TypeOK
<1>2. Subscribed
  BY DEF Init, Subscribed
<1>3. Pending
  BY NothingSeen DEF Init, Pending
<1>4. Live
  BY NothingSeen DEF Init, Live, Seen
<1>5. Covered
  BY NothingSeen DEF Init, Covered
<1>6. QED
  BY <1>1, <1>2, <1>3, <1>4, <1>5 DEF IInv

LEMMA PendingHead ==
    ASSUME TypeOK, Pending, pending # <<>>
    PROVE  /\ Head(pending) \in Lines /\ Tail(pending) \in Seq(Lines)
           /\ Published \in Nat /\ Head(pending) = Published + 1
           /\ line - Len(Tail(pending)) = Published + 1
           /\ Len(Tail(pending)) <= line
           /\ \A i \in 1..Len(Tail(pending)) : Tail(pending)[i] = (Published + 1) + i
           /\ ToSet(pending) = {Head(pending)} \cup ToSet(Tail(pending))
<1>1. pending \in Seq(Lines) /\ line \in Nat
  BY StreamAssumption DEF TypeOK, Lines
<1>2. /\ Head(pending) \in Lines /\ Tail(pending) \in Seq(Lines)
      /\ Len(Tail(pending)) = Len(pending) - 1
      /\ \A i \in 1..Len(Tail(pending)) : Tail(pending)[i] = pending[i + 1]
  BY <1>1, HeadTailProperties
<1>3. Len(pending) \in Nat /\ Len(pending) # 0
  BY <1>1, LenProperties, EmptySeq
<1>4. Head(pending) = pending[1] /\ 1 \in 1..Len(pending)
  BY <1>1, <1>3
<1>5. Published \in Nat /\ line - Len(Tail(pending)) = Published + 1
        /\ Len(Tail(pending)) <= line
  BY <1>1, <1>2, <1>3 DEF Pending, Published
<1>6. ASSUME NEW i \in 1..Len(Tail(pending))
      PROVE  Tail(pending)[i] = (Published + 1) + i
  <2>1. i + 1 \in 1..Len(pending)
    BY <1>2, <1>3
  <2>2. pending[i + 1] = Published + (i + 1)
    BY <2>1 DEF Pending
  <2>3. QED
    BY <1>2, <1>5, <2>2
<1>7. Head(pending) = Published + 1
  BY <1>4 DEF Pending
<1>8. QED
  BY <1>1, <1>2, <1>5, <1>6, <1>7, ToSetTail

(* A message, or the first pending line, goes to every subscribed channel  *)
(* that has room.                                                          *)
LEMMA PublishKeeps ==
    ASSUME IInv, NEW m \in Lines, Publish(m),
           UNCHANGED <<line, log, result, hpc, ended, replayed, got>>,
           wpc' # "end" \/ wpc' = wpc,
           \/ m = 0 /\ UNCHANGED pending
           \/ pending # <<>> /\ m = Head(pending) /\ pending' = Tail(pending)
    PROVE  /\ Subscribed' /\ Pending' /\ Live' /\ Covered'
           /\ channel' \in [Streams -> Seq(Lines)]
           /\ missed' \in [Streams -> SUBSET Lines]
           /\ dropped' \subseteq Streams /\ UNCHANGED <<clients, closed>>
           /\ pending' \in Seq(Lines)
<1>a. TypeOK /\ Subscribed /\ Pending /\ Live /\ Covered
  BY DEF IInv
<1>b. /\ channel' = [h \in Streams |->
           IF h \in clients /\ HasRoom(h) THEN Append(channel[h], m) ELSE channel[h]]
      /\ dropped' = dropped \cup {h \in clients : ~HasRoom(h)}
      /\ missed' = [h \in Streams |->
           IF hpc[h] = "subscribe" THEN missed[h] \cup {m} ELSE missed[h]]
      /\ UNCHANGED <<clients, closed>>
  BY DEF Publish
<1>c. clients \subseteq Streams /\ dropped \subseteq Streams
      /\ missed \in [Streams -> SUBSET Lines]
  BY <1>a DEF TypeOK
<1>1. ASSUME NEW h \in Streams
      PROVE  /\ channel'[h] \in Seq(Lines)
             /\ \/ channel'[h] = channel[h] /\ (Seen(h))' = Seen(h)
                \/ /\ h \in clients
                   /\ (Seen(h))' = Append(Seen(h), m)
             /\ h \in clients /\ HasRoom(h) => (Seen(h))' = Append(Seen(h), m)
  <2>1. got[h] \in Seq(Lines) /\ channel[h] \in Seq(Lines)
    BY <1>a, SeenType
  <2>2. CASE h \in clients /\ HasRoom(h)
    <3>1. channel'[h] = Append(channel[h], m)
      BY <1>b, <2>2
    <3>2. (Seen(h))' = got[h] \o Append(channel[h], m)
      BY <3>1 DEF Seen
    <3>3. (Seen(h))' = Append(Seen(h), m)
      <4>1. got[h] \o Append(channel[h], m) = Append(got[h] \o channel[h], m)
        <5>1. \A g, c \in Seq(Lines) : g \o Append(c, m) = Append(g \o c, m)
          BY SentIsSeenLast
        <5>2. QED
          BY <2>1, <5>1
      <4>2. QED
        BY <3>2, <4>1 DEF Seen
    <3>4. channel'[h] \in Seq(Lines)
      BY <2>1, <3>1, AppendProperties
    <3>5. QED
      BY <2>2, <3>3, <3>4
  <2>3. CASE ~(h \in clients /\ HasRoom(h))
    <3>1. channel'[h] = channel[h]
      BY <1>b, <2>3
    <3>2. QED
      BY <2>1, <2>3, <3>1 DEF Seen
  <2>4. QED
    BY <2>2, <2>3
<1>2. channel' \in [Streams -> Seq(Lines)]
  BY <1>1, <1>b
<1>3. missed' \in [Streams -> SUBSET Lines] /\ dropped' \subseteq Streams
  BY <1>b, <1>c
<1>4. Subscribed'
  <2>1. ASSUME NEW h \in Streams, hpc[h] \in {"new", "replay", "subscribe"}
        PROVE  channel'[h] = channel[h]
    BY <1>a, <1>b, <2>1 DEF Subscribed
  <2>2. QED
    BY <1>a, <1>b, <2>1 DEF Subscribed
<1>5. /\ Pending' /\ pending' \in Seq(Lines)
      /\ m = 0 => Published' = Published /\ pending' = pending
      /\ m # 0 => /\ Published' = m /\ m = Published + 1
                  /\ ToSet(pending) = {m} \cup ToSet(pending')
  <2>1. CASE m = 0 /\ UNCHANGED pending
    BY <1>a, <2>1 DEF Pending, Published, TypeOK
  <2>2. CASE pending # <<>> /\ m = Head(pending) /\ pending' = Tail(pending)
    <3>1. /\ m = Published + 1 /\ Published \in Nat /\ Tail(pending) \in Seq(Lines)
          /\ line - Len(Tail(pending)) = Published + 1
          /\ Len(Tail(pending)) <= line
          /\ \A i \in 1..Len(Tail(pending)) : Tail(pending)[i] = (Published + 1) + i
          /\ ToSet(pending) = {m} \cup ToSet(Tail(pending))
      BY <1>a, <2>2, PendingHead
    <3>2. Published' = Published + 1
      <4>1. Published' = line - Len(Tail(pending))
        BY <2>2 DEF Published
      <4>2. QED
        BY <3>1, <4>1
    <3>3. Pending'
      BY <1>a, <2>2, <3>1, <3>2 DEF Pending
    <3>4. QED
      BY <2>2, <3>1, <3>2, <3>3
  <2>3. QED
    BY <2>1, <2>2
<1>6. Published \in Nat
  <2>1. line \in Nat /\ Len(pending) \in Nat
    BY <1>a, StreamAssumption, LenProperties DEF TypeOK, Lines
  <2>2. QED
    BY <1>a, <2>1 DEF Pending, Published
<1>7. ASSUME NEW h \in Streams, h \notin dropped'
      PROVE  h \notin dropped /\ (h \in clients => (Seen(h))' = Append(Seen(h), m))
  <2>1. h \notin dropped /\ (h \in clients => HasRoom(h))
    BY <1>7, <1>b
  <2>2. QED
    BY <1>1, <2>1
<1>8. ASSUME NEW h \in Streams, h \notin dropped'
      PROVE  /\ Contiguous(Seen(h))'
             /\ h \in clients => LastLineIs((Seen(h))', Published')
  <2>1. h \notin dropped /\ Contiguous(Seen(h)) /\ Seen(h) \in Seq(Lines)
        /\ (h \in clients => LastLineIs(Seen(h), Published))
    BY <1>a, <1>7, <1>8, SeenType DEF Live
  <2>2. CASE h \notin clients
    <3>1. (Seen(h))' = Seen(h)
      BY <1>1, <2>2
    <3>2. QED
      BY <2>1, <2>2, <3>1 DEF Contiguous
  <2>3. CASE h \in clients /\ m = 0
    <3>1. Contiguous(Append(Seen(h), m)) /\ LastLineIs(Append(Seen(h), m), Published)
      BY <1>6, <2>1, <2>3, MessageKeepsLive
    <3>2. (Seen(h))' = Append(Seen(h), m) /\ Published' = Published
      BY <1>5, <1>7, <1>8, <2>3
    <3>3. QED
      BY <3>1, <3>2 DEF Contiguous
  <2>4. CASE h \in clients /\ m # 0
    <3>1. m = Published + 1 /\ Published' = m
      BY <1>5, <2>4
    <3>2. Contiguous(Append(Seen(h), m)) /\ LastLineIs(Append(Seen(h), m), m)
      BY <1>6, <2>1, <2>4, <3>1, NextLineKeepsLive
    <3>3. (Seen(h))' = Append(Seen(h), m)
      BY <1>7, <1>8, <2>4
    <3>4. QED
      BY <3>1, <3>2, <3>3 DEF Contiguous
  <2>5. QED
    BY <2>2, <2>3, <2>4
<1>9. Live'
  BY <1>8, <1>b DEF Live
<1>10. ASSUME NEW h \in Streams, h \notin dropped', hpc[h] = "subscribe" \/ h \in clients
       PROVE  ToSet(log) \ ToSet(pending')
                \subseteq replayed[h] \cup missed'[h] \cup ToSet(Seen(h))'
  <2>1. ToSet(log) \ ToSet(pending) \subseteq replayed[h] \cup missed[h] \cup ToSet(Seen(h))
    BY <1>a, <1>7, <1>10 DEF Covered
  <2>2. ToSet(pending) \subseteq {m} \cup ToSet(pending')
    BY <1>5
  <2>3. missed[h] \subseteq missed'[h]
    BY <1>b, <1>c
  <2>4. CASE h \in clients
    <3>1. (Seen(h))' = Append(Seen(h), m) /\ Seen(h) \in Seq(Lines)
      BY <1>a, <1>7, <1>10, <2>4, SeenType
    <3>2. ToSet(Append(Seen(h), m)) = ToSet(Seen(h)) \cup {m}
      BY <3>1, ToSetAppend
    <3>3. ToSet(Seen(h))' = ToSet(Seen(h)) \cup {m}
      BY <3>1, <3>2 DEF ToSet
    <3>4. QED
      BY <2>1, <2>2, <2>3, <3>3
  <2>5. CASE h \notin clients
    <3>1. m \in missed'[h]
      BY <1>10, <1>b, <2>5
    <3>2. ToSet(Seen(h))' = ToSet(Seen(h))
      BY <1>1, <2>5 DEF ToSet
    <3>3. QED
      BY <2>1, <2>2, <2>3, <3>1, <3>2
  <2>6. QED
    BY <2>4, <2>5
<1>11. Covered'
  BY <1>10, <1>b DEF Covered
<1>12. QED
  BY <1>2, <1>3, <1>4, <1>5, <1>9, <1>11, <1>b

(* Steps that show no stream anything.                                     *)
LEMMA NothingMoreIsSeen ==
    ASSUME IInv, UNCHANGED <<line, pending, dropped>>,
           \A h \in Streams : (Seen(h))' = Seen(h)
    PROVE  /\ Published' = Published
           /\ clients' \subseteq clients => Live'
           /\ (\A h \in Streams :
                 /\ hpc'[h] = "subscribe" \/ h \in clients' => hpc[h] = "subscribe" \/ h \in clients
                 /\ replayed[h] \subseteq replayed'[h] /\ missed[h] \subseteq missed'[h])
                /\ ToSet(log') \subseteq ToSet(log) => Covered'
<1>1. Published' = Published
  BY DEF Published
<1>2. ASSUME clients' \subseteq clients PROVE Live'
  <2>1. ASSUME NEW h \in Streams, h \notin dropped
        PROVE  /\ Contiguous(Seen(h))'
               /\ h \in clients' => LastLineIs((Seen(h))', Published')
    <3>1. Contiguous(Seen(h)) /\ (h \in clients => LastLineIs(Seen(h), Published))
      BY <2>1 DEF IInv, Live
    <3>2. (Seen(h))' = Seen(h)
      OBVIOUS
    <3>3. Contiguous(Seen(h))'
      BY <3>1, <3>2 DEF Contiguous
    <3>4. QED
      BY <1>1, <1>2, <3>1, <3>2, <3>3
  <2>2. QED
    BY <2>1 DEF Live
<1>3. ASSUME \A h \in Streams :
                 /\ hpc'[h] = "subscribe" \/ h \in clients' => hpc[h] = "subscribe" \/ h \in clients
                 /\ replayed[h] \subseteq replayed'[h] /\ missed[h] \subseteq missed'[h],
             ToSet(log') \subseteq ToSet(log)
      PROVE  Covered'
  <2>1. ASSUME NEW h \in Streams, h \notin dropped, hpc'[h] = "subscribe" \/ h \in clients'
        PROVE  ToSet(log') \ ToSet(pending)
                 \subseteq replayed'[h] \cup missed'[h] \cup ToSet(Seen(h))'
    <3>1. ToSet(log) \ ToSet(pending) \subseteq replayed[h] \cup missed[h] \cup ToSet(Seen(h))
      BY <1>3, <2>1 DEF IInv, Covered
    <3>2. (Seen(h))' = Seen(h)
      OBVIOUS
    <3>3. ToSet(Seen(h))' = ToSet(Seen(h))
      BY <3>2 DEF ToSet
    <3>4. QED
      BY <1>3, <3>1, <3>3
  <2>2. ToSet(pending)' = ToSet(pending)
    BY DEF ToSet
  <2>3. ToSet(log)' = ToSet(log')
    BY DEF ToSet
  <2>4. QED
    BY <2>1, <2>2, <2>3 DEF Covered
<1>4. QED
  BY <1>1, <1>2, <1>3

LEMMA SilentWorkerIInv ==
    ASSUME IInv, InstallFails \/ OpenLog \/ AllInstalled \/ SetStatus PROVE IInv'
<1>1. UNCHANGED <<line, pending, broadcaster, handlers, losses>>
        /\ (log' = log \/ log' = <<>>)
  BY DEF InstallFails, OpenLog, AllInstalled, SetStatus
<1>2. TypeOK'
  <2>1. service' \in 0..NumServices
    BY StreamAssumption DEF IInv, TypeOK, InstallFails, OpenLog, AllInstalled, SetStatus
  <2>2. /\ wpc' \in {"next", "announce", "script", "end", "done"}
        /\ result' \in {"none", "completed", "failed"}
    BY DEF IInv, TypeOK, InstallFails, OpenLog, AllInstalled, SetStatus
  <2>3. status' \in {"running", "completed", "failed"}
    <3>1. CASE SetStatus
      BY <3>1 DEF IInv, TypeOK, Pending, SetStatus
    <3>2. CASE ~SetStatus
      BY <3>2 DEF IInv, TypeOK, InstallFails, OpenLog, AllInstalled
    <3>3. QED
      BY <3>1, <3>2
  <2>4. log' \in Seq(Lines)
    BY <1>1, NothingSeen DEF IInv, TypeOK
  <2>5. QED
    BY <1>1, <2>1, <2>2, <2>3, <2>4 DEF IInv, TypeOK, broadcaster, handlers, losses
<1>3. Subscribed'
  BY <1>1 DEF IInv, Subscribed, broadcaster, handlers
<1>4. \A h \in Streams : (Seen(h))' = Seen(h)
  BY <1>1 DEF Seen, broadcaster, handlers
<1>5. Published' = Published /\ Live'
  BY <1>1, <1>4, NothingMoreIsSeen DEF broadcaster, losses
<1>6. Pending'
  <2>1. wpc' = "end" => result' # "none"
    BY DEF IInv, Pending, InstallFails, OpenLog, AllInstalled, SetStatus
  <2>2. QED
    BY <1>1, <1>5, <2>1 DEF IInv, Pending
<1>7. ToSet(log') \subseteq ToSet(log)
  BY <1>1, NothingSeen
<1>8. Covered'
  BY <1>1, <1>4, <1>7, NothingMoreIsSeen DEF broadcaster, handlers, losses
<1>9. QED
  BY <1>2, <1>3, <1>5, <1>6, <1>8 DEF IInv

LEMMA DeployNothingIInv == ASSUME IInv, DeployNothing PROVE IInv'
<1>1. 0 \in Lines
  BY StreamAssumption DEF Lines
<1>2. /\ Publish(0) /\ UNCHANGED <<wpc, line, pending, log, result, status>>
      /\ UNCHANGED <<hpc, ended, replayed, got>>
      /\ (wpc' # "end" \/ wpc' = wpc)
  BY DEF DeployNothing, handlers
<1>3. /\ Subscribed' /\ Pending' /\ Live' /\ Covered'
      /\ channel' \in [Streams -> Seq(Lines)] /\ missed' \in [Streams -> SUBSET Lines]
      /\ dropped' \subseteq Streams /\ UNCHANGED <<clients, closed>>
  BY <1>1, <1>2, PublishKeeps
<1>4. service' \in 0..NumServices
  BY StreamAssumption DEF IInv, TypeOK, DeployNothing
<1>5. QED
  BY <1>2, <1>3, <1>4 DEF IInv, TypeOK

LEMMA AnnounceIInv == ASSUME IInv, Announce PROVE IInv'
<1>1. 0 \in Lines
  BY StreamAssumption DEF Lines
<1>2. /\ Publish(0) /\ UNCHANGED <<service, line, pending, log, result, status>>
      /\ UNCHANGED <<hpc, ended, replayed, got>>
      /\ (wpc' # "end" \/ wpc' = wpc)
  BY DEF Announce, handlers
<1>3. /\ Subscribed' /\ Pending' /\ Live' /\ Covered'
      /\ channel' \in [Streams -> Seq(Lines)] /\ missed' \in [Streams -> SUBSET Lines]
      /\ dropped' \subseteq Streams /\ UNCHANGED <<clients, closed>>
  BY <1>1, <1>2, PublishKeeps
<1>4. wpc' = "script"
  BY DEF Announce
<1>5. QED
  BY <1>2, <1>3, <1>4 DEF IInv, TypeOK

LEMMA PublishLineIInv == ASSUME IInv, PublishLine PROVE IInv'
<1>1. Head(pending) \in Lines
  BY PendingHead DEF IInv, PublishLine
<1>2. /\ Publish(Head(pending)) /\ UNCHANGED <<wpc, service, line, log, result, status>>
      /\ UNCHANGED <<hpc, ended, replayed, got>>
      /\ pending # <<>> /\ pending' = Tail(pending)
      /\ (wpc' # "end" \/ wpc' = wpc)
  BY DEF PublishLine, handlers
<1>3. /\ Subscribed' /\ Pending' /\ Live' /\ Covered'
      /\ channel' \in [Streams -> Seq(Lines)] /\ missed' \in [Streams -> SUBSET Lines]
      /\ dropped' \subseteq Streams /\ UNCHANGED <<clients, closed>>
      /\ pending' \in Seq(Lines)
  BY <1>1, <1>2, PublishKeeps
<1>4. QED
  BY <1>2, <1>3 DEF IInv, TypeOK

LEMMA WriteChunkIInv == ASSUME IInv, WriteChunk PROVE IInv'
<1>1. PICK n \in 1..MaxChunk :
         /\ line + n <= MaxLines
         /\ pending' = [i \in 1..n |-> line + i]
         /\ line' = line + n
  BY DEF WriteChunk
<1>2. /\ pending = <<>> /\ log' = log \o pending'
      /\ UNCHANGED <<wpc, service, result, status>>
      /\ UNCHANGED <<clients, channel, closed, hpc, ended, replayed, got, missed, dropped>>
  BY DEF WriteChunk, broadcaster, handlers, losses
<1>3. n \in Nat /\ line \in Nat /\ MaxLines \in Nat /\ n >= 1 /\ line' \in Lines
  BY <1>1, StreamAssumption DEF IInv, TypeOK, Lines
<1>4. \A i \in 1..n : line + i \in Lines
  BY <1>1, <1>3 DEF Lines
<1>5. /\ pending' \in Seq(Lines) /\ Len(pending') = n
      /\ \A i \in 1..n : pending'[i] = line + i
  <2>1. pending' \in [1..n -> Lines]
    BY <1>1, <1>4
  <2>2. pending' \in Seq(Lines)
    BY <1>3, <2>1, SeqDef
  <2>3. DOMAIN pending' = 1..n /\ Len(pending') \in Nat /\ DOMAIN pending' = 1..Len(pending')
    BY <2>1, <2>2, LenProperties
  <2>4. Len(pending') = n
    BY <1>3, <2>2, <2>3
  <2>5. QED
    BY <1>1, <2>2, <2>4
<1>6. Published = line /\ Published' = line
  <2>1. Len(pending) = 0
    BY <1>2, NothingSeen
  <2>2. QED
    BY <1>1, <1>3, <1>5, <2>1 DEF Published
<1>7. log' \in Seq(Lines) /\ ToSet(log') = ToSet(log) \cup ToSet(pending')
  BY <1>2, <1>5, ConcatProperties, ToSetConcat DEF IInv, TypeOK
<1>8. TypeOK'
  BY <1>2, <1>3, <1>5, <1>7 DEF IInv, TypeOK
<1>9. Subscribed'
  BY <1>2 DEF IInv, Subscribed
<1>10. Pending'
  BY <1>1, <1>2, <1>3, <1>5, <1>6 DEF IInv, Pending
<1>11. Live'
  <2>1. ASSUME NEW h \in Streams, h \notin dropped
        PROVE  /\ Contiguous(Seen(h))'
               /\ h \in clients => LastLineIs((Seen(h))', Published')
    <3>1. Contiguous(Seen(h)) /\ (h \in clients => LastLineIs(Seen(h), Published))
      BY <2>1 DEF IInv, Live
    <3>2. (Seen(h))' = Seen(h)
      BY <1>2 DEF Seen
    <3>3. Contiguous(Seen(h))'
      BY <3>1, <3>2 DEF Contiguous
    <3>4. QED
      BY <1>6, <3>1, <3>2, <3>3
  <2>2. QED
    BY <1>2, <2>1 DEF Live
<1>12. Covered'
  <2>1. ToSet(log') \ ToSet(pending') \subseteq ToSet(log) \ ToSet(pending)
    BY <1>2, <1>7, NothingSeen
  <2>2. ASSUME NEW h \in Streams, h \notin dropped, hpc[h] = "subscribe" \/ h \in clients
        PROVE  ToSet(log') \ ToSet(pending')
                 \subseteq replayed[h] \cup missed[h] \cup ToSet(Seen(h))'
    <3>1. ToSet(log) \ ToSet(pending) \subseteq replayed[h] \cup missed[h] \cup ToSet(Seen(h))
      BY <2>2 DEF IInv, Covered
    <3>2. ToSet(Seen(h))' = ToSet(Seen(h))
      BY <1>2 DEF Seen, ToSet
    <3>3. QED
      BY <2>1, <3>1, <3>2
  <2>3. ToSet(log)' = ToSet(log') /\ ToSet(pending)' = ToSet(pending')
    BY DEF ToSet
  <2>4. QED
    BY <1>2, <2>2, <2>3 DEF Covered
<1>13. QED
  BY <1>8, <1>9, <1>10, <1>11, <1>12 DEF IInv

LEMMA ScriptExitsIInv == ASSUME IInv, ScriptExits PROVE IInv'
<1>1. /\ closed' = closed \cup clients /\ clients' = {}
      /\ UNCHANGED <<service, line, pending, log, status, channel, hpc, ended, replayed,
                     got, missed, dropped>>
      /\ wpc' \in {"next", "end"} /\ result' \in {result, "failed"}
  BY DEF ScriptExits, CloseClients, handlers, losses
<1>2. TypeOK'
  BY <1>1 DEF IInv, TypeOK
<1>3. Subscribed'
  BY <1>1 DEF IInv, Subscribed
<1>4. \A h \in Streams : (Seen(h))' = Seen(h)
  BY <1>1 DEF Seen
<1>5. Published' = Published /\ Live' /\ Covered'
  BY <1>1, <1>4, NothingMoreIsSeen
<1>6. Pending'
  BY <1>1, <1>5 DEF IInv, Pending, ScriptExits
<1>7. QED
  BY <1>2, <1>3, <1>5, <1>6 DEF IInv

-----------------------------------------------------------------------------
LEMMA CheckStatusIInv ==
    ASSUME IInv, NEW h \in Streams, CheckStatus(h) PROVE IInv'
<1>1. /\ UNCHANGED <<wpc, service, line, pending, log, result, status, clients, channel,
                     closed, replayed, got, missed, dropped>>
      /\ hpc[h] = "new" /\ hpc' = [hpc EXCEPT ![h] = "replay"]
  BY DEF CheckStatus, worker, broadcaster, losses
<1>2. ended' \in [Streams -> BOOLEAN]
  BY DEF CheckStatus, IInv, TypeOK
<1>3. TypeOK'
  BY <1>1, <1>2 DEF IInv, TypeOK
<1>a. hpc'[h] = "replay" /\ \A g \in Streams \ {h} : hpc'[g] = hpc[g]
  BY <1>1 DEF IInv, TypeOK
<1>4. Subscribed'
  BY <1>1, <1>a DEF IInv, TypeOK, Subscribed
<1>5. \A g \in Streams : (Seen(g))' = Seen(g)
  BY <1>1 DEF Seen
<1>6. Published' = Published /\ Live' /\ Covered'
  BY <1>1, <1>a, <1>5, NothingMoreIsSeen
<1>7. Pending'
  BY <1>1, <1>6 DEF IInv, Pending
<1>8. QED
  BY <1>3, <1>4, <1>6, <1>7 DEF IInv

LEMMA ReplayIInv ==
    ASSUME IInv, NEW h \in Streams, Replay(h) PROVE IInv'
<1>1. /\ UNCHANGED <<wpc, service, line, pending, log, result, status, clients, channel,
                     closed, ended, got, missed, dropped>>
      /\ hpc[h] = "replay"
      /\ hpc' = [hpc EXCEPT ![h] = IF ended[h] THEN "done" ELSE "subscribe"]
      /\ replayed' = [replayed EXCEPT ![h] = ToSet(log)]
  BY DEF Replay, worker, broadcaster, losses
<1>2. ToSet(log) \subseteq Lines
  BY ToSetType DEF IInv, TypeOK
<1>3. TypeOK'
  BY <1>1, <1>2 DEF IInv, TypeOK
<1>a. /\ hpc'[h] \in {"done", "subscribe"} /\ \A g \in Streams \ {h} : hpc'[g] = hpc[g]
      /\ replayed'[h] = ToSet(log) /\ \A g \in Streams \ {h} : replayed'[g] = replayed[g]
  BY <1>1 DEF IInv, TypeOK
<1>4. Subscribed'
  BY <1>1, <1>a DEF IInv, TypeOK, Subscribed
<1>b. \A g \in Streams : (Seen(g))' = Seen(g)
  BY <1>1 DEF Seen
<1>c. Published' = Published /\ Live'
  BY <1>1, <1>b, NothingMoreIsSeen
<1>5. Pending'
  BY <1>1, <1>c DEF IInv, Pending
<1>6. ASSUME NEW g \in Streams, g \notin dropped, hpc'[g] = "subscribe" \/ g \in clients
      PROVE  ToSet(log) \ ToSet(pending) \subseteq replayed'[g] \cup missed[g] \cup ToSet(Seen(g))
  BY <1>a, <1>6 DEF IInv, Covered
<1>7. Covered'
  <2>1. ToSet(log)' = ToSet(log) /\ ToSet(pending)' = ToSet(pending)
    BY <1>1 DEF ToSet
  <2>2. \A g \in Streams : ToSet(Seen(g))' = ToSet(Seen(g))
    BY <1>b DEF ToSet
  <2>3. QED
    BY <1>1, <1>6, <2>1, <2>2 DEF Covered
<1>8. QED
  BY <1>3, <1>4, <1>5, <1>7, <1>c DEF IInv

LEMMA SubscribeIInv ==
    ASSUME IInv, NEW h \in Streams, Subscribe(h) PROVE IInv'
<1>1. /\ UNCHANGED <<wpc, service, line, pending, log, result, status, channel, closed,
                     ended, replayed, got, missed, dropped>>
      /\ hpc[h] = "subscribe" /\ hpc' = [hpc EXCEPT ![h] = "follow"]
      /\ clients' = clients \cup {h}
  BY DEF Subscribe, worker, losses
<1>2. TypeOK'
  BY <1>1 DEF IInv, TypeOK
<1>a. hpc'[h] = "follow" /\ \A g \in Streams \ {h} : hpc'[g] = hpc[g]
  BY <1>1 DEF IInv, TypeOK
<1>3. Subscribed'
  BY <1>1, <1>a DEF IInv, TypeOK, Subscribed
<1>4. Seen(h) = <<>>
  BY <1>1, NothingSeen DEF IInv, Subscribed, Seen
<1>5. Published \in Nat
  <2>1. line \in Nat /\ Len(pending) \in Nat
    BY StreamAssumption, LenProperties DEF IInv, TypeOK, Lines
  <2>2. QED
    BY <2>1 DEF IInv, Pending, Published
<1>6. Pending'
  BY <1>1 DEF IInv, Pending, Published
<1>7. LastLineIs(Seen(h), Published)
  BY <1>4, <1>5, NothingSeen
<1>b. \A g \in Streams : (Seen(g))' = Seen(g)
  BY <1>1 DEF Seen
<1>8. Published' = Published /\ Covered'
  BY <1>1, <1>a, <1>b, NothingMoreIsSeen
<1>9. Live'
  <2>1. ASSUME NEW g \in Streams, g \notin dropped
        PROVE  /\ Contiguous(Seen(g))'
               /\ g \in clients' => LastLineIs((Seen(g))', Published')
    <3>1. /\ Contiguous(Seen(g))
          /\ g \in clients => LastLineIs(Seen(g), Published)
      BY <2>1 DEF IInv, Live
    <3>2. (Seen(g))' = Seen(g)
      BY <1>b
    <3>3. Contiguous(Seen(g))'
      BY <3>1, <3>2 DEF Contiguous
    <3>4. g \in clients' => LastLineIs(Seen(g), Published)
      BY <1>1, <1>7, <3>1
    <3>5. QED
      BY <1>8, <3>2, <3>3, <3>4
  <2>2. QED
    BY <1>1, <2>1 DEF Live
<1>10. QED
  BY <1>2, <1>3, <1>6, <1>8, <1>9 DEF IInv

LEMMA ReceiveIInv ==
    ASSUME IInv, NEW h \in Streams, Receive(h) PROVE IInv'
<1>1. /\ UNCHANGED <<wpc, service, line, pending, log, result, status, clients, closed,
                     hpc, ended, replayed, missed, dropped>>
      /\ hpc[h] = "follow" /\ channel[h] # <<>>
      /\ channel' = [channel EXCEPT ![h] = Tail(channel[h])]
      /\ got' = [got EXCEPT ![h] = Append(got[h], Head(channel[h]))]
  BY DEF Receive, worker, losses
<1>2. got[h] \in Seq(Lines) /\ channel[h] \in Seq(Lines)
  BY SeenType DEF IInv
<1>3. /\ Append(got[h], Head(channel[h])) \in Seq(Lines) /\ Tail(channel[h]) \in Seq(Lines)
      /\ Append(got[h], Head(channel[h])) \o Tail(channel[h]) = got[h] \o channel[h]
  BY <1>1, <1>2, ReceivedIsSeen
<1>4. TypeOK'
  BY <1>1, <1>3 DEF IInv, TypeOK
<1>5. ASSUME NEW g \in Streams PROVE (Seen(g))' = Seen(g)
  <2>1. CASE g = h
    BY <1>1, <1>3, <2>1 DEF IInv, TypeOK, Seen
  <2>2. CASE g # h
    BY <1>1, <2>2 DEF IInv, TypeOK, Seen
  <2>3. QED
    BY <2>1, <2>2
<1>6. Subscribed'
  BY <1>1 DEF IInv, TypeOK, Subscribed
<1>7. Published' = Published /\ Live' /\ Covered'
  BY <1>1, <1>5, NothingMoreIsSeen
<1>8. Pending'
  BY <1>1, <1>7 DEF IInv, Pending
<1>9. QED
  BY <1>4, <1>6, <1>7, <1>8 DEF IInv

LEMMA UnsubscribeIInv ==
    ASSUME IInv, NEW h \in Streams, Unsubscribe(h) PROVE IInv'
<1>1. /\ UNCHANGED <<wpc, service, line, pending, log, result, status, channel, closed,
                     ended, replayed, got, missed, dropped>>
      /\ h \in closed /\ clients' = clients \ {h}
      /\ hpc' = [hpc EXCEPT ![h] = IF clients # {} THEN "panicked" ELSE "done"]
  BY DEF Unsubscribe, worker, losses
<1>2. TypeOK'
  BY <1>1 DEF IInv, TypeOK
<1>a. hpc'[h] \in {"panicked", "done"} /\ \A g \in Streams \ {h} : hpc'[g] = hpc[g]
  BY <1>1 DEF IInv, TypeOK
<1>3. Subscribed'
  BY <1>1, <1>a DEF IInv, TypeOK, Subscribed
<1>4. \A g \in Streams : (Seen(g))' = Seen(g)
  BY <1>1 DEF Seen
<1>5. Published' = Published /\ Live' /\ Covered'
  BY <1>1, <1>a, <1>4, NothingMoreIsSeen
<1>6. Pending'
  BY <1>1, <1>5 DEF IInv, Pending
<1>7. QED
  BY <1>2, <1>3, <1>5, <1>6 DEF IInv

LEMMA NextIInv == IInv /\ [Next]_vars => IInv'
<1> SUFFICES ASSUME IInv, [Next]_vars PROVE IInv'
  OBVIOUS
<1>1. ASSUME Worker PROVE IInv'
  BY <1>1, SilentWorkerIInv, DeployNothingIInv, AnnounceIInv, WriteChunkIInv,
     PublishLineIInv, ScriptExitsIInv DEF Worker
<1>2. ASSUME NEW h \in Streams, Handler(h) PROVE IInv'
  BY <1>2, CheckStatusIInv, ReplayIInv, SubscribeIInv, ReceiveIInv, UnsubscribeIInv
     DEF Handler
<1>3. CASE UNCHANGED vars
  <2>1. UNCHANGED <<wpc, service, line, pending, log, result, status, clients, channel,
                    closed, hpc, ended, replayed, got, missed, dropped>>
    BY <1>3 DEF vars, worker, broadcaster, handlers, losses
  <2>2. TypeOK' /\ Subscribed'
    BY <2>1 DEF IInv, TypeOK, Subscribed
  <2>3. \A g \in Streams : (Seen(g))' = Seen(g)
    BY <2>1 DEF Seen
  <2>4. Published' = Published /\ Live' /\ Covered'
    BY <2>1, <2>3, NothingMoreIsSeen
  <2>5. Pending'
    BY <2>1, <2>4 DEF IInv, Pending
  <2>6. QED
    BY <2>2, <2>4, <2>5 DEF IInv
<1>4. QED
  BY <1>1, <1>2, <1>3 DEF Next

LEMMA IInvHolds == Spec => []IInv
<1>1. QED
  BY InitIInv, NextIInv, PTL DEF Spec

-----------------------------------------------------------------------------
(* Publish of the Broadcaster never meets a closed channel: one that Close *)
(* or Unsubscribe closed is in no client set any more, however many        *)
(* streams come and go and however many scripts end.                       *)
THEOREM NeverSendsOnClosed == Spec => []NoSendOnClosed
<1>1. IInv => NoSendOnClosed
  BY DEF IInv, Subscribed, NoSendOnClosed
<1>2. QED
  BY <1>1, IInvHolds, PTL

(* What a stream delivers live is a contiguous run of the lines of the     *)
(* scripts, unless its channel was full when one came; and of the lines of *)
(* the log that were published it lacks only those of the window between   *)
(* the end of its replay and its subscription.                             *)
THEOREM OutputStaysHonest == Spec => []OutputIsHonest
<1>1. IInv => OutputIsHonest
  <2> SUFFICES ASSUME IInv PROVE OutputIsHonest
    OBVIOUS
  <2>1. LiveIsContiguous
    BY DEF IInv, Live, Seen, Contiguous, LiveIsContiguous
  <2>2. OnlyWindowIsLost
    BY DEF IInv, TypeOK, Subscribed, Covered, Seen, OnlyWindowIsLost
  <2>3. QED
    BY <2>1, <2>2 DEF IInv, OutputIsHonest
<1>2. QED
  BY <1>1, IInvHolds, PTL

-----------------------------------------------------------------------------
(* What CloseEndsStream rests on, but for fairness.  A stream whose        *)
(* channel is closed follows it still, or has ended with nothing left.     *)
DrainedAtTheEnd ==
    /\ \A h \in closed : hpc[h] \in {"follow", "done", "panicked"}
    /\ \A h \in Streams : hpc[h] \in {"done", "panicked"} => channel[h] = <<>>

(* A closed channel gets nothing new: what is taken from it goes to the    *)
(* client.                                                                 *)
Drains(h) ==
    /\ h \in closed'
    /\ \/ channel'[h] = channel[h] /\ got'[h] = got[h]
       \/ channel'[h] = Tail(channel[h]) /\ Len(channel'[h]) < Len(channel[h])
            /\ got'[h] = Append(got[h], Head(channel[h]))
ClosedOnlyDrain == \A h \in closed : Drains(h)

LEMMA DrainStep == ASSUME IInv, DrainedAtTheEnd, [Next]_vars PROVE DrainedAtTheEnd' /\ ClosedOnlyDrain
<1>1. TypeOK /\ Subscribed /\ Subscribed'
  BY NextIInv DEF IInv
<1>2. ASSUME \A h \in Streams : hpc'[h] \in {"done", "panicked"} => channel'[h] = <<>>
      PROVE  DrainedAtTheEnd'
  BY <1>1, <1>2 DEF DrainedAtTheEnd, Subscribed
<1>3. ASSUME UNCHANGED <<channel, got>>, closed \subseteq closed'
      PROVE  ClosedOnlyDrain
  BY <1>3 DEF ClosedOnlyDrain, Drains
<1>4. ASSUME NEW m, Publish(m), UNCHANGED <<hpc, got>> PROVE DrainedAtTheEnd' /\ ClosedOnlyDrain
  <2>1. \A h \in Streams \ clients : channel'[h] = channel[h]
    BY <1>4 DEF Publish
  <2>2. closed \subseteq Streams \ clients /\ closed' = closed
    BY <1>1, <1>4 DEF TypeOK, Subscribed, Publish
  <2>3. ClosedOnlyDrain
    BY <1>4, <2>1, <2>2 DEF ClosedOnlyDrain, Drains
  <2>4. \A h \in Streams : hpc'[h] \in {"done", "panicked"} => channel'[h] = <<>>
    BY <1>1, <1>4, <2>1 DEF DrainedAtTheEnd, Subscribed
  <2> QED
    BY <1>2, <2>3, <2>4
<1>5. ASSUME UNCHANGED <<channel, got, hpc>>, closed \subseteq closed' PROVE DrainedAtTheEnd' /\ ClosedOnlyDrain
  BY <1>2, <1>3, <1>5 DEF DrainedAtTheEnd
<1>6. ASSUME DeployNothing \/ Announce \/ PublishLine PROVE DrainedAtTheEnd' /\ ClosedOnlyDrain
  BY <1>4, <1>6 DEF DeployNothing, Announce, PublishLine, handlers
<1>7. ASSUME InstallFails \/ OpenLog \/ WriteChunk \/ ScriptExits \/ AllInstalled \/ SetStatus
      PROVE  DrainedAtTheEnd' /\ ClosedOnlyDrain
  BY <1>5, <1>7 DEF InstallFails, OpenLog, WriteChunk, ScriptExits, AllInstalled, SetStatus, CloseClients,
     handlers, broadcaster
<1>8. ASSUME NEW h \in Streams, CheckStatus(h) \/ Replay(h) \/ Subscribe(h) \/ Unsubscribe(h)
      PROVE  DrainedAtTheEnd' /\ ClosedOnlyDrain
  <2>1. UNCHANGED <<channel, got, closed>>
    BY <1>8 DEF CheckStatus, Replay, Subscribe, Unsubscribe, broadcaster
  <2>2. \A g \in Streams \ {h} : hpc'[g] = hpc[g]
    BY <1>1, <1>8 DEF CheckStatus, Replay, Subscribe, Unsubscribe, TypeOK
  <2>3. channel[h] = <<>>
    BY <1>1, <1>8 DEF CheckStatus, Replay, Subscribe, Unsubscribe, Subscribed
  <2>4. \A g \in Streams : hpc'[g] \in {"done", "panicked"} => channel'[g] = <<>>
    BY <2>1, <2>2, <2>3 DEF DrainedAtTheEnd
  <2> QED
    BY <1>2, <1>3, <2>1, <2>4
<1>9. ASSUME NEW h \in Streams, Receive(h) PROVE DrainedAtTheEnd' /\ ClosedOnlyDrain
  <2>1. /\ channel' = [channel EXCEPT ![h] = Tail(channel[h])]
        /\ got' = [got EXCEPT ![h] = Append(got[h], Head(channel[h]))]
        /\ UNCHANGED <<hpc, closed>> /\ hpc[h] = "follow" /\ channel[h] # <<>>
    BY <1>9 DEF Receive
  <2>2. \A g \in Streams \ {h} : channel'[g] = channel[g] /\ got'[g] = got[g]
    BY <1>1, <2>1 DEF TypeOK
  <2>3. channel'[h] = Tail(channel[h]) /\ got'[h] = Append(got[h], Head(channel[h]))
    BY <1>1, <2>1 DEF TypeOK
  <2>4. Len(channel'[h]) < Len(channel[h])
    BY <1>1, <2>1, <2>3, HeadTailProperties, LenProperties DEF TypeOK
  <2>5. ClosedOnlyDrain
    BY <1>1, <2>1, <2>2, <2>3, <2>4 DEF ClosedOnlyDrain, Drains, TypeOK
  <2>6. \A g \in Streams : hpc'[g] \in {"done", "panicked"} => channel'[g] = <<>>
    BY <2>1, <2>2 DEF DrainedAtTheEnd
  <2> QED
    BY <1>2, <2>5, <2>6
<1>10. ASSUME UNCHANGED vars PROVE DrainedAtTheEnd' /\ ClosedOnlyDrain
  BY <1>5, <1>10 DEF vars, broadcaster, handlers
<1> QED
  BY <1>6, <1>7, <1>8, <1>9, <1>10 DEF Next, Worker, Handler

(* However the worker closes streams and streams come and go: a stream     *)
(* whose channel was closed ends only when it has delivered what the       *)
(* channel held, and nothing is added to a closed channel, so that it      *)
(* ends after as many messages as were buffered.                           *)
THEOREM ClosedStreamsDrain == Spec => []DrainedAtTheEnd /\ [][ClosedOnlyDrain]_vars
<1>1. Init => IInv /\ DrainedAtTheEnd
  <2>1. Init => DrainedAtTheEnd
    BY DEF Init, DrainedAtTheEnd
  <2> QED
    BY <2>1, InitIInv
<1>2. IInv /\ DrainedAtTheEnd /\ [Next]_vars => (IInv /\ DrainedAtTheEnd)'
  BY DrainStep, NextIInv
<1>3. IInv /\ DrainedAtTheEnd /\ [Next]_vars => [ClosedOnlyDrain]_vars
  BY DrainStep
<1> QED
  BY <1>1, <1>2, <1>3, PTL DEF Spec
=============================================================================
