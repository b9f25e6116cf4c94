------------------------------- MODULE RpcProofs -------------------------------
(***************************************************************************)
(* The safety of RpcSession for every number of events, messages,          *)
(* requests, failures and connections.  The invariant counts packets and   *)
(* frames: each request is in exactly one place, as a packet, as a frame   *)
(* that serves it or as an answer, and so is the right to report the next  *)
(* event.                                                                  *)
(***************************************************************************)
EXTENDS RpcSession, FiniteSetTheorems, SequenceTheorems, TLAPS

USE BoundsAssumption

-----------------------------------------------------------------------------
(* Counting in sequences                                                   *)

At(q, S) == {i \in DOMAIN q : q[i] \in S}
Count(q, S) == Cardinality(At(q, S))

LEMMA CountIsNat ==
  ASSUME NEW X, NEW q \in Seq(X), NEW S
  PROVE  /\ IsFiniteSet(At(q, S))
         /\ Count(q, S) \in Nat
         /\ Count(q, S) = 0 <=> \A i \in DOMAIN q : q[i] \notin S
<1>1. DOMAIN q = 1 .. Len(q) /\ Len(q) \in Nat
  BY LenProperties
<1>2. IsFiniteSet(1 .. Len(q))
  BY <1>1, FS_Interval
<1>3. At(q, S) \in SUBSET (1 .. Len(q))
  BY <1>1 DEF At
<1>4. IsFiniteSet(At(q, S))
  BY <1>2, <1>3, FS_Subset
<1>5. At(q, S) = {} <=> \A i \in DOMAIN q : q[i] \notin S
  BY DEF At
<1> QED
  BY <1>4, <1>5, FS_CardinalityType, FS_EmptySet DEF Count

LEMMA CountAppend ==
  ASSUME NEW X, NEW q \in Seq(X), NEW x \in X, NEW S
  PROVE  Count(Append(q, x), S) = IF x \in S THEN Count(q, S) + 1 ELSE Count(q, S)
<1> DEFINE a == Append(q, x)
           n == Len(q) + 1
<1>1. /\ a \in Seq(X)
      /\ Len(a) = n
      /\ \A i \in 1 .. Len(q) : a[i] = q[i]
      /\ a[n] = x
  BY AppendProperties
<1>2. DOMAIN q = 1 .. Len(q) /\ Len(q) \in Nat
  BY LenProperties
<1>3. DOMAIN a = 1 .. n
  BY <1>1, LenProperties
<1>4. 1 .. n = (1 .. Len(q)) \cup {n} /\ n \notin 1 .. Len(q)
  BY <1>2
<1>5. IsFiniteSet(At(q, S)) /\ Count(q, S) \in Nat
  BY CountIsNat
<1>6. n \notin At(q, S)
  BY <1>2, <1>4 DEF At
<1>7. At(a, S) = IF x \in S THEN At(q, S) \cup {n} ELSE At(q, S)
  <2> HIDE DEF a, n
  <2> QED
    BY <1>1, <1>2, <1>3, <1>4 DEF At
<1>8. Cardinality(At(q, S) \cup {n}) = Cardinality(At(q, S)) + 1
  BY <1>5, <1>6, FS_AddElement
<1> QED
  BY <1>5, <1>7, <1>8 DEF Count

LEMMA CountTail ==
  ASSUME NEW X, NEW q \in Seq(X), q # <<>>, NEW S
  PROVE  Count(Tail(q), S) = IF Head(q) \in S THEN Count(q, S) - 1 ELSE Count(q, S)
<1> DEFINE r == Tail(q)
           later == At(q, S) \ {1}
           next == [i \in At(r, S) |-> i + 1]
<1>1. /\ r \in Seq(X)
      /\ Len(r) = Len(q) - 1
      /\ \A i \in 1 .. Len(r) : r[i] = q[i + 1]
  BY HeadTailProperties
<1>2. DOMAIN q = 1 .. Len(q) /\ Len(q) \in Nat \ {0}
  BY LenProperties, EmptySeq
<1>3. DOMAIN r = 1 .. Len(q) - 1
  BY <1>1, LenProperties
<1>4. Head(q) = q[1]
  OBVIOUS
<1>5. At(r, S) \subseteq Nat
  BY <1>2, <1>3 DEF At
<1>6. \A i \in At(r, S) : i + 1 \in later
  BY <1>1, <1>2, <1>3 DEF At
<1>7. \A j \in later : j - 1 \in At(r, S) /\ j = (j - 1) + 1
  BY <1>1, <1>2, <1>3 DEF At
<1>8. ExistsBijection(At(r, S), later)
  <2> HIDE DEF r, later
  <2>1. next \in [At(r, S) -> later]
    BY <1>6
  <2>2. \A i, j \in At(r, S) : next[i] = next[j] => i = j
    BY <1>5
  <2>3. \A j \in later : \E i \in At(r, S) : next[i] = j
    BY <1>7
  <2> HIDE DEF next
  <2>4. next \in Bijection(At(r, S), later)
    BY <2>1, <2>2, <2>3 DEF Bijection, Injection, Surjection, IsInjective
  <2> QED
    BY <2>4 DEF ExistsBijection
<1>9. /\ IsFiniteSet(At(r, S)) /\ Count(r, S) \in Nat
      /\ IsFiniteSet(At(q, S)) /\ Count(q, S) \in Nat
  BY <1>1, CountIsNat
<1>10. Cardinality(later) = Count(r, S)
  BY <1>8, <1>9, FS_Bijection DEF Count
<1>11. Cardinality(later) = IF 1 \in At(q, S) THEN Count(q, S) - 1 ELSE Count(q, S)
  BY <1>9, FS_RemoveElement DEF Count
<1>12. 1 \in At(q, S) <=> Head(q) \in S
  BY <1>2, <1>4 DEF At
<1> QED
  BY <1>9, <1>10, <1>11, <1>12

\* A sequence without its last element
Front(q) == SubSeq(q, 1, Len(q) - 1)

LEMMA FrontProperties ==
  ASSUME NEW X, NEW q \in Seq(X), q # <<>>
  PROVE  /\ Front(q) \in Seq(X)
         /\ Len(Front(q)) = Len(q) - 1
         /\ \A i \in 1 .. Len(q) - 1 : Front(q)[i] = q[i]
         /\ Append(Front(q), q[Len(q)]) = q
         /\ q[Len(q)] \in X
         /\ Len(q) \in Nat \ {0}
<1> DEFINE n == Len(q)
           r == Front(q)
<1>1. n \in Nat \ {0} /\ DOMAIN q = 1 .. n /\ \A i \in 1 .. n : q[i] \in X
  BY LenProperties, EmptySeq, ElementOfSeq
<1>2. /\ r \in Seq(X)
      /\ Len(r) = IF 1 <= n - 1 THEN n - 1 - 1 + 1 ELSE 0
      /\ \A i \in 1 .. n - 1 - 1 + 1 : r[i] = q[1 + i - 1]
  <2>1. \A i \in 1 .. n - 1 : q[i] \in X
    BY <1>1
  <2>2. 1 \in Int /\ n - 1 \in Int
    BY <1>1
  <2> HIDE DEF n
  <2> QED
    BY <2>1, <2>2, SubSeqProperties DEF r, Front, n
<1> HIDE DEF n, r
<1>3. Len(r) = n - 1 /\ \A i \in 1 .. n - 1 : r[i] = q[i]
  <2>1. ASSUME NEW i \in 1 .. n - 1 PROVE i \in 1 .. n - 1 - 1 + 1 /\ 1 + i - 1 = i
    BY <1>1
  <2> QED
    BY <1>1, <1>2, <2>1
<1>4. Append(r, q[n]) = q
  <2> DEFINE a == Append(r, q[n])
  <2>1. /\ a \in Seq(X) /\ Len(a) = n - 1 + 1
        /\ \A i \in 1 .. n - 1 : a[i] = r[i]
        /\ a[n - 1 + 1] = q[n]
    BY <1>1, <1>2, <1>3, AppendProperties
  <2> HIDE DEF a
  <2>2. \A i \in 1 .. n : a[i] = q[i]
    BY <1>1, <1>3, <2>1
  <2>3. Len(a) = Len(q)
    BY <1>1, <2>1 DEF n
  <2>4. n = Len(q)
    BY DEF n
  <2>5. a = q
    BY <2>1, <2>2, <2>3, <2>4, SeqEqual
  <2> QED
    BY <2>5 DEF a
<1>5. q[n] \in X
  BY <1>1
<1>6. r \in Seq(X) /\ n \in Nat \ {0}
  BY <1>1, <1>2
<1> QED
  BY <1>3, <1>4, <1>5, <1>6 DEF n, r

LEMMA CountFront ==
  ASSUME NEW X, NEW q \in Seq(X), q # <<>>, NEW S
  PROVE  Count(Front(q), S) = IF q[Len(q)] \in S THEN Count(q, S) - 1 ELSE Count(q, S)
<1> DEFINE r == Front(q)
           x == q[Len(q)]
<1>1. r \in Seq(X) /\ x \in X /\ Append(r, x) = q
  BY FrontProperties
<1> HIDE DEF r, x
<1>2. Count(Append(r, x), S) = IF x \in S THEN Count(r, S) + 1 ELSE Count(r, S)
  BY <1>1, CountAppend
<1>3. Count(r, S) \in Nat
  BY <1>1, CountIsNat
<1>4. Count(r, S) = IF x \in S THEN Count(q, S) - 1 ELSE Count(q, S)
  BY <1>1, <1>2, <1>3
<1> QED
  BY <1>4 DEF r, x

\* Of two elements that are counted one is not.
LEMMA CountOnce ==
  ASSUME NEW X, NEW q \in Seq(X), NEW S, Count(q, S) <= 1
  PROVE  \A i, j \in At(q, S) : i = j
<1> SUFFICES ASSUME NEW i \in At(q, S), NEW j \in At(q, S), i # j PROVE FALSE
  OBVIOUS
<1>1. IsFiniteSet(At(q, S)) /\ Count(q, S) \in Nat
  BY CountIsNat
<1> DEFINE rest == At(q, S) \ {i}
<1>2. IsFiniteSet(rest) /\ Cardinality(rest) = Count(q, S) - 1
  BY <1>1, FS_RemoveElement DEF Count
<1>3. j \in rest
  OBVIOUS
<1> HIDE DEF rest
<1>4. Cardinality(rest) = 0
  BY <1>1, <1>2, FS_CardinalityType
<1> QED
  BY <1>2, <1>3, <1>4, FS_EmptySet

\* What counts for a larger set counts at least as much.
LEMMA CountMore ==
  ASSUME NEW X, NEW q \in Seq(X), NEW S, NEW T, S \subseteq T
  PROVE  Count(q, S) <= Count(q, T)
<1>1. At(q, S) \subseteq At(q, T) /\ IsFiniteSet(At(q, T))
  BY CountIsNat DEF At
<1> QED
  BY <1>1, FS_Subset DEF Count

-----------------------------------------------------------------------------
(* What is said of the packets on the way and of the frames                *)

IsAnswer(p)  == p.code \in {"OK", "UNK"}
IsNote(p)    == p.code \in {"MSG", "SET_DEBUG_NAMES"}
IsGoodbye(p) == p.code = "OK" /\ p.id = 0

\* From the client
RequestsAre(q, id) == \A i \in DOMAIN q : q[i].code \in Serving => q[i].id = id
NoAck(q)           == \A i \in DOMAIN q : q[i].code # "EVOK"
AckOrder(q)        == \A i, j \in DOMAIN q :
                        i < j /\ q[i].code = "GET_DEBUG_EVENT" => q[j].code # "EVOK"
GoodbyeLast(q)     == \A i \in DOMAIN q : IsGoodbye(q[i]) => i = Len(q)
HasGoodbye(q)      == \E i \in DOMAIN q : IsGoodbye(q[i])

\* From the server
Numbered(q)        == \A i \in DOMAIN q : /\ q[i].code = "EVENT" => q[i].data # 0
                                          /\ IsNote(q[i]) => q[i].id # 0
AnswersAre(q, id)  == \A i \in DOMAIN q : IsAnswer(q[i]) => q[i].id = id
EachOK(q)          == \A i \in DOMAIN q : q[i].code # "UNK"
NoneGiven(q)       == \A i \in DOMAIN q : IsAnswer(q[i]) => q[i].data = 0
AnswerLast(q)      == \A i \in DOMAIN q : IsAnswer(q[i]) => i = Len(q)

FramesAre(q, id)   == \A i \in DOMAIN q : q[i].op \in Serving => q[i].id = id

LEMMA EmptyQueue ==
  ASSUME NEW id
  PROVE  /\ RequestsAre(<<>>, id) /\ NoAck(<<>>) /\ AckOrder(<<>>)
         /\ GoodbyeLast(<<>>) /\ ~HasGoodbye(<<>>)
         /\ Numbered(<<>>) /\ AnswersAre(<<>>, id) /\ EachOK(<<>>) /\ NoneGiven(<<>>)
         /\ AnswerLast(<<>>) /\ FramesAre(<<>>, id)
BY DEF RequestsAre, NoAck, AckOrder, GoodbyeLast, HasGoodbye, Numbered, AnswersAre,
   EachOK, NoneGiven, AnswerLast, FramesAre

LEMMA ReceivedFromClient ==
  ASSUME NEW q \in Seq(Packets), q # <<>>
  PROVE  /\ \A id : RequestsAre(q, id) =>
                      /\ RequestsAre(Tail(q), id)
                      /\ Head(q).code \in Serving => Head(q).id = id
         /\ NoAck(q) => NoAck(Tail(q)) /\ Head(q).code # "EVOK"
         /\ AckOrder(q) => /\ AckOrder(Tail(q))
                           /\ Head(q).code = "GET_DEBUG_EVENT" => NoAck(Tail(q))
         /\ GoodbyeLast(q) => /\ GoodbyeLast(Tail(q))
                              /\ IsGoodbye(Head(q)) => Tail(q) = <<>>
         /\ HasGoodbye(q) <=> IsGoodbye(Head(q)) \/ HasGoodbye(Tail(q))
<1> DEFINE r == Tail(q)
<1>1. /\ r \in Seq(Packets) /\ Len(r) = Len(q) - 1
      /\ \A i \in 1 .. Len(q) - 1 : r[i] = q[i + 1]
  BY HeadTailProperties
<1>2. /\ DOMAIN q = 1 .. Len(q) /\ Len(q) \in Nat \ {0}
      /\ DOMAIN r = 1 .. Len(q) - 1
  BY <1>1, LenProperties, EmptySeq
<1>3. Head(q) = q[1] /\ 1 \in DOMAIN q
  BY <1>2
<1>4. /\ \A i \in DOMAIN r : i + 1 \in DOMAIN q /\ r[i] = q[i + 1] /\ 1 < i + 1
      /\ \A i \in DOMAIN q : i # 1 => i - 1 \in DOMAIN r /\ r[i - 1] = q[i]
      /\ \A i, j \in DOMAIN r : i < j => i + 1 < j + 1
      /\ \A i \in DOMAIN r : i + 1 = Len(q) => i = Len(r)
  <2>1. \A i \in 1 .. Len(q) : i # 1 => i - 1 \in 1 .. Len(q) - 1 /\ r[i - 1] = q[i]
    <3> SUFFICES ASSUME NEW i \in 1 .. Len(q), i # 1
                 PROVE  i - 1 \in 1 .. Len(q) - 1 /\ r[i - 1] = q[i]
      OBVIOUS
    <3>1. i - 1 \in 1 .. Len(q) - 1 /\ i - 1 + 1 = i
      BY <1>2
    <3> HIDE DEF r
    <3> QED
      BY <1>1, <3>1
  <2> HIDE DEF r
  <2> QED
    BY SMTT(20), <1>1, <1>2, <2>1
<1> HIDE DEF r
<1>5. ASSUME NEW id, RequestsAre(q, id)
      PROVE  RequestsAre(r, id) /\ (Head(q).code \in Serving => Head(q).id = id)
  BY <1>3, <1>4, <1>5 DEF RequestsAre
<1>6. NoAck(q) => NoAck(r) /\ Head(q).code # "EVOK"
  BY <1>3, <1>4 DEF NoAck
<1>7. AckOrder(q) => AckOrder(r)
  BY <1>4 DEF AckOrder
<1>8. AckOrder(q) /\ Head(q).code = "GET_DEBUG_EVENT" => NoAck(r)
  BY <1>3, <1>4 DEF AckOrder, NoAck
<1>9. GoodbyeLast(q) => GoodbyeLast(r)
  BY <1>4 DEF GoodbyeLast
<1>10. GoodbyeLast(q) /\ IsGoodbye(Head(q)) => r = <<>>
  <2>1. GoodbyeLast(q) /\ IsGoodbye(Head(q)) => Len(q) = 1
    BY <1>3 DEF GoodbyeLast
  <2>2. Len(q) = 1 => Len(r) = 0
    BY <1>1
  <2> QED
    BY <1>1, <2>1, <2>2, EmptySeq
<1>11. HasGoodbye(q) <=> IsGoodbye(Head(q)) \/ HasGoodbye(r)
  BY <1>3, <1>4 DEF HasGoodbye
<1> QED
  BY <1>5, <1>6, <1>7, <1>8, <1>9, <1>10, <1>11 DEF r

LEMMA ReceivedFromServer ==
  ASSUME NEW q \in Seq(Packets), q # <<>>
  PROVE  /\ Numbered(q) => /\ Numbered(Tail(q))
                           /\ Head(q).code = "EVENT" => Head(q).data # 0
                           /\ IsNote(Head(q)) => Head(q).id # 0
         /\ \A id : AnswersAre(q, id) =>
                      /\ AnswersAre(Tail(q), id)
                      /\ IsAnswer(Head(q)) => Head(q).id = id
         /\ EachOK(q) => EachOK(Tail(q)) /\ Head(q).code # "UNK"
         /\ NoneGiven(q) => /\ NoneGiven(Tail(q))
                            /\ IsAnswer(Head(q)) => Head(q).data = 0
         /\ AnswerLast(q) => /\ AnswerLast(Tail(q))
                             /\ IsAnswer(Head(q)) => Tail(q) = <<>>
<1> DEFINE r == Tail(q)
<1>1. /\ r \in Seq(Packets) /\ Len(r) = Len(q) - 1
      /\ \A i \in 1 .. Len(q) - 1 : r[i] = q[i + 1]
  BY HeadTailProperties
<1>2. /\ DOMAIN q = 1 .. Len(q) /\ Len(q) \in Nat \ {0}
      /\ DOMAIN r = 1 .. Len(q) - 1
  BY <1>1, LenProperties, EmptySeq
<1>3. Head(q) = q[1] /\ 1 \in DOMAIN q
  BY <1>2
<1>4. /\ \A i \in DOMAIN r : i + 1 \in DOMAIN q /\ r[i] = q[i + 1]
      /\ \A i \in DOMAIN r : i + 1 = Len(q) => i = Len(r)
  <2> HIDE DEF r
  <2> QED
    BY SMTT(30), <1>1, <1>2
<1> HIDE DEF r
<1>5. Numbered(q) => /\ Numbered(r)
                     /\ Head(q).code = "EVENT" => Head(q).data # 0
                     /\ IsNote(Head(q)) => Head(q).id # 0
  BY <1>3, <1>4 DEF Numbered
<1>6. ASSUME NEW id, AnswersAre(q, id)
      PROVE  AnswersAre(r, id) /\ (IsAnswer(Head(q)) => Head(q).id = id)
  BY <1>3, <1>4, <1>6 DEF AnswersAre
<1>7. EachOK(q) => EachOK(r) /\ Head(q).code # "UNK"
  BY <1>3, <1>4 DEF EachOK
<1>8. NoneGiven(q) => NoneGiven(r) /\ (IsAnswer(Head(q)) => Head(q).data = 0)
  BY <1>3, <1>4 DEF NoneGiven
<1>9. AnswerLast(q) => AnswerLast(r)
  BY <1>4 DEF AnswerLast
<1>10. AnswerLast(q) /\ IsAnswer(Head(q)) => r = <<>>
  <2>1. AnswerLast(q) /\ IsAnswer(Head(q)) => Len(q) = 1
    BY <1>3 DEF AnswerLast
  <2>2. Len(q) = 1 => Len(r) = 0
    BY <1>1
  <2> QED
    BY <1>1, <2>1, <2>2, EmptySeq
<1> QED
  BY <1>5, <1>6, <1>7, <1>8, <1>9, <1>10 DEF r

LEMMA PacketSent ==
  ASSUME NEW q \in Seq(Packets), NEW p \in Packets
  PROVE  LET a == Append(q, p)
         IN  /\ \A id : RequestsAre(q, id) /\ (p.code \in Serving => p.id = id)
                          => RequestsAre(a, id)
             /\ NoAck(q) /\ p.code # "EVOK" => NoAck(a)
             /\ AckOrder(q) /\ (p.code = "EVOK" =>
                    \A i \in DOMAIN q : q[i].code # "GET_DEBUG_EVENT") => AckOrder(a)
             /\ ~HasGoodbye(q) => GoodbyeLast(a)
             /\ HasGoodbye(a) <=> HasGoodbye(q) \/ IsGoodbye(p)
             /\ /\ Numbered(q)
                /\ p.code = "EVENT" => p.data # 0
                /\ IsNote(p) => p.id # 0
                => Numbered(a)
             /\ \A id : AnswersAre(q, id) /\ (IsAnswer(p) => p.id = id)
                          => AnswersAre(a, id)
             /\ EachOK(q) /\ p.code # "UNK" => EachOK(a)
             /\ NoneGiven(q) /\ (IsAnswer(p) => p.data = 0) => NoneGiven(a)
             /\ (\A i \in DOMAIN q : ~IsAnswer(q[i])) => AnswerLast(a)
<1> DEFINE a == Append(q, p)
           n == Len(q) + 1
<1>1. /\ a \in Seq(Packets) /\ Len(a) = n
      /\ \A i \in 1 .. Len(q) : a[i] = q[i]
      /\ a[n] = p
  BY AppendProperties
<1>2. /\ DOMAIN q = 1 .. Len(q) /\ Len(q) \in Nat /\ DOMAIN a = 1 .. n
  BY <1>1, LenProperties
<1> HIDE DEF a
<1>3. /\ n \in DOMAIN a /\ n \notin DOMAIN q
      /\ \A i \in DOMAIN a : i = n \/ (i \in DOMAIN q /\ a[i] = q[i] /\ i < n)
      /\ \A i \in DOMAIN q : i \in DOMAIN a /\ a[i] = q[i]
      /\ \A i, j \in DOMAIN a : i < j => i \in DOMAIN q
  BY <1>1, <1>2
<1> HIDE DEF n
<1>4. ASSUME NEW id, RequestsAre(q, id), p.code \in Serving => p.id = id
      PROVE  RequestsAre(a, id)
  BY <1>1, <1>3, <1>4 DEF RequestsAre
<1>5. NoAck(q) /\ p.code # "EVOK" => NoAck(a)
  BY <1>1, <1>3 DEF NoAck
<1>6. ASSUME AckOrder(q),
             p.code = "EVOK" => \A i \in DOMAIN q : q[i].code # "GET_DEBUG_EVENT"
      PROVE  AckOrder(a)
  BY <1>1, <1>3, <1>6 DEF AckOrder
<1>7. ~HasGoodbye(q) => GoodbyeLast(a)
  BY <1>1, <1>3 DEF HasGoodbye, GoodbyeLast
<1>8. HasGoodbye(a) <=> HasGoodbye(q) \/ IsGoodbye(p)
  BY <1>1, <1>3 DEF HasGoodbye
<1>9. ASSUME Numbered(q), p.code = "EVENT" => p.data # 0, IsNote(p) => p.id # 0
      PROVE  Numbered(a)
  BY <1>1, <1>3, <1>9 DEF Numbered
<1>10. ASSUME NEW id, AnswersAre(q, id), IsAnswer(p) => p.id = id
       PROVE  AnswersAre(a, id)
  BY <1>1, <1>3, <1>10 DEF AnswersAre
<1>11. EachOK(q) /\ p.code # "UNK" => EachOK(a)
  BY <1>1, <1>3 DEF EachOK
<1>12. NoneGiven(q) /\ (IsAnswer(p) => p.data = 0) => NoneGiven(a)
  BY <1>1, <1>3 DEF NoneGiven
<1>13. (\A i \in DOMAIN q : ~IsAnswer(q[i])) => AnswerLast(a)
  BY <1>1, <1>3 DEF AnswerLast
<1> QED
  BY <1>4, <1>5, <1>6, <1>7, <1>8, <1>9, <1>10, <1>11, <1>12, <1>13 DEF a

-----------------------------------------------------------------------------
(* What is counted                                                         *)

RequestPackets == {p \in Packets : p.code \in Serving}
GetPackets     == {p \in Packets : p.code = "GET_DEBUG_EVENT"}
ReplyPackets   == {p \in Packets : p.code = "OK" /\ p.id # 0}
AnswerPackets  == {p \in Packets : p.code \in {"OK", "UNK"}}
ReportPackets  == {p \in Packets : p.code = "EVENT"}
NotePackets    == {p \in Packets : p.code \in {"MSG", "SET_DEBUG_NAMES"}}
ServingFrames  == {f \in Frames : f.op \in Serving}
GetFrames      == {f \in Frames : f.op = "GET_DEBUG_EVENT"}
NoteFrames     == {f \in Frames : f.op \in {"MSG", "SET_DEBUG_NAMES"}}
PollFrames     == {f \in Frames : f.op = "poll" \/ f.saved}

\* On the way to the server: requests, among them GET_DEBUG_EVENT, and answers
\* to its messages
Requests == Count(c2s, RequestPackets)
Gets     == Count(c2s, GetPackets)
Replies  == Count(c2s, ReplyPackets)
\* On the way to the client: answers, EVENT packets, messages, and what carries
\* an event
Answers  == Count(s2c, AnswerPackets)
Reports  == Count(s2c, ReportPackets)
Notes    == Count(s2c, NotePackets)
Carriers == Count(s2c, Carried)
\* On the server's stack: requests it serves, among them GET_DEBUG_EVENT, messages
\* without an answer, and frames that poll or will go on polling
Served   == Count(stack, ServingFrames)
Fetching == Count(stack, GetFrames)
Told     == Count(stack, NoteFrames)
Polls    == Count(stack, PollFrames)

LEMMA CountsAreNat ==
  ASSUME TypeOK
  PROVE  /\ Requests \in Nat /\ Gets \in Nat /\ Replies \in Nat
         /\ Answers \in Nat /\ Reports \in Nat /\ Notes \in Nat /\ Carriers \in Nat
         /\ Served \in Nat /\ Fetching \in Nat /\ Told \in Nat /\ Polls \in Nat
         /\ Gets <= Requests /\ Fetching <= Served
<1>1. c2s \in Seq(Packets) /\ s2c \in Seq(Packets) /\ stack \in Seq(Frames)
  BY DEF TypeOK
<1>2. GetPackets \subseteq RequestPackets /\ GetFrames \subseteq ServingFrames
  BY DEF GetPackets, RequestPackets, GetFrames, ServingFrames, Serving
<1>3. Gets <= Requests /\ Fetching <= Served
  BY <1>1, <1>2, CountMore DEF Gets, Requests, Fetching, Served
<1> QED
  BY <1>1, <1>3, CountIsNat DEF Requests, Gets, Replies, Answers, Reports, Notes,
     Carriers, Served, Fetching, Told, Polls

LEMMA SameCounts ==
  /\ UNCHANGED c2s => UNCHANGED <<Requests, Gets, Replies>>
  /\ UNCHANGED s2c => UNCHANGED <<Answers, Reports, Notes, Carriers>>
  /\ UNCHANGED stack => UNCHANGED <<Served, Fetching, Told, Polls>>
BY DEF Requests, Gets, Replies, Answers, Reports, Notes, Carriers, Served, Fetching,
   Told, Polls

\* The element that a packet or a frame is shows what is there.
LEMMA Zeros ==
  ASSUME TypeOK
  PROVE  /\ Requests = 0 <=> \A i \in DOMAIN c2s : c2s[i].code \notin Serving
         /\ Gets = 0 <=> \A i \in DOMAIN c2s : c2s[i].code # "GET_DEBUG_EVENT"
         /\ Answers = 0 <=> \A i \in DOMAIN s2c : ~IsAnswer(s2c[i])
         /\ Reports = 0 <=> \A i \in DOMAIN s2c : s2c[i].code # "EVENT"
         /\ Carriers = 0 <=> \A i \in DOMAIN s2c : s2c[i] \notin Carried
         /\ Served = 0 <=> \A i \in DOMAIN stack : stack[i].op \notin Serving
         /\ Fetching = 0 <=> \A i \in DOMAIN stack : stack[i].op # "GET_DEBUG_EVENT"
         /\ Polls = 0 <=>
              \A i \in DOMAIN stack : stack[i].op # "poll" /\ ~stack[i].saved
<1>1. c2s \in Seq(Packets) /\ s2c \in Seq(Packets) /\ stack \in Seq(Frames)
  BY DEF TypeOK
<1>2. /\ \A i \in DOMAIN c2s : c2s[i] \in Packets
      /\ \A i \in DOMAIN s2c : s2c[i] \in Packets
      /\ \A i \in DOMAIN stack : stack[i] \in Frames
  BY <1>1, ElementOfSeq, LenProperties
<1>3. /\ Requests = 0 <=> \A i \in DOMAIN c2s : c2s[i] \notin RequestPackets
      /\ Gets = 0 <=> \A i \in DOMAIN c2s : c2s[i] \notin GetPackets
      /\ Answers = 0 <=> \A i \in DOMAIN s2c : s2c[i] \notin AnswerPackets
      /\ Reports = 0 <=> \A i \in DOMAIN s2c : s2c[i] \notin ReportPackets
      /\ Carriers = 0 <=> \A i \in DOMAIN s2c : s2c[i] \notin Carried
      /\ Served = 0 <=> \A i \in DOMAIN stack : stack[i] \notin ServingFrames
      /\ Fetching = 0 <=> \A i \in DOMAIN stack : stack[i] \notin GetFrames
      /\ Polls = 0 <=> \A i \in DOMAIN stack : stack[i] \notin PollFrames
  BY <1>1, CountIsNat DEF Requests, Gets, Answers, Reports, Carriers, Served,
     Fetching, Polls
<1> QED
  BY <1>2, <1>3 DEF RequestPackets, GetPackets, AnswerPackets, ReportPackets,
     ServingFrames, GetFrames, PollFrames, IsAnswer

LEMMA ClientSends ==
  ASSUME TypeOK, NEW p \in Packets, c2s' = Append(c2s, p)
  PROVE  /\ c2s' \in Seq(Packets) /\ Len(c2s) \in Nat
         /\ DOMAIN c2s = 1 .. Len(c2s) /\ DOMAIN c2s' = 1 .. Len(c2s) + 1
         /\ Len(c2s') = Len(c2s) + 1 /\ c2s'[Len(c2s) + 1] = p
         /\ \A i \in 1 .. Len(c2s) : c2s'[i] = c2s[i]
         /\ Requests' = IF p.code \in Serving THEN Requests + 1 ELSE Requests
         /\ Gets' = IF p.code = "GET_DEBUG_EVENT" THEN Gets + 1 ELSE Gets
         /\ Replies' = IF p.code = "OK" /\ p.id # 0 THEN Replies + 1 ELSE Replies
         /\ \A id : RequestsAre(c2s, id) /\ (p.code \in Serving => p.id = id)
                      => RequestsAre(c2s', id)
         /\ NoAck(c2s) /\ p.code # "EVOK" => NoAck(c2s')
         /\ AckOrder(c2s) /\ (p.code = "EVOK" => Gets = 0) => AckOrder(c2s')
         /\ ~HasGoodbye(c2s) => GoodbyeLast(c2s')
         /\ HasGoodbye(c2s') <=> HasGoodbye(c2s) \/ IsGoodbye(p)
<1>1. c2s \in Seq(Packets)
  BY DEF TypeOK
<1>2. /\ Requests' = IF p \in RequestPackets THEN Requests + 1 ELSE Requests
      /\ Gets' = IF p \in GetPackets THEN Gets + 1 ELSE Gets
      /\ Replies' = IF p \in ReplyPackets THEN Replies + 1 ELSE Replies
  BY <1>1, CountAppend DEF Requests, Gets, Replies
<1>3. /\ c2s' \in Seq(Packets) /\ Len(c2s) \in Nat
      /\ Len(c2s') = Len(c2s) + 1 /\ c2s'[Len(c2s) + 1] = p
      /\ \A i \in 1 .. Len(c2s) : c2s'[i] = c2s[i]
  BY <1>1, AppendProperties, LenProperties
<1>4. DOMAIN c2s = 1 .. Len(c2s) /\ DOMAIN c2s' = 1 .. Len(c2s')
  BY <1>1, <1>3, LenProperties
<1>5. /\ \A id : RequestsAre(c2s, id) /\ (p.code \in Serving => p.id = id)
                   => RequestsAre(c2s', id)
      /\ NoAck(c2s) /\ p.code # "EVOK" => NoAck(c2s')
      /\ AckOrder(c2s) /\ (p.code = "EVOK" => Gets = 0) => AckOrder(c2s')
      /\ ~HasGoodbye(c2s) => GoodbyeLast(c2s')
      /\ HasGoodbye(c2s') <=> HasGoodbye(c2s) \/ IsGoodbye(p)
  BY <1>1, PacketSent, Zeros
<1> QED
  BY <1>5, <1>2, <1>3, <1>4 DEF RequestPackets, GetPackets, ReplyPackets

LEMMA ServerTakes ==
  ASSUME TypeOK, c2s # <<>>, c2s' = Tail(c2s)
  PROVE  /\ c2s' \in Seq(Packets) /\ Len(c2s) \in Nat \ {0}
         /\ DOMAIN c2s = 1 .. Len(c2s) /\ DOMAIN c2s' = 1 .. Len(c2s) - 1
         /\ Len(c2s') = Len(c2s) - 1
         /\ \A i \in 1 .. Len(c2s) - 1 : c2s'[i] = c2s[i + 1]
         /\ Head(c2s) = c2s[1] /\ Head(c2s) \in Packets
         /\ Requests' = IF Head(c2s).code \in Serving THEN Requests - 1 ELSE Requests
         /\ Gets' = IF Head(c2s).code = "GET_DEBUG_EVENT" THEN Gets - 1 ELSE Gets
         /\ Replies' = IF Head(c2s).code = "OK" /\ Head(c2s).id # 0
                        THEN Replies - 1 ELSE Replies
         /\ Head(c2s).code \in Serving => Requests >= 1
         /\ Head(c2s).code = "CALL" => Gets <= Requests - 1
         /\ Head(c2s).code = "OK" /\ Head(c2s).id # 0 => Replies >= 1
         /\ \A id : RequestsAre(c2s, id) =>
              /\ RequestsAre(c2s', id)
              /\ Head(c2s).code \in Serving => Head(c2s).id = id
         /\ NoAck(c2s) => NoAck(c2s') /\ Head(c2s).code # "EVOK"
         /\ AckOrder(c2s) => /\ AckOrder(c2s')
                             /\ Head(c2s).code = "GET_DEBUG_EVENT" => NoAck(c2s')
         /\ GoodbyeLast(c2s) => /\ GoodbyeLast(c2s')
                                /\ IsGoodbye(Head(c2s)) => c2s' = <<>>
         /\ HasGoodbye(c2s) <=> IsGoodbye(Head(c2s)) \/ HasGoodbye(c2s')
<1>1. c2s \in Seq(Packets)
  BY DEF TypeOK
<1>2. /\ Requests' = IF Head(c2s) \in RequestPackets THEN Requests - 1 ELSE Requests
      /\ Gets' = IF Head(c2s) \in GetPackets THEN Gets - 1 ELSE Gets
      /\ Replies' = IF Head(c2s) \in ReplyPackets THEN Replies - 1 ELSE Replies
  BY <1>1, CountTail DEF Requests, Gets, Replies
<1>3. /\ c2s' \in Seq(Packets) /\ Len(c2s') = Len(c2s) - 1
      /\ \A i \in 1 .. Len(c2s') : c2s'[i] = c2s[i + 1]
      /\ Head(c2s) \in Packets
  BY <1>1, HeadTailProperties
<1>4. /\ DOMAIN c2s = 1 .. Len(c2s) /\ DOMAIN c2s' = 1 .. Len(c2s')
      /\ Len(c2s) \in Nat \ {0}
  BY <1>1, <1>3, LenProperties, EmptySeq
<1>5. Head(c2s) = c2s[1]
  OBVIOUS
<1>6. /\ Head(c2s) \in RequestPackets => Requests >= 1
      /\ Head(c2s) \in ReplyPackets => Replies >= 1
  <2>1. 1 \in DOMAIN c2s
    BY <1>4
  <2>2. /\ Head(c2s) \in RequestPackets => Requests # 0
        /\ Head(c2s) \in ReplyPackets => Replies # 0
    BY <1>1, <1>5, <2>1, CountIsNat DEF Requests, Replies
  <2> QED
    BY SMTT(30), <2>2, CountsAreNat
<1>7. Head(c2s) \in RequestPackets /\ Head(c2s) \notin GetPackets => Gets <= Requests - 1
  <2> DEFINE r == Tail(c2s)
  <2>1. r \in Seq(Packets) /\ GetPackets \subseteq RequestPackets
    BY <1>1, HeadTailProperties DEF GetPackets, RequestPackets, Serving
  <2> HIDE DEF r
  <2>2. Count(r, GetPackets) <= Count(r, RequestPackets)
    BY <2>1, CountMore
  <2>3. /\ Count(r, RequestPackets)
             = IF Head(c2s) \in RequestPackets THEN Requests - 1 ELSE Requests
        /\ Count(r, GetPackets) = IF Head(c2s) \in GetPackets THEN Gets - 1 ELSE Gets
    BY <1>1, CountTail DEF r, Requests, Gets
  <2> QED
    BY <2>2, <2>3
<1>8. /\ \A id : RequestsAre(c2s, id) =>
           /\ RequestsAre(c2s', id)
           /\ Head(c2s).code \in Serving => Head(c2s).id = id
      /\ NoAck(c2s) => NoAck(c2s') /\ Head(c2s).code # "EVOK"
      /\ AckOrder(c2s) => /\ AckOrder(c2s')
                          /\ Head(c2s).code = "GET_DEBUG_EVENT" => NoAck(c2s')
      /\ GoodbyeLast(c2s) => /\ GoodbyeLast(c2s')
                             /\ IsGoodbye(Head(c2s)) => c2s' = <<>>
      /\ HasGoodbye(c2s) <=> IsGoodbye(Head(c2s)) \/ HasGoodbye(c2s')
  BY <1>1, ReceivedFromClient
<1> QED
  BY <1>8, <1>2, <1>3, <1>4, <1>5, <1>6, <1>7 DEF Serving, RequestPackets, GetPackets, ReplyPackets

LEMMA ServerSends ==
  ASSUME TypeOK, NEW p \in Packets, s2c' = Append(s2c, p)
  PROVE  /\ s2c' \in Seq(Packets) /\ Len(s2c) \in Nat
         /\ DOMAIN s2c = 1 .. Len(s2c) /\ DOMAIN s2c' = 1 .. Len(s2c) + 1
         /\ Len(s2c') = Len(s2c) + 1 /\ s2c'[Len(s2c) + 1] = p
         /\ \A i \in 1 .. Len(s2c) : s2c'[i] = s2c[i]
         /\ Answers' = IF p.code \in {"OK", "UNK"} THEN Answers + 1 ELSE Answers
         /\ Reports' = IF p.code = "EVENT" THEN Reports + 1 ELSE Reports
         /\ Notes' = IF p.code \in {"MSG", "SET_DEBUG_NAMES"} THEN Notes + 1 ELSE Notes
         /\ Carriers' = IF p.code \in {"EVENT", "OK"} /\ p.data # 0 THEN Carriers + 1 ELSE Carriers
         /\ Numbered(s2c) /\ (p.code = "EVENT" => p.data # 0) /\ (IsNote(p) => p.id # 0)
              => Numbered(s2c')
         /\ \A id : AnswersAre(s2c, id) /\ (IsAnswer(p) => p.id = id)
                      => AnswersAre(s2c', id)
         /\ EachOK(s2c) /\ p.code # "UNK" => EachOK(s2c')
         /\ NoneGiven(s2c) /\ (IsAnswer(p) => p.data = 0) => NoneGiven(s2c')
         /\ Answers = 0 => AnswerLast(s2c')
<1>1. s2c \in Seq(Packets)
  BY DEF TypeOK
<1>2. /\ Answers' = IF p \in AnswerPackets THEN Answers + 1 ELSE Answers
      /\ Reports' = IF p \in ReportPackets THEN Reports + 1 ELSE Reports
      /\ Notes' = IF p \in NotePackets THEN Notes + 1 ELSE Notes
      /\ Carriers' = IF p \in Carried THEN Carriers + 1 ELSE Carriers
  BY <1>1, CountAppend DEF Answers, Reports, Notes, Carriers
<1>3. /\ s2c' \in Seq(Packets) /\ Len(s2c) \in Nat
      /\ Len(s2c') = Len(s2c) + 1 /\ s2c'[Len(s2c) + 1] = p
      /\ \A i \in 1 .. Len(s2c) : s2c'[i] = s2c[i]
  BY <1>1, AppendProperties, LenProperties
<1>4. DOMAIN s2c = 1 .. Len(s2c) /\ DOMAIN s2c' = 1 .. Len(s2c')
  BY <1>1, <1>3, LenProperties
<1>5. /\ Numbered(s2c) /\ (p.code = "EVENT" => p.data # 0) /\ (IsNote(p) => p.id # 0)
           => Numbered(s2c')
      /\ \A id : AnswersAre(s2c, id) /\ (IsAnswer(p) => p.id = id)
                   => AnswersAre(s2c', id)
      /\ EachOK(s2c) /\ p.code # "UNK" => EachOK(s2c')
      /\ NoneGiven(s2c) /\ (IsAnswer(p) => p.data = 0) => NoneGiven(s2c')
      /\ Answers = 0 => AnswerLast(s2c')
  BY <1>1, PacketSent, Zeros
<1> QED
  BY <1>5, <1>2, <1>3, <1>4 DEF AnswerPackets, ReportPackets, NotePackets, Carried

LEMMA ClientTakes ==
  ASSUME TypeOK, s2c # <<>>, s2c' = Tail(s2c)
  PROVE  /\ s2c' \in Seq(Packets) /\ Len(s2c) \in Nat \ {0}
         /\ DOMAIN s2c = 1 .. Len(s2c) /\ DOMAIN s2c' = 1 .. Len(s2c) - 1
         /\ Len(s2c') = Len(s2c) - 1
         /\ \A i \in 1 .. Len(s2c) - 1 : s2c'[i] = s2c[i + 1]
         /\ Head(s2c) = s2c[1] /\ Head(s2c) \in Packets
         /\ Answers' = IF Head(s2c).code \in {"OK", "UNK"} THEN Answers - 1 ELSE Answers
         /\ Reports' = IF Head(s2c).code = "EVENT" THEN Reports - 1 ELSE Reports
         /\ Notes' = IF Head(s2c).code \in {"MSG", "SET_DEBUG_NAMES"} THEN Notes - 1 ELSE Notes
         /\ Carriers' = IF Head(s2c).code \in {"EVENT", "OK"}
                                       /\ Head(s2c).data # 0 THEN Carriers - 1 ELSE Carriers
         /\ Head(s2c).code \in {"OK", "UNK"} => Answers >= 1
         /\ Head(s2c).code = "EVENT" => Reports >= 1
         /\ Head(s2c).code \in {"MSG", "SET_DEBUG_NAMES"} => Notes >= 1
         /\ Head(s2c).code \in {"EVENT", "OK"} /\ Head(s2c).data # 0 => Carriers >= 1
         /\ Numbered(s2c) => /\ Numbered(s2c')
                             /\ Head(s2c).code = "EVENT" => Head(s2c).data # 0
                             /\ IsNote(Head(s2c)) => Head(s2c).id # 0
         /\ \A id : AnswersAre(s2c, id) =>
              /\ AnswersAre(s2c', id)
              /\ IsAnswer(Head(s2c)) => Head(s2c).id = id
         /\ EachOK(s2c) => EachOK(s2c') /\ Head(s2c).code # "UNK"
         /\ NoneGiven(s2c) => /\ NoneGiven(s2c')
                              /\ IsAnswer(Head(s2c)) => Head(s2c).data = 0
         /\ AnswerLast(s2c) => /\ AnswerLast(s2c')
                               /\ IsAnswer(Head(s2c)) => s2c' = <<>>
<1>1. s2c \in Seq(Packets)
  BY DEF TypeOK
<1>2. /\ Answers' = IF Head(s2c) \in AnswerPackets THEN Answers - 1 ELSE Answers
      /\ Reports' = IF Head(s2c) \in ReportPackets THEN Reports - 1 ELSE Reports
      /\ Notes' = IF Head(s2c) \in NotePackets THEN Notes - 1 ELSE Notes
      /\ Carriers' = IF Head(s2c) \in Carried THEN Carriers - 1 ELSE Carriers
  BY <1>1, CountTail DEF Answers, Reports, Notes, Carriers
<1>3. /\ s2c' \in Seq(Packets) /\ Len(s2c') = Len(s2c) - 1
      /\ \A i \in 1 .. Len(s2c') : s2c'[i] = s2c[i + 1]
      /\ Head(s2c) \in Packets
  BY <1>1, HeadTailProperties
<1>4. /\ DOMAIN s2c = 1 .. Len(s2c) /\ DOMAIN s2c' = 1 .. Len(s2c')
      /\ Len(s2c) \in Nat \ {0}
  BY <1>1, <1>3, LenProperties, EmptySeq
<1>5. Head(s2c) = s2c[1] /\ 1 \in DOMAIN s2c
  BY <1>4
<1>6. ASSUME NEW S, Head(s2c) \in S PROVE Count(s2c, S) >= 1
  <2>1. Count(s2c, S) \in Nat /\ Count(s2c, S) # 0
    BY <1>1, <1>5, <1>6, CountIsNat
  <2> QED
    BY <2>1
<1>7. /\ Head(s2c) \in AnswerPackets => Answers >= 1
      /\ Head(s2c) \in ReportPackets => Reports >= 1
      /\ Head(s2c) \in NotePackets => Notes >= 1
      /\ Head(s2c) \in Carried => Carriers >= 1
  BY <1>6 DEF Answers, Reports, Notes, Carriers
<1>8. /\ Numbered(s2c) => /\ Numbered(s2c')
                          /\ Head(s2c).code = "EVENT" => Head(s2c).data # 0
                          /\ IsNote(Head(s2c)) => Head(s2c).id # 0
      /\ \A id : AnswersAre(s2c, id) =>
           /\ AnswersAre(s2c', id)
           /\ IsAnswer(Head(s2c)) => Head(s2c).id = id
      /\ EachOK(s2c) => EachOK(s2c') /\ Head(s2c).code # "UNK"
      /\ NoneGiven(s2c) => /\ NoneGiven(s2c')
                           /\ IsAnswer(Head(s2c)) => Head(s2c).data = 0
      /\ AnswerLast(s2c) => /\ AnswerLast(s2c')
                            /\ IsAnswer(Head(s2c)) => s2c' = <<>>
  BY <1>1, ReceivedFromServer
<1> QED
  BY <1>8, <1>2, <1>3, <1>4, <1>5, <1>7 DEF AnswerPackets, ReportPackets, NotePackets, Carried

-----------------------------------------------------------------------------
(* The server's stack                                                      *)

Opening == <<Frame("open", 0, FALSE)>>
Looping == <<Frame("loop", 0, FALSE)>>

\* A stack of the main loop: its frame is the first, and only the first.
MainLoop(q) ==
  q # <<>> => /\ q[1] = Frame("loop", 0, FALSE)
              /\ \A i \in DOMAIN q : i > 1 => q[i].op \notin {"open", "loop"}

LEMMA FrameKinds ==
  ASSUME NEW f \in Frames
  PROVE  /\ f \in ServingFrames <=> f.op \in Serving
         /\ f \in GetFrames <=> f.op = "GET_DEBUG_EVENT"
         /\ f \in NoteFrames <=> f.op \in {"MSG", "SET_DEBUG_NAMES"}
         /\ f \in PollFrames <=> f.op = "poll" \/ f.saved
BY DEF ServingFrames, GetFrames, NoteFrames, PollFrames, Frames

\* What is on top is counted.
LEMMA TopCounted ==
  ASSUME TypeOK, stack # <<>>
  PROVE  /\ Top \in Frames /\ Len(stack) \in Nat \ {0}
         /\ DOMAIN stack = 1 .. Len(stack)
         /\ Top.op \in Serving => Served >= 1
         /\ Top.op = "GET_DEBUG_EVENT" => Fetching >= 1
         /\ Top.op = "CALL" => Fetching <= Served - 1
         /\ Top.op \in {"MSG", "SET_DEBUG_NAMES"} => Told >= 1
         /\ Top.op = "poll" \/ Top.saved => Polls >= 1
         /\ \A id : FramesAre(stack, id) /\ Top.op \in Serving => Top.id = id
<1>1. stack \in Seq(Frames)
  BY DEF TypeOK
<1>2. /\ Top \in Frames /\ Len(stack) \in Nat \ {0} /\ Len(stack) \in DOMAIN stack
      /\ DOMAIN stack = 1 .. Len(stack) /\ Top = stack[Len(stack)]
  BY <1>1, FrontProperties, LenProperties DEF Top
<1>3. ASSUME NEW S, Top \in S PROVE Count(stack, S) >= 1
  <2>1. Count(stack, S) \in Nat /\ Count(stack, S) # 0
    BY <1>1, <1>2, <1>3, CountIsNat
  <2> QED
    BY <2>1
<1>4. /\ Top \in ServingFrames => Served >= 1
      /\ Top \in GetFrames => Fetching >= 1
      /\ Top \in NoteFrames => Told >= 1
      /\ Top \in PollFrames => Polls >= 1
  BY <1>3 DEF Served, Fetching, Told, Polls
<1>5. Top \in ServingFrames /\ Top \notin GetFrames => Fetching <= Served - 1
  <2> DEFINE r == Front(stack)
  <2>1. r \in Seq(Frames) /\ GetFrames \subseteq ServingFrames
    BY <1>1, FrontProperties DEF GetFrames, ServingFrames, Serving
  <2> HIDE DEF r
  <2>2. Count(r, GetFrames) <= Count(r, ServingFrames)
    BY <2>1, CountMore
  <2>3. /\ Count(r, ServingFrames) = IF Top \in ServingFrames THEN Served - 1 ELSE Served
        /\ Count(r, GetFrames) = IF Top \in GetFrames THEN Fetching - 1 ELSE Fetching
    BY <1>1, CountFront DEF r, Top, Served, Fetching
  <2> QED
    BY <2>2, <2>3
<1>6. \A id : FramesAre(stack, id) /\ Top.op \in Serving => Top.id = id
  BY <1>2 DEF FramesAre
<1> QED
  BY <1>6, <1>2, <1>4, <1>5, FrameKinds DEF Serving

LEMMA Pushes ==
  ASSUME TypeOK, NEW f \in Frames, stack' = Push(f)
  PROVE  /\ stack' \in Seq(Frames) /\ stack' # <<>>
         /\ DOMAIN stack = 1 .. Len(stack) /\ Len(stack) \in Nat
         /\ DOMAIN stack' = 1 .. Len(stack) + 1
         /\ Len(stack') = Len(stack) + 1 /\ stack'[Len(stack) + 1] = f
         /\ \A i \in 1 .. Len(stack) : stack'[i] = stack[i]
         /\ Served' = IF f.op \in Serving THEN Served + 1 ELSE Served
         /\ Fetching' = IF f.op = "GET_DEBUG_EVENT" THEN Fetching + 1 ELSE Fetching
         /\ Told' = IF f.op \in {"MSG", "SET_DEBUG_NAMES"} THEN Told + 1 ELSE Told
         /\ Polls' = IF f.op = "poll" \/ f.saved THEN Polls + 1 ELSE Polls
         /\ stack # <<>> /\ MainLoop(stack) /\ f.op \notin {"open", "loop"}
              => MainLoop(stack')
         /\ \A id : FramesAre(stack, id) /\ (f.op \in Serving => f.id = id)
                      => FramesAre(stack', id)
<1>1. stack \in Seq(Frames)
  BY DEF TypeOK
<1>2. /\ Served' = IF f \in ServingFrames THEN Served + 1 ELSE Served
      /\ Fetching' = IF f \in GetFrames THEN Fetching + 1 ELSE Fetching
      /\ Told' = IF f \in NoteFrames THEN Told + 1 ELSE Told
      /\ Polls' = IF f \in PollFrames THEN Polls + 1 ELSE Polls
  BY <1>1, CountAppend DEF Push, Served, Fetching, Told, Polls
<1>3. /\ stack' \in Seq(Frames) /\ Len(stack) \in Nat
      /\ Len(stack') = Len(stack) + 1 /\ stack'[Len(stack) + 1] = f
      /\ \A i \in 1 .. Len(stack) : stack'[i] = stack[i]
  BY <1>1, AppendProperties, LenProperties DEF Push
<1>4. DOMAIN stack = 1 .. Len(stack) /\ DOMAIN stack' = 1 .. Len(stack')
  BY <1>1, <1>3, LenProperties
<1>5. stack' # <<>> /\ (stack # <<>> => Len(stack) > 0)
  BY <1>1, <1>3, EmptySeq
<1>6. stack # <<>> /\ MainLoop(stack) /\ f.op \notin {"open", "loop"}
        => MainLoop(stack')
  <2> SUFFICES ASSUME stack # <<>>, MainLoop(stack), f.op \notin {"open", "loop"}
               PROVE  MainLoop(stack')
    OBVIOUS
  <2>1. stack'[1] = stack[1]
    BY <1>3, <1>5
  <2>2. ASSUME NEW i \in 1 .. Len(stack) + 1, i > 1
        PROVE  stack'[i].op \notin {"open", "loop"}
    BY <1>3, <1>4, <2>2 DEF MainLoop
  <2> QED
    BY <1>3, <1>4, <2>1, <2>2 DEF MainLoop
<1>7. \A id : FramesAre(stack, id) /\ (f.op \in Serving => f.id = id)
                      => FramesAre(stack', id)
  <2>1. \A i \in 1 .. Len(stack) + 1 : i = Len(stack) + 1 \/ i \in 1 .. Len(stack)
    BY <1>3
  <2> QED
    BY <1>3, <1>4, <2>1 DEF FramesAre
<1> QED
  BY <1>7, <1>2, <1>3, <1>4, <1>5, <1>6, FrameKinds

LEMMA Pops ==
  ASSUME TypeOK, stack # <<>>, stack' = Under
  PROVE  /\ stack' \in Seq(Frames) /\ Top \in Frames
         /\ DOMAIN stack = 1 .. Len(stack) /\ Len(stack) \in Nat \ {0}
         /\ DOMAIN stack' = 1 .. Len(stack) - 1 /\ Len(stack') = Len(stack) - 1
         /\ \A i \in 1 .. Len(stack) - 1 : stack'[i] = stack[i]
         /\ Served' = IF Top.op \in Serving THEN Served - 1 ELSE Served
         /\ Fetching' = IF Top.op = "GET_DEBUG_EVENT" THEN Fetching - 1 ELSE Fetching
         /\ Told' = IF Top.op \in {"MSG", "SET_DEBUG_NAMES"} THEN Told - 1 ELSE Told
         /\ Polls' = IF Top.op = "poll" \/ Top.saved THEN Polls - 1 ELSE Polls
         /\ MainLoop(stack) => /\ MainLoop(stack')
                               /\ stack' = <<>> <=> Top.op = "loop"
         /\ \A id : FramesAre(stack, id) => FramesAre(stack', id)
<1>1. stack \in Seq(Frames)
  BY DEF TypeOK
<1>2. /\ stack' \in Seq(Frames) /\ Top \in Frames /\ Len(stack) \in Nat \ {0}
      /\ Len(stack') = Len(stack) - 1
      /\ \A i \in 1 .. Len(stack) - 1 : stack'[i] = stack[i]
  BY <1>1, FrontProperties DEF Under, Front, Top
<1>3. /\ Served' = IF Top \in ServingFrames THEN Served - 1 ELSE Served
      /\ Fetching' = IF Top \in GetFrames THEN Fetching - 1 ELSE Fetching
      /\ Told' = IF Top \in NoteFrames THEN Told - 1 ELSE Told
      /\ Polls' = IF Top \in PollFrames THEN Polls - 1 ELSE Polls
  BY <1>1, CountFront DEF Under, Front, Top, Served, Fetching, Told, Polls
<1>4. DOMAIN stack = 1 .. Len(stack) /\ DOMAIN stack' = 1 .. Len(stack')
  BY <1>1, <1>2, LenProperties
<1>5. stack' = <<>> <=> Len(stack) = 1
  BY <1>2, EmptySeq
<1>6. MainLoop(stack) => MainLoop(stack') /\ (stack' = <<>> <=> Top.op = "loop")
  <2> SUFFICES ASSUME MainLoop(stack)
               PROVE  MainLoop(stack') /\ (stack' = <<>> <=> Top.op = "loop")
    OBVIOUS
  <2>1. stack[1].op = "loop" /\ stack[1] = Frame("loop", 0, FALSE)
    BY DEF MainLoop, Frame
  <2>2. \A i \in 1 .. Len(stack) : i > 1 => stack[i].op \notin {"open", "loop"}
    BY <1>4 DEF MainLoop
  <2>3. Top.op = "loop" <=> Len(stack) = 1
    <3>1. Len(stack) \in 1 .. Len(stack) /\ Top = stack[Len(stack)]
      BY <1>2 DEF Top
    <3>2. Len(stack) # 1 => Top.op # "loop"
      BY <1>2, <2>2, <3>1
    <3>3. Len(stack) = 1 => Top.op = "loop"
      BY <2>1, <3>1
    <3> QED
      BY <3>2, <3>3
  <2>4. stack' # <<>> => stack'[1] = stack[1]
    BY <1>2, <1>5
  <2>5. \A i \in 1 .. Len(stack) - 1 : i > 1 => stack'[i].op \notin {"open", "loop"}
    BY <1>2, <2>2
  <2>6. MainLoop(stack')
    BY <1>2, <1>4, <2>1, <2>4, <2>5 DEF MainLoop
  <2> QED
    BY <1>5, <2>3, <2>6
<1>7. \A id : FramesAre(stack, id) => FramesAre(stack', id)
  <2>1. \A i \in 1 .. Len(stack) - 1 : i \in 1 .. Len(stack)
    BY <1>2
  <2> QED
    BY <1>2, <1>4, <2>1 DEF FramesAre
<1> QED
  BY <1>7, <1>2, <1>3, <1>4, <1>6, FrameKinds

\* What a connection starts with, and what is left at its end
LEMMA ShortQueues ==
  /\ Count(<<>>, RequestPackets) = 0 /\ Count(<<>>, GetPackets) = 0
  /\ Count(<<>>, ReplyPackets) = 0 /\ Count(<<>>, AnswerPackets) = 0
  /\ Count(<<>>, ReportPackets) = 0 /\ Count(<<>>, NotePackets) = 0
  /\ Count(<<>>, Carried) = 0
  /\ \A q \in {<<>>, Opening, Looping} :
       /\ q \in Seq(Frames)
       /\ Count(q, ServingFrames) = 0 /\ Count(q, GetFrames) = 0
       /\ Count(q, NoteFrames) = 0 /\ Count(q, PollFrames) = 0
       /\ \A id : FramesAre(q, id)
<1>1. \A S : Count(<<>>, S) = 0
  <2> SUFFICES ASSUME NEW S PROVE Count(<<>>, S) = 0
    OBVIOUS
  <2>1. <<>> \in Seq(Packets) /\ DOMAIN <<>> = {}
    OBVIOUS
  <2> QED
    BY <2>1, CountIsNat
<1>2. ASSUME NEW op \in {"open", "loop"}
      PROVE  LET q == <<Frame(op, 0, FALSE)>>
             IN  /\ q \in Seq(Frames)
                 /\ Count(q, ServingFrames) = 0 /\ Count(q, GetFrames) = 0
                 /\ Count(q, NoteFrames) = 0 /\ Count(q, PollFrames) = 0
                 /\ \A id : FramesAre(q, id)
  <2> DEFINE f == Frame(op, 0, FALSE)
             q == <<f>>
  <2>1. f \in Frames /\ f.op = op /\ f.saved = FALSE
    BY DEF Frame, Frames, Waiting
  <2> HIDE DEF f
  <2>2. q \in Seq(Frames) /\ DOMAIN q = {1} /\ q[1] = f
    BY <2>1
  <2> HIDE DEF q
  <2>3. \A S : f \notin S => Count(q, S) = 0
    BY <2>2, CountIsNat
  <2>4. f \notin ServingFrames /\ f \notin GetFrames /\ f \notin NoteFrames /\ f \notin PollFrames
    BY <2>1 DEF ServingFrames, GetFrames, NoteFrames, PollFrames, Serving
  <2>5. \A id : FramesAre(q, id)
    BY <2>1, <2>2 DEF FramesAre, Serving
  <2> QED
    BY <2>2, <2>3, <2>4, <2>5 DEF q, f
<1>3. <<>> \in Seq(Frames) /\ \A id : FramesAre(<<>>, id)
  BY EmptyQueue
<1>4. \A q \in {Opening, Looping} :
        /\ q \in Seq(Frames)
        /\ Count(q, ServingFrames) = 0 /\ Count(q, GetFrames) = 0
        /\ Count(q, NoteFrames) = 0 /\ Count(q, PollFrames) = 0
        /\ \A id : FramesAre(q, id)
  BY <1>2, Zenon DEF Opening, Looping
<1> QED
  BY <1>1, <1>3, <1>4

\* A report carries an event.
LEMMA NothingCarried ==
  ASSUME NEW q \in Seq(Packets), Numbered(q), Count(q, Carried) = 0
  PROVE  Count(q, ReportPackets) = 0
<1>1. \A i \in DOMAIN q : q[i] \in Packets /\ q[i] \notin Carried
  BY ElementOfSeq, LenProperties, CountIsNat
<1>2. \A i \in DOMAIN q : q[i] \notin ReportPackets
  BY <1>1 DEF Numbered, Carried, ReportPackets
<1> QED
  BY <1>2, CountIsNat

\* FetchNote: the module's frame is noted and a message frame comes above it.
LEMMA NotesPushed ==
  ASSUME TypeOK, stack # <<>>, NEW f \in Frames,
         f.op = "MSG", ~f.saved,
         stack' = Append(Append(Under, [Top EXCEPT !.noted = TRUE]), f)
  PROVE  /\ stack' \in Seq(Frames) /\ stack' # <<>>
         /\ DOMAIN stack = 1 .. Len(stack) /\ Len(stack) \in Nat \ {0}
         /\ DOMAIN stack' = 1 .. Len(stack) + 1 /\ Len(stack') = Len(stack) + 1
         /\ \A i \in 1 .. Len(stack) :
              stack'[i].op = stack[i].op /\ stack'[i].id = stack[i].id
         /\ stack'[Len(stack) + 1] = f
         /\ Served' = Served /\ Fetching' = Fetching
         /\ Told' = Told + 1 /\ Polls' = Polls
         /\ MainLoop(stack) /\ Top.op # "loop" => MainLoop(stack')
         /\ \A id : FramesAre(stack, id) => FramesAre(stack', id)
<1> DEFINE g == [Top EXCEPT !.noted = TRUE]
           r == Append(Under, g)
           n == Len(stack)
<1>1. stack \in Seq(Frames)
  BY DEF TypeOK
<1>2. /\ Under \in Seq(Frames) /\ Top \in Frames /\ n \in Nat \ {0}
      /\ Len(Under) = n - 1 /\ \A i \in 1 .. n - 1 : Under[i] = stack[i]
      /\ DOMAIN stack = 1 .. n
  BY <1>1, FrontProperties, LenProperties DEF Under, Front, Top
<1>3. /\ g \in Frames /\ g.op = Top.op /\ g.id = Top.id /\ g.saved = Top.saved
  BY <1>2 DEF Frames
<1> HIDE DEF g, n
<1>4. /\ r \in Seq(Frames) /\ Len(r) = n /\ r[n] = g
      /\ \A i \in 1 .. n - 1 : r[i] = stack[i]
  <2>1. /\ r \in Seq(Frames) /\ Len(r) = n - 1 + 1 /\ r[n - 1 + 1] = g
        /\ \A i \in 1 .. n - 1 : r[i] = Under[i]
    BY <1>2, <1>3, AppendProperties
  <2>2. n - 1 + 1 = n
    BY <1>2
  <2> HIDE DEF r
  <2> QED
    BY <1>2, <2>1, <2>2
<1> HIDE DEF r
<1>5. stack' = Append(r, f)
  BY DEF r, g
<1> DEFINE a == Append(r, f)
<1>6. /\ stack' \in Seq(Frames) /\ Len(stack') = n + 1 /\ stack'[n + 1] = f
      /\ \A i \in 1 .. n : stack'[i] = r[i]
  <2>1. /\ a \in Seq(Frames) /\ Len(a) = Len(r) + 1 /\ a[Len(r) + 1] = f
        /\ \A i \in 1 .. Len(r) : a[i] = r[i]
    BY <1>4, AppendProperties
  <2>2. a = stack'
    BY <1>5
  <2> HIDE DEF a
  <2> QED
    BY <1>4, <2>1, <2>2
<1>7. DOMAIN stack' = 1 .. n + 1
  BY <1>6, LenProperties
<1>8. ASSUME NEW S, g \in S <=> Top \in S
      PROVE  Count(stack', S) = IF f \in S THEN Count(stack, S) + 1 ELSE Count(stack, S)
  <2>1. Count(Under, S) = IF Top \in S THEN Count(stack, S) - 1 ELSE Count(stack, S)
    BY <1>1, CountFront DEF Under, Front, Top
  <2>2. Count(r, S) = IF g \in S THEN Count(Under, S) + 1 ELSE Count(Under, S)
    BY <1>2, <1>3, CountAppend DEF r
  <2>3. Count(stack', S) = IF f \in S THEN Count(r, S) + 1 ELSE Count(r, S)
    <3>1. Count(Append(r, f), S) = IF f \in S THEN Count(r, S) + 1 ELSE Count(r, S)
      BY <1>4, CountAppend
    <3> QED
      BY <1>5, <3>1
  <2>4. Count(stack, S) \in Nat
    BY <1>1, CountIsNat
  <2>5. Count(r, S) = Count(stack, S)
    BY <1>8, <2>1, <2>2, <2>4
  <2> QED
    BY <2>3, <2>5
<1>9. /\ g \in ServingFrames <=> Top \in ServingFrames
      /\ g \in GetFrames <=> Top \in GetFrames
      /\ g \in NoteFrames <=> Top \in NoteFrames
      /\ g \in PollFrames <=> Top \in PollFrames
  BY <1>2, <1>3 DEF ServingFrames, GetFrames, NoteFrames, PollFrames
<1>10. /\ Served' = IF f \in ServingFrames THEN Served + 1 ELSE Served
       /\ Fetching' = IF f \in GetFrames THEN Fetching + 1 ELSE Fetching
       /\ Told' = IF f \in NoteFrames THEN Told + 1 ELSE Told
       /\ Polls' = IF f \in PollFrames THEN Polls + 1 ELSE Polls
  BY <1>8, <1>9 DEF Served, Fetching, Told, Polls
<1>11. Served' = Served /\ Fetching' = Fetching /\ Told' = Told + 1 /\ Polls' = Polls
  BY <1>10 DEF ServingFrames, GetFrames, NoteFrames, PollFrames, Serving
<1>12. \A i \in 1 .. n : stack'[i].op = stack[i].op /\ stack'[i].id = stack[i].id
  <2> SUFFICES ASSUME NEW i \in 1 .. n
               PROVE  stack'[i].op = stack[i].op /\ stack'[i].id = stack[i].id
    OBVIOUS
  <2>1. stack'[i] = r[i]
    BY <1>6
  <2>2. CASE i = n
    BY <1>3, <1>4, <2>1, <2>2 DEF Top, n
  <2>3. CASE i # n
    BY <1>2, <1>4, <2>1, <2>3
  <2> QED
    BY <2>2, <2>3
<1>13. stack' # <<>>
  BY <1>2, <1>6, EmptySeq
<1>14. MainLoop(stack) /\ Top.op # "loop" => MainLoop(stack')
  <2> SUFFICES ASSUME MainLoop(stack), Top.op # "loop" PROVE MainLoop(stack')
    OBVIOUS
  <2>1. stack[1] = Frame("loop", 0, FALSE) /\ n # 1
    BY DEF MainLoop, Top, n, Frame
  <2>2. stack'[1] = stack[1]
    <3>1. 1 \in 1 .. n /\ 1 \in 1 .. n - 1
      BY <1>2, <2>1
    <3> QED
      BY <1>4, <1>6, <3>1
  <2>3. ASSUME NEW i \in 1 .. n + 1, i > 1
        PROVE  stack'[i].op \notin {"open", "loop"}
    <3>1. CASE i = n + 1
      BY <1>6, <3>1
    <3>2. CASE i \in 1 .. n
      BY <1>2, <1>12, <2>3, <3>2 DEF MainLoop
    <3> QED
      BY <1>2, <3>1, <3>2
  <2> QED
    BY <1>7, <2>1, <2>2, <2>3 DEF MainLoop
<1>15. \A id : FramesAre(stack, id) => FramesAre(stack', id)
  <2>1. \A i \in 1 .. n + 1 : i = n + 1 \/ i \in 1 .. n
    BY <1>2
  <2> QED
    BY <1>2, <1>6, <1>7, <1>12, <2>1 DEF FramesAre, Serving
<1> QED
  BY <1>15, <1>2, <1>6, <1>7, <1>11, <1>12, <1>13, <1>14 DEF n

-----------------------------------------------------------------------------
(* The events on their way to the client are none or one.                  *)

LEMMA EventsNone ==
  ASSUME NEW q \in Seq(Packets), Count(q, Carried) = 0
  PROVE  EventsIn(q) = <<>>
<1>1. At(q, Carried) = {} /\ Cardinality(At(q, Carried)) = 0
  BY CountIsNat, FS_EmptySet DEF Count, At
<1> DEFINE at == {i \in DOMAIN q : q[i] \in Carried}
           nth(k) == CHOOSE i \in at : Cardinality({j \in at : j <= i}) = k
<1>2. EventsIn(q) = [k \in 1 .. Cardinality(at) |-> q[nth(k)].data]
  BY DEF EventsIn
<1>3. Cardinality(at) = 0
  BY <1>1 DEF At
<1> HIDE DEF at, nth
<1>4. EventsIn(q) = [k \in 1 .. 0 |-> q[nth(k)].data]
  BY <1>2, <1>3
<1> QED
  BY <1>4

LEMMA EventsOne ==
  ASSUME NEW q \in Seq(Packets), Count(q, Carried) <= 1,
         NEW n \in DOMAIN q, q[n] \in Carried
  PROVE  EventsIn(q) = <<q[n].data>> /\ Count(q, Carried) = 1
<1> DEFINE at == {i \in DOMAIN q : q[i] \in Carried}
           nth(k) == CHOOSE i \in at : Cardinality({j \in at : j <= i}) = k
<1>1. at = {n} /\ n \in Nat
  <2>1. n \in At(q, Carried) /\ \A j \in At(q, Carried) : j = n
    BY CountOnce DEF At
  <2>2. n \in Nat
    BY LenProperties
  <2> QED
    BY <2>1, <2>2 DEF At
<1>2. Cardinality(at) = 1
  BY <1>1, FS_Singleton
<1>3. nth(1) = n
  <2>1. {j \in {n} : j <= n} = {n}
    BY <1>1
  <2>2. Cardinality({j \in {n} : j <= n}) = 1
    BY <2>1, FS_Singleton
  <2> QED
    BY <1>1, <2>2
<1>4. EventsIn(q) = [k \in 1 .. Cardinality(at) |-> q[nth(k)].data]
  BY DEF EventsIn
<1>5. Count(q, Carried) = 1
  BY <1>2 DEF Count, At
<1> HIDE DEF at, nth
<1>6. EventsIn(q) = [k \in 1 .. 1 |-> q[nth(k)].data]
  BY <1>2, <1>4
<1>7. EventsIn(q) = <<q[nth(1)].data>>
  BY <1>6
<1> QED
  BY <1>3, <1>5, <1>7

\* There is none, or there is one and we know it.
LEMMA EventsCases ==
  ASSUME NEW q \in Seq(Packets), Count(q, Carried) <= 1
  PROVE  \/ /\ Count(q, Carried) = 0 /\ EventsIn(q) = <<>>
            /\ \A i \in DOMAIN q : q[i] \notin Carried
         \/ \E n \in DOMAIN q : /\ q[n] \in Carried /\ EventsIn(q) = <<q[n].data>>
                                /\ Count(q, Carried) = 1
<1>1. Count(q, Carried) = 0 <=> \A i \in DOMAIN q : q[i] \notin Carried
  BY CountIsNat
<1> QED
  BY <1>1, EventsNone, EventsOne

LEMMA EventsAppend ==
  ASSUME NEW q \in Seq(Packets), NEW p \in Packets,
         Count(Append(q, p), Carried) <= 1
  PROVE  EventsIn(Append(q, p)) = IF p \in Carried THEN <<p.data>> ELSE EventsIn(q)
<1> DEFINE a == Append(q, p)
<1>1. /\ a \in Seq(Packets) /\ a[Len(q) + 1] = p /\ Len(a) = Len(q) + 1
      /\ \A i \in 1 .. Len(q) : a[i] = q[i]
  BY AppendProperties
<1>2. DOMAIN q = 1 .. Len(q) /\ Len(q) \in Nat /\ DOMAIN a = 1 .. Len(q) + 1
  BY <1>1, LenProperties
<1>3. Count(a, Carried) = IF p \in Carried THEN Count(q, Carried) + 1 ELSE Count(q, Carried)
  BY CountAppend
<1>4. Count(q, Carried) \in Nat
  BY CountIsNat
<1>5. CASE p \in Carried
  <2>1. Len(q) + 1 \in DOMAIN a
    BY <1>2
  <2> HIDE DEF a
  <2>2. EventsIn(a) = <<a[Len(q) + 1].data>>
    BY <1>1, <1>5, <2>1, EventsOne DEF a
  <2> QED
    BY <1>1, <1>5, <2>2 DEF a
<1>6. CASE p \notin Carried
  <2>1. Count(a, Carried) = Count(q, Carried) /\ Count(q, Carried) <= 1
    BY <1>3, <1>4, <1>6
  <2>2. CASE Count(q, Carried) = 0
    <3>1. EventsIn(q) = <<>> /\ EventsIn(a) = <<>>
      BY <1>1, <2>1, <2>2, EventsNone
    <3> QED
      BY <1>6, <3>1
  <2>3. ASSUME NEW n \in DOMAIN q, q[n] \in Carried, EventsIn(q) = <<q[n].data>>
        PROVE  EventsIn(a) = EventsIn(q)
    <3>1. n \in DOMAIN a /\ a[n] = q[n]
      BY <1>1, <1>2
    <3> HIDE DEF a
    <3>2. EventsIn(a) = <<a[n].data>>
      BY <1>1, <2>1, <2>3, <3>1, EventsOne
    <3> QED
      BY <2>3, <3>1, <3>2
  <2> QED
    BY <1>6, <2>1, <2>2, <2>3, EventsCases
<1> QED
  BY <1>5, <1>6

LEMMA EventsTail ==
  ASSUME NEW q \in Seq(Packets), q # <<>>, Count(q, Carried) <= 1
  PROVE  IF Head(q) \in Carried
         THEN EventsIn(q) = <<Head(q).data>> /\ EventsIn(Tail(q)) = <<>>
         ELSE EventsIn(Tail(q)) = EventsIn(q)
<1> DEFINE r == Tail(q)
<1>1. /\ r \in Seq(Packets) /\ Len(r) = Len(q) - 1
      /\ \A i \in 1 .. Len(q) - 1 : r[i] = q[i + 1]
  BY HeadTailProperties
<1>2. /\ DOMAIN q = 1 .. Len(q) /\ Len(q) \in Nat \ {0}
      /\ DOMAIN r = 1 .. Len(q) - 1
  BY <1>1, LenProperties, EmptySeq
<1>3. Count(r, Carried) = IF Head(q) \in Carried THEN Count(q, Carried) - 1 ELSE Count(q, Carried)
  BY CountTail
<1>4. Count(r, Carried) \in Nat /\ Count(q, Carried) \in Nat
  BY <1>1, CountIsNat
<1>5. Head(q) = q[1]
  OBVIOUS
<1>6. CASE Head(q) \in Carried
  <2>1. Count(r, Carried) = 0
    BY <1>3, <1>4, <1>6
  <2>2. EventsIn(r) = <<>>
    BY <1>1, <2>1, EventsNone
  <2>3. EventsIn(q) = <<q[1].data>>
    BY <1>2, <1>5, <1>6, EventsOne
  <2> QED
    BY <1>5, <1>6, <2>2, <2>3
<1>7. CASE Head(q) \notin Carried
  <2>1. Count(r, Carried) = Count(q, Carried) /\ Count(r, Carried) <= 1
    BY <1>3, <1>4, <1>7
  <2>2. CASE Count(r, Carried) = 0
    <3>1. EventsIn(q) = <<>> /\ EventsIn(r) = <<>>
      BY <1>1, <2>1, <2>2, EventsNone
    <3> QED
      BY <1>7, <3>1
  <2>3. ASSUME NEW n \in DOMAIN r, r[n] \in Carried, EventsIn(r) = <<r[n].data>>
        PROVE  EventsIn(r) = EventsIn(q)
    <3>1. n + 1 \in DOMAIN q /\ q[n + 1] = r[n]
      BY <1>1, <1>2
    <3> HIDE DEF r
    <3>2. EventsIn(q) = <<q[n + 1].data>>
      BY <2>3, <3>1, EventsOne
    <3> QED
      BY <2>3, <3>1, <3>2
  <2> QED
    BY <1>1, <1>7, <2>1, <2>2, <2>3, EventsCases
<1> QED
  BY <1>6, <1>7

\* Without answers and reports there is no event on its way.
LEMMA NothingSent ==
  ASSUME TypeOK, Answers = 0, Reports = 0
  PROVE  Carriers = 0 /\ Sent = <<>>
<1>1. \A i \in DOMAIN s2c : s2c[i] \notin Carried
  BY Zeros DEF Carried, IsAnswer
<1>2. Carriers = 0 /\ s2c \in Seq(Packets)
  BY <1>1, Zeros DEF TypeOK
<1> QED
  BY <1>2, EventsNone DEF Carriers, Sent

-----------------------------------------------------------------------------
(* The invariant                                                           *)

Connected == cpc \in {"idle", "init", "get", "call", "term", "read", "termed"}
One(b) == IF b THEN 1 ELSE 0

DataInv == due \in Seq(Nat \ {0}) /\ Numbered(s2c)

StackInv ==
  \/ stack = Opening /\ ~s_poll /\ cpc \in {"greet", "login", "off"}
  \/ MainLoop(stack)

\* Before dbg_init each state of the client leaves little choice to the server.
HandshakeInv ==
  /\ cpc = "greet" =>
       c2s = <<>> /\ s2c = <<Packet("OPEN", 0, 0)>> /\ stack = Opening
  /\ cpc = "login" =>
       \/ /\ \E d \in {1, 2} : c2s = <<Packet("OK", 0, d)>>
          /\ s2c = <<>> /\ stack = Opening
       \/ /\ c2s = <<>>
          /\ \/ s2c = <<Packet("OK", 0, 1)>> /\ stack = Looping
             \/ s2c = <<Packet("OK", 0, 0)>> /\ stack = <<>>
  /\ cpc = "opened" => c2s = <<>> /\ s2c = <<>> /\ stack = Looping
  /\ cpc \in {"greet", "login", "opened"} =>
       ~s_poll /\ due = <<>> /\ happened = 0 /\ got = <<>>
  /\ cpc = "off" /\ stack = Opening =>
       ~clean /\ \E d \in {0, 1, 2} : c2s = <<Packet("OK", 0, d)>>
  /\ cpc # "off" => ~broken /\ ~clean
  /\ c_err => cpc = "idle"

\* A request of the client is in one place, and it is the one it waits for.
CallInv ==
  /\ Requests + Served <= 1
  /\ Connected => Requests + Served + Answers <= 1
  /\ Healthy => /\ Requests + Served + Answers = One(cpc \in Asking)
                /\ Gets + Fetching > 0 => cpc = "get"
                /\ cpc = "get" => Requests = Gets /\ Served = Fetching

IdInv ==
  Healthy => /\ RequestsAre(c2s, asked) /\ FramesAre(stack, asked)
             /\ AnswersAre(s2c, asked)
             /\ IF cpc = "get" THEN EachOK(s2c) ELSE NoneGiven(s2c)

\* The turn to report the next event is the server's, when it polls or will go
\* on polling, an EVENT packet's, or that of the event which the client holds.
Turns == One(s_poll) + Polls + Reports + One(c_pending # 0)
TurnInv ==
  /\ Turns <= 1
  /\ Gets + Fetching > 0 => Turns = 0
  /\ Connected => Carriers + One(s_poll) + Polls + One(c_pending # 0) <= 1
  /\ Healthy /\ One(s_poll) + Polls + Reports > 0
       => c_poll \/ (cpc = "get" /\ Answers = 1)

StreamInv == Connected => got \o Held \o Sent \o due = [i \in 1 .. happened |-> i]

AckInv == AckOrder(c2s) /\ (Fetching > 0 => NoAck(c2s))

\* Each message of the server has a frame that waits while the client has not
\* read the message or its answer is on the way.
NoteInv ==
  /\ Replies <= Told
  /\ cpc # "off" => Told = Replies + Notes
  /\ clean => Requests + Served = 0 /\ Replies = Told

\* The client's closing RPC_OK is its last packet.
GoodbyeInv ==
  /\ GoodbyeLast(c2s)
  /\ HasGoodbye(c2s) => cpc = "off" \/ stack = Opening
  /\ clean => cpc = "off" /\ ~broken /\ (stack # <<>> => HasGoodbye(c2s))

\* The answer to dbg_term is the server's last packet.
TermInv ==
  /\ cpc \in {"term", "termed"} => due = <<>>
  /\ cpc = "term" => AnswerLast(s2c)
  /\ cpc = "termed" => s2c = <<>>

Shape  == TypeOK /\ DataInv /\ StackInv /\ HandshakeInv
Order  == IdInv /\ AckInv /\ GoodbyeInv /\ TermInv
Counts == CallInv /\ TurnInv /\ NoteInv
IInv   == Shape /\ Order /\ Counts /\ StreamInv

-----------------------------------------------------------------------------
(* The server's steps                                                      *)

LEMMA NotOpening ==
  /\ ~MainLoop(Opening) /\ Opening # <<>>
  /\ MainLoop(Looping) /\ Looping # <<>>
BY DEF MainLoop, Opening, Looping, Frame

\* After the handshake the stack is the main loop's.
LEMMA InLoop ==
  ASSUME IInv, stack # <<>>, Top.op # "open",
         \/ s_poll \/ c2s # <<>> \/ cpc = "off" \/ Top.op # "loop"
  PROVE  /\ MainLoop(stack) /\ stack # Opening
         /\ cpc \notin {"greet", "login", "opened"}
<1>1. stack # Opening
  BY DEF Top, Opening, Frame
<1>2. MainLoop(stack)
  BY <1>1 DEF IInv, Shape, StackInv
<1>3. stack = Looping => Top.op = "loop"
  BY DEF Top, Looping, Frame
<1> QED
  BY <1>1, <1>2, <1>3 DEF IInv, Shape, HandshakeInv

\* How the next event moves along got, Held, Sent and due
Chain(a, b, c, d) == a \o b \o c \o d

LEMMA Regrouped ==
  ASSUME NEW S, NEW a \in Seq(S), NEW d \in Seq(S), NEW e \in S
  PROVE  /\ Chain(a, <<>>, <<>>, <<e>> \o d) = Chain(a, <<>>, <<e>>, d)
         /\ Chain(a, <<>>, <<e>>, d) = Chain(a, <<e>>, <<>>, d)
         /\ Chain(a, <<>>, <<e>>, d) = Chain(Append(a, e), <<>>, <<>>, d)
         /\ \A b \in Seq(S) :
              Chain(a, <<e>>, b, d) = Chain(Append(a, e), <<>>, b, d)
<1>1. Append(a, e) = a \o <<e>> /\ Append(a, e) \in Seq(S)
  BY AppendIsConcat, AppendProperties
<1>2. a \o <<>> = a /\ Append(a, e) \o <<>> = Append(a, e)
  BY <1>1, ConcatEmptySeq
<1>3. ASSUME NEW b \in Seq(S) PROVE a \o (b \o d) = (a \o b) \o d
  BY SMTT(30)
<1>4. <<e>> \in Seq(S)
  OBVIOUS
<1>5. a \o (<<e>> \o d) = (a \o <<e>>) \o d
  BY <1>3, <1>4
<1> QED
  BY <1>1, <1>2, <1>5, Zenon DEF Chain

LEMMA SentAreNumbers ==
  ASSUME NEW q \in Seq(Packets), Count(q, Carried) <= 1
  PROVE  EventsIn(q) \in Seq(Nat \ {0})
<1>1. CASE EventsIn(q) = <<>>
  BY <1>1
<1>2. ASSUME NEW n \in DOMAIN q, q[n] \in Carried, EventsIn(q) = <<q[n].data>>
      PROVE  EventsIn(q) \in Seq(Nat \ {0})
  <2>1. q[n].data \in Nat \ {0}
    BY <1>2 DEF Carried, Packets
  <2> QED
    BY <1>2, <2>1
<1> QED
  BY <1>1, <1>2, EventsCases

LEMMA SentOnce ==
  ASSUME TypeOK, TurnInv, Connected
  PROVE  /\ Carriers <= 1 /\ Count(s2c, Carried) <= 1
         /\ s2c \in Seq(Packets) /\ Sent \in Seq(Nat \ {0})
<1>1. s2c \in Seq(Packets)
  BY DEF TypeOK
<1>2. Carriers \in Nat /\ Polls \in Nat
  BY CountsAreNat
<1>3. Carriers + One(s_poll) + Polls + One(c_pending # 0) <= 1
  BY DEF TurnInv
<1>4. Carriers <= 1
  BY <1>2, <1>3 DEF One
<1> QED
  BY <1>1, <1>4, SentAreNumbers DEF Carriers, Sent

\* A packet without an event
LEMMA EventSkipped ==
  ASSUME TypeOK, TurnInv, Connected, NEW p \in Packets, p.data = 0,
         s2c' = Append(s2c, p)
  PROVE  Sent' = Sent
<1>1. s2c \in Seq(Packets) /\ p \notin Carried /\ Count(s2c, Carried) <= 1
  BY SentOnce DEF Carried
<1>2. Count(Append(s2c, p), Carried) <= 1
  BY <1>1, CountAppend
<1>3. EventsIn(Append(s2c, p)) = EventsIn(s2c)
  BY <1>1, <1>2, EventsAppend
<1> QED
  BY <1>3 DEF Sent

LEMMA ServeKeeps ==
  ASSUME IInv, Serve
  PROVE  IInv'
<1> DEFINE p == Head(c2s)
           f == Frame(p.code, p.id, s_poll)
<1> USE DEF IInv, Shape, Order, Counts
<1>1. /\ stack # <<>> /\ Top.op \in {"loop", "MSG", "SET_DEBUG_NAMES"}
      /\ c2s # <<>> /\ c2s' = Tail(c2s) /\ p.code \in Serving
      /\ stack' = Push(f) /\ s_poll' = FALSE
      /\ UNCHANGED <<s2c, clientVars, broken, due, happened, counts, got, clean>>
  BY DEF Serve, TopIs, Waiting
<1>2. MainLoop(stack) /\ stack # Opening /\ cpc \notin {"greet", "login", "opened"}
  BY <1>1, InLoop
<1>3. f \in Frames /\ f.op = p.code /\ f.id = p.id /\ f.saved = s_poll
  BY <1>1, ServerTakes DEF TypeOK, Frame, Frames, Packets
<1> HIDE DEF f
<1>4. /\ Requests' = Requests - 1 /\ Served' = Served + 1
      /\ Gets' = IF p.code = "GET_DEBUG_EVENT" THEN Gets - 1 ELSE Gets
      /\ Fetching' = IF p.code = "GET_DEBUG_EVENT" THEN Fetching + 1 ELSE Fetching
      /\ Polls' = IF s_poll THEN Polls + 1 ELSE Polls
      /\ Replies' = Replies /\ Told' = Told
      /\ UNCHANGED <<Answers, Reports, Notes, Carriers>>
      /\ Requests >= 1 /\ (p.code # "GET_DEBUG_EVENT" => Gets <= Requests - 1)
      /\ c2s' \in Seq(Packets) /\ stack' \in Seq(Frames) /\ stack' # <<>>
      /\ MainLoop(stack')
  BY <1>1, <1>2, <1>3, ServerTakes, Pushes, SameCounts DEF Serving
<1>5. /\ \A id : RequestsAre(c2s, id) => RequestsAre(c2s', id) /\ p.id = id
      /\ \A id : FramesAre(stack, id) /\ p.id = id => FramesAre(stack', id)
      /\ NoAck(c2s) => NoAck(c2s')
      /\ AckOrder(c2s) => AckOrder(c2s') /\ (p.code = "GET_DEBUG_EVENT" => NoAck(c2s'))
      /\ GoodbyeLast(c2s) => GoodbyeLast(c2s')
      /\ HasGoodbye(c2s') <=> HasGoodbye(c2s)
  BY <1>1, <1>3, ServerTakes, Pushes DEF IsGoodbye, Serving
<1>6. /\ Requests \in Nat /\ Gets \in Nat /\ Replies \in Nat
      /\ Answers \in Nat /\ Reports \in Nat /\ Notes \in Nat /\ Carriers \in Nat
      /\ Served \in Nat /\ Fetching \in Nat /\ Told \in Nat /\ Polls \in Nat
      /\ Gets <= Requests /\ Fetching <= Served
  BY CountsAreNat
<1>7. ~clean
  BY <1>4, <1>6 DEF NoteInv
<1>8. Shape'
  <2>1. TypeOK' /\ DataInv'
    BY <1>1, <1>4 DEF TypeOK, DataInv, clientVars, counts
  <2> QED
    BY <1>1, <1>2, <1>4, <2>1
    DEF StackInv, HandshakeInv, MainLoop, Opening, Frame, clientVars
<1>9. IdInv'
  BY <1>1, <1>5 DEF IdInv, Healthy, clientVars
<1>10. AckInv'
  BY <1>1, <1>4, <1>5, <1>6 DEF AckInv
<1>11. GoodbyeInv'
  BY <1>1, <1>2, <1>4, <1>5, <1>7 DEF GoodbyeInv, clientVars
<1>12. TermInv'
  BY <1>1 DEF TermInv, clientVars
<1>13. CallInv'
  BY <1>1, <1>4, <1>6 DEF CallInv, Healthy, Connected, clientVars, One
<1>14. TurnInv'
  BY <1>1, <1>4, <1>6 DEF TurnInv, Turns, CallInv, Healthy, Connected, clientVars, One
<1>15. NoteInv'
  BY <1>1, <1>4, <1>6, <1>7 DEF NoteInv, clientVars
<1>16. StreamInv'
  BY <1>1 DEF StreamInv, Connected, Sent, Held, clientVars
<1> QED
  BY <1>8, <1>9, <1>10, <1>11, <1>12, <1>13, <1>14, <1>15, <1>16

LEMMA poll_eventsKeeps ==
  ASSUME IInv, poll_events
  PROVE  IInv'
<1> DEFINE f == Frame("poll", 0, FALSE)
<1> USE DEF IInv, Shape, Order, Counts
<1>1. /\ stack # <<>> /\ s_poll /\ stack' = Push(f) /\ s_poll' = FALSE /\ cpc # "off"
      /\ UNCHANGED <<c2s, s2c, clientVars, broken, due, happened, counts, got, clean>>
  BY DEF poll_events, TopIs
<1>2. MainLoop(stack) /\ stack # Opening /\ cpc \notin {"greet", "login", "opened"}
  BY <1>1, NotOpening DEF StackInv, HandshakeInv
<1>3. f \in Frames /\ f.op = "poll" /\ f.id = 0 /\ f.saved = FALSE
  BY DEF Frame, Frames
<1> HIDE DEF f
<1>4. /\ Polls' = Polls + 1 /\ UNCHANGED <<Served, Fetching, Told>>
      /\ UNCHANGED <<Requests, Gets, Replies, Answers, Reports, Notes, Carriers>>
      /\ stack' \in Seq(Frames) /\ stack' # <<>> /\ MainLoop(stack')
      /\ \A id : FramesAre(stack, id) => FramesAre(stack', id)
  BY <1>1, <1>2, <1>3, Pushes, SameCounts DEF Serving
<1>5. /\ Requests \in Nat /\ Gets \in Nat /\ Replies \in Nat
      /\ Answers \in Nat /\ Reports \in Nat /\ Notes \in Nat /\ Carriers \in Nat
      /\ Served \in Nat /\ Fetching \in Nat /\ Told \in Nat /\ Polls \in Nat
  BY CountsAreNat
<1>6. Shape'
  <2>1. TypeOK' /\ DataInv'
    BY <1>1, <1>4 DEF TypeOK, DataInv, clientVars, counts
  <2> QED
    BY <1>1, <1>2, <1>4, <2>1
    DEF StackInv, HandshakeInv, MainLoop, Opening, Frame, clientVars
<1>7. IdInv' /\ TermInv'
  BY <1>1, <1>4 DEF IdInv, TermInv, Healthy, clientVars
<1>8. AckInv' /\ GoodbyeInv'
  BY <1>1, <1>2, <1>4 DEF AckInv, GoodbyeInv, clientVars
<1>9. CallInv'
  BY <1>1, <1>4, <1>5 DEF CallInv, Healthy, Connected, clientVars, One
<1>10. TurnInv'
  BY <1>1, <1>4, <1>5 DEF TurnInv, Turns, Healthy, Connected, clientVars, One
<1>11. NoteInv'
  BY <1>1, <1>4, <1>5 DEF NoteInv, clientVars
<1>12. StreamInv'
  BY <1>1 DEF StreamInv, Connected, Sent, Held, clientVars
<1> QED
  BY <1>6, <1>7, <1>8, <1>9, <1>10, <1>11, <1>12

LEMMA GetEvokKeeps ==
  ASSUME IInv, GetEvok
  PROVE  IInv'
<1> USE DEF IInv, Shape, Order, Counts
<1>1. /\ stack # <<>> /\ Top.op # "open" /\ c2s # <<>> /\ c2s' = Tail(c2s)
      /\ Head(c2s).code = "EVOK"
      /\ UNCHANGED <<s2c, clientVars, serverVars, due, happened, counts, got, clean>>
  BY DEF GetEvok, TopIs, Waiting, AnswerToEvok
<1>2. MainLoop(stack) /\ stack # Opening /\ cpc \notin {"greet", "login", "opened"}
  BY <1>1, InLoop
<1>3. /\ UNCHANGED <<Requests, Gets, Replies, Answers, Reports, Notes, Carriers>>
      /\ UNCHANGED <<Served, Fetching, Told, Polls>>
      /\ c2s' \in Seq(Packets)
      /\ \A id : RequestsAre(c2s, id) => RequestsAre(c2s', id)
      /\ NoAck(c2s) => NoAck(c2s')
      /\ AckOrder(c2s) => AckOrder(c2s')
      /\ GoodbyeLast(c2s) => GoodbyeLast(c2s')
      /\ HasGoodbye(c2s') <=> HasGoodbye(c2s)
  BY <1>1, ServerTakes, SameCounts DEF Serving, IsGoodbye, serverVars
<1>4. Shape'
  <2>1. TypeOK' /\ DataInv'
    BY <1>1, <1>3 DEF TypeOK, DataInv, clientVars, serverVars, counts
  <2> QED
    BY <1>1, <1>2, <2>1
    DEF StackInv, HandshakeInv, clientVars, serverVars
<1>5. IdInv' /\ TermInv'
  BY <1>1, <1>3 DEF IdInv, TermInv, Healthy, clientVars, serverVars
<1>6. AckInv' /\ GoodbyeInv'
  BY <1>1, <1>2, <1>3 DEF AckInv, GoodbyeInv, clientVars, serverVars
<1>7. CallInv' /\ TurnInv' /\ NoteInv'
  BY <1>1, <1>3
  DEF CallInv, TurnInv, Turns, NoteInv, Healthy, Connected, clientVars, serverVars
<1>8. StreamInv'
  BY <1>1 DEF StreamInv, Connected, Sent, Held, clientVars
<1> QED
  BY <1>4, <1>5, <1>6, <1>7, <1>8

LEMMA FetchNothingKeeps ==
  ASSUME IInv, FetchNothing
  PROVE  IInv'
<1> DEFINE p == Packet("OK", Top.id, 0)
<1> USE DEF IInv, Shape, Order, Counts
<1>1. /\ stack # <<>> /\ Top.op \in {"poll", "GET_DEBUG_EVENT"}
      /\ stack' = Under /\ s_poll' = TRUE
      /\ s2c' = IF Top.op = "poll" THEN s2c ELSE Append(s2c, p)
      /\ UNCHANGED <<c2s, clientVars, broken, due, happened, counts, got, clean>>
  BY DEF FetchNothing, TopIs, PollsAfterNothing
<1>2. MainLoop(stack) /\ stack # Opening /\ cpc \notin {"greet", "login", "opened"}
  BY <1>1, InLoop
<1>3. /\ Requests \in Nat /\ Gets \in Nat /\ Replies \in Nat
      /\ Answers \in Nat /\ Reports \in Nat /\ Notes \in Nat /\ Carriers \in Nat
      /\ Served \in Nat /\ Fetching \in Nat /\ Told \in Nat /\ Polls \in Nat
      /\ Gets <= Requests /\ Fetching <= Served
  BY CountsAreNat
<1>4. /\ UNCHANGED <<Requests, Gets, Replies, Told>>
      /\ stack' \in Seq(Frames) /\ MainLoop(stack') /\ stack' # Opening
      /\ \A id : FramesAre(stack, id) => FramesAre(stack', id)
      /\ s2c' \in Seq(Packets)
      /\ Numbered(s2c) => Numbered(s2c')
      /\ Top.id \in Nat
  <2>1. Top.id \in Nat /\ p \in Packets
    BY <1>1, TopCounted DEF Packet, Packets, Codes, Frames
  <2>2. s2c' \in Seq(Packets) /\ (Numbered(s2c) => Numbered(s2c'))
    BY <1>1, <2>1, ServerSends DEF TypeOK, Packet, IsNote
  <2> QED
    BY <1>1, <1>2, <2>1, <2>2, Pops, NotOpening, SameCounts
<1>5. Shape'
  <2>1. TypeOK' /\ DataInv'
    BY <1>1, <1>4 DEF TypeOK, DataInv, clientVars, counts
  <2> QED
    BY <1>1, <1>2, <1>4, <2>1 DEF StackInv, HandshakeInv, clientVars
<1>6. GoodbyeInv'
  BY <1>1, <1>2, <1>4 DEF GoodbyeInv, clientVars
<1>7. StreamInv' /\ IdInv' /\ AckInv' /\ TermInv' /\ CallInv' /\ TurnInv' /\ NoteInv'
  <2>1. CASE Top.op = "poll"
    <3>1. /\ UNCHANGED <<Served, Fetching>> /\ s2c' = s2c
          /\ UNCHANGED <<Answers, Reports, Notes, Carriers>>
          /\ Polls' = Polls - 1 /\ Polls >= 1
      BY <1>1, <2>1, Pops, TopCounted, SameCounts DEF Serving
    <3>2. ~s_poll
      BY <1>3, <3>1 DEF TurnInv, Turns, One
    <3>3. StreamInv' /\ IdInv' /\ AckInv' /\ TermInv'
      BY <1>1, <1>4, <3>1 DEF StreamInv, Connected, Sent, Held, clientVars,
         IdInv, AckInv, TermInv, Healthy
    <3>4. CallInv' /\ NoteInv'
      BY <1>1, <1>4, <3>1 DEF CallInv, NoteInv, Healthy, Connected, clientVars
    <3>5. TurnInv'
      BY <1>1, <1>3, <1>4, <3>1, <3>2
      DEF TurnInv, Turns, CallInv, Healthy, Connected, clientVars, One
    <3> QED
      BY <3>3, <3>4, <3>5
  <2>2. CASE Top.op = "GET_DEBUG_EVENT"
    <3>1. /\ Served' = Served - 1 /\ Fetching' = Fetching - 1
          /\ Served >= 1 /\ Fetching >= 1
          /\ Polls' = IF Top.saved THEN Polls - 1 ELSE Polls
          /\ Top.saved => Polls >= 1
          /\ \A id : FramesAre(stack, id) => Top.id = id
      BY <1>1, <2>2, Pops, TopCounted DEF Serving
    <3>2. p \in Packets /\ p.code = "OK" /\ p.id = Top.id /\ p.data = 0
      BY <1>4 DEF Packet, Packets, Codes
    <3> HIDE DEF p
    <3>3. /\ s2c' = Append(s2c, p)
          /\ Answers' = Answers + 1
          /\ UNCHANGED <<Reports, Notes, Carriers>>
          /\ AnswersAre(s2c, Top.id) => AnswersAre(s2c', Top.id)
          /\ EachOK(s2c) => EachOK(s2c')
          /\ NoneGiven(s2c) => NoneGiven(s2c')
      BY <1>1, <2>2, <3>2, ServerSends
    <3>4. /\ Requests = 0 /\ Gets = 0 /\ Served = 1 /\ Fetching = 1
          /\ ~s_poll /\ Polls = 0 /\ Reports = 0 /\ c_pending = 0 /\ ~Top.saved
          /\ Polls' = 0
      BY <1>3, <3>1 DEF TurnInv, Turns, CallInv, One
    <3>5. Connected => Answers = 0 /\ Carriers = 0 /\ Sent = <<>>
      BY <1>3, <3>4, NothingSent DEF CallInv
    <3>6. /\ Healthy => cpc = "get"
          /\ cpc \notin {"term", "termed"} /\ ~clean
      BY <1>3, <3>4 DEF CallInv, Healthy, HandshakeInv, NoteInv
    <3>7. StreamInv'
      <4>1. ASSUME Connected PROVE Sent' = <<>>
        <5>1. Count(s2c', Carried) = 0
          BY <3>3, <3>5, <4>1 DEF Carriers
        <5> QED
          BY <1>4, <5>1, EventsNone DEF Sent
      <4> QED
        BY <1>1, <3>5, <4>1 DEF StreamInv, Connected, Held, clientVars
    <3>8. IdInv'
      BY <1>1, <1>4, <3>1, <3>3, <3>6 DEF IdInv, Healthy, clientVars
    <3>9. AckInv' /\ TermInv'
      BY <1>1, <3>1, <3>4, <3>6 DEF AckInv, TermInv, clientVars
    <3>10. CallInv'
      BY <1>1, <1>3, <1>4, <3>1, <3>3, <3>4, <3>5, <3>6
      DEF CallInv, Healthy, Connected, clientVars, One
    <3>11. NoteInv'
      BY <1>1, <1>3, <1>4, <3>3, <3>6 DEF NoteInv, clientVars
    <3>12. TurnInv'
      BY <1>1, <1>3, <1>4, <3>1, <3>3, <3>4, <3>5, <3>6
      DEF TurnInv, Turns, Healthy, Connected, clientVars, One
    <3> QED
      BY <3>7, <3>8, <3>9, <3>10, <3>11, <3>12
  <2> QED
    BY <1>1, <2>1, <2>2
<1> QED
  BY <1>5, <1>6, <1>7

LEMMA FetchEventKeeps ==
  ASSUME IInv, FetchEvent
  PROVE  IInv'
<1> DEFINE e == Head(due)
           p == IF Top.op = "poll" THEN Packet("EVENT", 0, e) ELSE Packet("OK", Top.id, e)
<1> USE DEF IInv, Shape, Order, Counts
<1>1. /\ stack # <<>> /\ Top.op \in {"poll", "GET_DEBUG_EVENT"}
      /\ due # <<>> /\ due' = Tail(due)
      /\ stack' = Under /\ s2c' = Append(s2c, p)
      /\ s_poll' = (Top.op = "GET_DEBUG_EVENT" /\ Top.saved)
      /\ UNCHANGED <<c2s, clientVars, broken, happened, counts, got, clean>>
  BY DEF FetchEvent, TopIs, PollsAfterEvent
<1>2. MainLoop(stack) /\ stack # Opening /\ cpc \notin {"greet", "login", "opened"}
  BY <1>1, InLoop
<1>3. /\ Requests \in Nat /\ Gets \in Nat /\ Replies \in Nat
      /\ Answers \in Nat /\ Reports \in Nat /\ Notes \in Nat /\ Carriers \in Nat
      /\ Served \in Nat /\ Fetching \in Nat /\ Told \in Nat /\ Polls \in Nat
      /\ Gets <= Requests /\ Fetching <= Served
  BY CountsAreNat
<1>4. /\ e \in Nat \ {0} /\ due' \in Seq(Nat \ {0}) /\ due = <<e>> \o due'
  BY <1>1, HeadTailProperties DEF DataInv
<1> HIDE DEF e
<1>5. /\ p \in Packets /\ p.data = e /\ p \in Carried /\ Top.id \in Nat
      /\ p.code = (IF Top.op = "poll" THEN "EVENT" ELSE "OK")
      /\ Top.op # "poll" => p.id = Top.id
  BY <1>1, <1>4, TopCounted DEF Packet, Packets, Codes, Frames, Carried
<1> HIDE DEF p
<1>6. /\ UNCHANGED <<Requests, Gets, Replies, Told, Notes>>
      /\ Carriers' = Carriers + 1
      /\ stack' \in Seq(Frames) /\ MainLoop(stack') /\ stack' # Opening
      /\ \A id : FramesAre(stack, id) => FramesAre(stack', id)
      /\ s2c' \in Seq(Packets)
      /\ Numbered(s2c) => Numbered(s2c')
      /\ AnswersAre(s2c, Top.id) /\ Top.op # "poll" => AnswersAre(s2c', Top.id)
      /\ EachOK(s2c) => EachOK(s2c')
  BY <1>1, <1>2, <1>4, <1>5, Pops, NotOpening, SameCounts, ServerSends
  DEF IsNote, IsAnswer
<1>7. Shape'
  <2>1. TypeOK' /\ DataInv'
    <3>1. due' \in Seq(Nat) /\ s_poll' \in BOOLEAN
      BY <1>1, <1>4, SeqDef
    <3> QED
      BY <1>1, <1>4, <1>6, <3>1 DEF TypeOK, DataInv, clientVars, counts
  <2> QED
    BY <1>1, <1>2, <1>6, <2>1 DEF StackInv, HandshakeInv, clientVars
<1>8. GoodbyeInv' /\ TermInv'
  BY <1>1, <1>2, <1>6 DEF GoodbyeInv, TermInv, clientVars
<1>9. ASSUME Top.op = "poll"
      PROVE  /\ IdInv' /\ AckInv' /\ CallInv' /\ TurnInv' /\ NoteInv'
             /\ Connected => c_pending = 0 /\ Carriers = 0
  <2>1. /\ UNCHANGED <<Served, Fetching, Answers>>
        /\ Polls' = Polls - 1 /\ Polls >= 1 /\ Reports' = Reports + 1
        /\ s_poll' = FALSE
    BY <1>1, <1>5, <1>9, Pops, TopCounted, ServerSends DEF Serving
  <2>2. ~s_poll
    BY <1>3, <2>1 DEF TurnInv, Turns, One
  <2>3. Connected => c_pending = 0 /\ Carriers = 0
    BY <1>3, <2>1 DEF TurnInv, One
  <2>4. IdInv'
    <3>1. \A id : AnswersAre(s2c, id) => AnswersAre(s2c', id)
      BY <1>1, <1>5, <1>9, ServerSends DEF IsAnswer
    <3>2. NoneGiven(s2c) => NoneGiven(s2c')
      BY <1>1, <1>5, <1>9, ServerSends DEF IsAnswer
    <3> QED
      BY <1>1, <1>6, <3>1, <3>2 DEF IdInv, Healthy, clientVars
  <2>5. AckInv' /\ CallInv' /\ NoteInv'
    BY <1>1, <1>6, <2>1 DEF AckInv, CallInv, NoteInv, Healthy, Connected, clientVars
  <2>6. TurnInv'
    BY SMTT(30), <1>1, <1>3, <1>6, <2>1, <2>2, <2>3
    DEF TurnInv, Turns, Healthy, Connected, clientVars, One
  <2> QED
    BY <2>3, <2>4, <2>5, <2>6
<1>10. ASSUME Top.op = "GET_DEBUG_EVENT"
       PROVE  /\ IdInv' /\ AckInv' /\ CallInv' /\ TurnInv' /\ NoteInv'
              /\ Connected => c_pending = 0 /\ Carriers = 0
  <2>1. /\ Served' = Served - 1 /\ Fetching' = Fetching - 1
        /\ Served >= 1 /\ Fetching >= 1
        /\ Polls' = IF Top.saved THEN Polls - 1 ELSE Polls
        /\ Top.saved => Polls >= 1
        /\ \A id : FramesAre(stack, id) => Top.id = id
    BY <1>1, <1>10, Pops, TopCounted DEF Serving
  <2>2. Answers' = Answers + 1 /\ UNCHANGED Reports
    BY <1>1, <1>5, <1>10, ServerSends
  <2>3. /\ Requests = 0 /\ Gets = 0 /\ Served = 1 /\ Fetching = 1
        /\ ~s_poll /\ Polls = 0 /\ Reports = 0 /\ c_pending = 0 /\ ~Top.saved
    BY <1>3, <2>1 DEF TurnInv, Turns, CallInv, One
  <2>4. Polls' = 0 /\ s_poll' = FALSE
    BY <1>1, <2>1, <2>3
  <2>5. Connected => Answers = 0 /\ Carriers = 0
    BY <1>3, <2>3, NothingSent DEF CallInv
  <2>6. Healthy => cpc = "get"
    BY <1>3, <2>3 DEF CallInv
  <2>7. IdInv'
    BY <1>1, <1>5, <1>6, <1>10, <2>1, <2>6 DEF IdInv, Healthy, clientVars
  <2>8. AckInv'
    BY <1>1, <1>6, <2>1, <2>3 DEF AckInv
  <2>9. CallInv'
    BY <1>1, <1>3, <1>6, <2>2, <2>1, <2>3, <2>5, <2>6
    DEF CallInv, Healthy, Connected, clientVars, One
  <2>10. NoteInv'
    BY <1>1, <1>3, <1>6, <2>3 DEF NoteInv, clientVars
  <2>11. TurnInv'
    BY <1>1, <1>3, <1>6, <2>2, <2>1, <2>3, <2>4, <2>5, <2>6
    DEF TurnInv, Turns, Healthy, Connected, clientVars, One
  <2> QED
    BY <2>3, <2>5, <2>7, <2>8, <2>9, <2>10, <2>11
<1>11. /\ IdInv' /\ AckInv' /\ CallInv' /\ TurnInv' /\ NoteInv'
       /\ Connected => c_pending = 0 /\ Carriers = 0
  BY <1>1, <1>9, <1>10
<1>12. StreamInv'
  <2> SUFFICES ASSUME Connected
               PROVE  (got \o Held \o Sent \o due)' = [i \in 1 .. happened |-> i]
    BY <1>1 DEF StreamInv, Connected, clientVars
  <2>1. Sent = <<>> /\ s2c \in Seq(Packets)
    BY <1>11, EventsNone DEF TypeOK, Carriers, Sent
  <2>2. Count(Append(s2c, p), Carried) <= 1
    BY <1>1, <1>6, <1>11 DEF Carriers
  <2>3. Sent' = <<e>>
    BY <1>1, <1>5, <2>1, <2>2, EventsAppend DEF Sent
  <2>4. Held = <<>> /\ Held' = <<>> /\ got' = got /\ got \in Seq(Nat \ {0})
    BY <1>1, <1>11 DEF Held, clientVars, TypeOK
  <2>5. \A d \in Seq(Nat \ {0}) :
          Chain(got, <<>>, <<>>, <<e>> \o d) = Chain(got, <<>>, <<e>>, d)
    <3> DEFINE N == Nat \ {0}
    <3>1. got \in Seq(N) /\ e \in N
      BY <1>4, <2>4
    <3> HIDE DEF N
    <3>2. \A d \in Seq(N) :
            Chain(got, <<>>, <<>>, <<e>> \o d) = Chain(got, <<>>, <<e>>, d)
      BY <3>1, Regrouped
    <3> QED
      BY <3>2 DEF N
  <2>6. Chain(got, <<>>, <<>>, due) = [i \in 1 .. happened |-> i]
    BY <2>1, <2>4 DEF StreamInv, Chain
  <2>7. Chain(got, <<>>, <<e>>, due') = [i \in 1 .. happened |-> i]
    BY <1>4, <2>5, <2>6
  <2> QED
    BY <2>3, <2>4, <2>7 DEF Chain
<1> QED
  BY <1>7, <1>8, <1>11, <1>12

LEMMA FetchNoteKeeps ==
  ASSUME IInv, FetchNote
  PROVE  IInv'
<1> DEFINE p == Packet("MSG", messages + 1, 0)
           f == Frame("MSG", messages + 1, FALSE)
<1> USE DEF IInv, Shape, Order, Counts
<1>1. /\ stack # <<>> /\ Top.op \in {"poll", "GET_DEBUG_EVENT"} /\ Debugging
      /\ messages' = messages + 1
      /\ stack' = Append(Append(Under, [Top EXCEPT !.noted = TRUE]), f)
      /\ s2c' = Append(s2c, p)
      /\ UNCHANGED <<c2s, clientVars, s_poll, broken, due, happened, requests,
                     failures, sessions, got, clean>>
  BY DEF FetchNote, TopIs
<1>2. messages \in Nat /\ messages + 1 \in Nat /\ messages + 1 # 0
  BY SMTT(30) DEF TypeOK
<1>3. MainLoop(stack) /\ stack # Opening /\ cpc \notin {"greet", "login", "opened"}
  BY <1>1, InLoop
<1>4. /\ f \in Frames /\ f.op = "MSG" /\ f.saved = FALSE
      /\ p \in Packets /\ p.code = "MSG" /\ p.id # 0 /\ p.data = 0
  BY <1>2 DEF Frame, Frames, Waiting, Packet, Packets, Codes
<1> HIDE DEF f, p
<1>5. /\ UNCHANGED <<Requests, Gets, Replies, Served, Fetching, Polls>>
      /\ Told' = Told + 1
      /\ stack' \in Seq(Frames) /\ MainLoop(stack')
      /\ \A id : FramesAre(stack, id) => FramesAre(stack', id)
  BY <1>1, <1>3, <1>4, NotesPushed, SameCounts
<1>6. /\ UNCHANGED <<Answers, Reports, Carriers>> /\ Notes' = Notes + 1
      /\ s2c' \in Seq(Packets)
      /\ Numbered(s2c) => Numbered(s2c')
      /\ \A id : AnswersAre(s2c, id) => AnswersAre(s2c', id)
      /\ EachOK(s2c) => EachOK(s2c')
      /\ NoneGiven(s2c) => NoneGiven(s2c')
  BY <1>1, <1>4, ServerSends DEF IsAnswer
<1>7. /\ Requests \in Nat /\ Replies \in Nat /\ Notes \in Nat
      /\ Served \in Nat /\ Told \in Nat /\ Carriers \in Nat
  BY CountsAreNat
<1>8. Shape'
  <2>1. TypeOK' /\ DataInv'
    <3>1. {messages', happened, requests, failures, sessions} \subseteq Nat
      BY <1>2, <1>1 DEF TypeOK
    <3> QED
      BY <1>1, <1>5, <1>6, <3>1 DEF TypeOK, DataInv, clientVars
  <2> QED
    BY <1>1, <1>3, <1>5, <2>1, NotOpening DEF StackInv, HandshakeInv, clientVars
<1>9. IdInv'
  BY <1>1, <1>5, <1>6 DEF IdInv, Healthy, clientVars
<1>10. AckInv' /\ GoodbyeInv' /\ TermInv'
  BY <1>1, <1>3, <1>5
  DEF AckInv, GoodbyeInv, TermInv, HandshakeInv, Debugging, clientVars
<1>11. CallInv' /\ TurnInv'
  BY <1>1, <1>5, <1>6 DEF CallInv, TurnInv, Turns, Healthy, Connected, clientVars
<1>12. NoteInv'
  <2>1. ~clean
    BY <1>1 DEF HandshakeInv, Debugging
  <2> QED
    BY <1>1, <1>5, <1>6, <1>7, <2>1 DEF NoteInv, clientVars
<1>13. StreamInv'
  BY <1>1, <1>4, <1>6, EventSkipped DEF StreamInv, Connected, Held, clientVars
<1> QED
  BY <1>8, <1>9, <1>10, <1>11, <1>12, <1>13

LEMMA CallAsksKeeps ==
  ASSUME IInv, NEW code \in {"MSG", "SET_DEBUG_NAMES"}, CallAsks(code)
  PROVE  IInv'
<1> DEFINE p == Packet(code, messages + 1, 0)
           f == Frame(code, messages + 1, FALSE)
<1> USE DEF IInv, Shape, Order, Counts
<1>1. /\ stack # <<>> /\ Top.op = "CALL"
      /\ messages' = messages + 1
      /\ stack' = Push(f) /\ s2c' = Append(s2c, p)
      /\ UNCHANGED <<c2s, clientVars, s_poll, broken, due, happened, requests,
                     failures, sessions, got, clean>>
  BY DEF CallAsks, TopIs
<1>2. messages \in Nat /\ messages + 1 \in Nat /\ messages + 1 # 0
  BY SMTT(30) DEF TypeOK
<1>3. MainLoop(stack) /\ stack # Opening /\ cpc \notin {"greet", "login", "opened"}
  BY <1>1, InLoop
<1>4. /\ f \in Frames /\ f.op = code /\ f.saved = FALSE
      /\ p \in Packets /\ p.code = code /\ p.id # 0 /\ p.data = 0
  BY <1>2 DEF Frame, Frames, Waiting, Packet, Packets, Codes
<1> HIDE DEF f, p
<1>5. /\ UNCHANGED <<Requests, Gets, Replies, Served, Fetching, Polls>>
      /\ Told' = Told + 1 /\ Served >= 1
      /\ stack' \in Seq(Frames) /\ MainLoop(stack')
      /\ \A id : FramesAre(stack, id) => FramesAre(stack', id)
  <2>1. UNCHANGED <<Requests, Gets, Replies>> /\ Served >= 1
    BY <1>1, TopCounted, SameCounts DEF Serving
  <2> QED
    BY <1>1, <1>3, <1>4, <2>1, Pushes DEF Serving
<1>6. /\ UNCHANGED <<Answers, Reports, Carriers>> /\ Notes' = Notes + 1
      /\ s2c' \in Seq(Packets)
      /\ Numbered(s2c) => Numbered(s2c')
      /\ \A id : AnswersAre(s2c, id) => AnswersAre(s2c', id)
      /\ EachOK(s2c) => EachOK(s2c')
      /\ NoneGiven(s2c) => NoneGiven(s2c')
      /\ Answers = 0 => AnswerLast(s2c')
  BY <1>1, <1>4, ServerSends DEF IsAnswer
<1>7. /\ Requests \in Nat /\ Replies \in Nat /\ Notes \in Nat /\ Answers \in Nat
      /\ Served \in Nat /\ Told \in Nat /\ Carriers \in Nat
  BY CountsAreNat
<1>8. ~clean /\ cpc # "termed" /\ (Connected => Answers = 0)
  BY <1>5, <1>7 DEF CallInv, NoteInv, Healthy, HandshakeInv, Asking, Connected, One
<1>9. Shape'
  <2>1. TypeOK' /\ DataInv'
    <3>1. {messages', happened, requests, failures, sessions} \subseteq Nat
      BY <1>2, <1>1 DEF TypeOK
    <3> QED
      BY <1>1, <1>5, <1>6, <3>1 DEF TypeOK, DataInv, clientVars
  <2> QED
    BY <1>1, <1>3, <1>5, <2>1, NotOpening DEF StackInv, HandshakeInv, clientVars
<1>10. IdInv'
  BY <1>1, <1>5, <1>6 DEF IdInv, Healthy, clientVars
<1>11. AckInv' /\ GoodbyeInv' /\ TermInv'
  BY <1>1, <1>3, <1>5, <1>6, <1>8
  DEF AckInv, GoodbyeInv, TermInv, Connected, clientVars
<1>12. CallInv' /\ TurnInv'
  BY <1>1, <1>5, <1>6 DEF CallInv, TurnInv, Turns, Healthy, Connected, clientVars
<1>13. NoteInv'
  BY <1>1, <1>5, <1>6, <1>7, <1>8 DEF NoteInv, clientVars
<1>14. StreamInv'
  BY <1>1, <1>4, <1>6, EventSkipped DEF StreamInv, Connected, Held, clientVars
<1> QED
  BY <1>9, <1>10, <1>11, <1>12, <1>13, <1>14

LEMMA AnswerCallKeeps ==
  ASSUME IInv, NEW code \in {"OK", "UNK"}, AnswerCall(code)
  PROVE  IInv'
<1> DEFINE p == Packet(code, Top.id, 0)
<1> USE DEF IInv, Shape, Order, Counts
<1>1. /\ stack # <<>> /\ Top.op = "CALL"
      /\ stack' = Under /\ s2c' = Append(s2c, p)
      /\ s_poll' = (s_poll \/ Top.saved)
      /\ UNCHANGED <<c2s, clientVars, broken, due, happened, counts, got, clean>>
  BY DEF AnswerCall, TopIs
<1>2. MainLoop(stack) /\ stack # Opening /\ cpc \notin {"greet", "login", "opened"}
  BY <1>1, InLoop
<1>3. /\ Requests \in Nat /\ Gets \in Nat /\ Replies \in Nat
      /\ Answers \in Nat /\ Reports \in Nat /\ Notes \in Nat /\ Carriers \in Nat
      /\ Served \in Nat /\ Fetching \in Nat /\ Told \in Nat /\ Polls \in Nat
      /\ Gets <= Requests /\ Fetching <= Served
  BY CountsAreNat
<1>4. /\ Top.id \in Nat /\ Top.saved \in BOOLEAN
      /\ Served >= 1 /\ Fetching <= Served - 1 /\ (Top.saved => Polls >= 1)
      /\ \A id : FramesAre(stack, id) => Top.id = id
  BY <1>1, TopCounted DEF Serving, Frames
<1>5. p \in Packets /\ p.code = code /\ p.id = Top.id /\ p.data = 0
  BY <1>4 DEF Packet, Packets, Codes
<1> HIDE DEF p
<1>6. /\ UNCHANGED <<Requests, Gets, Replies, Told, Fetching>>
      /\ Served' = Served - 1
      /\ Polls' = IF Top.saved THEN Polls - 1 ELSE Polls
      /\ stack' \in Seq(Frames) /\ MainLoop(stack') /\ stack' # Opening
      /\ \A id : FramesAre(stack, id) => FramesAre(stack', id)
  BY <1>1, <1>2, Pops, NotOpening, SameCounts DEF Serving
<1>7. /\ UNCHANGED <<Reports, Notes, Carriers>> /\ Answers' = Answers + 1
      /\ s2c' \in Seq(Packets)
      /\ Numbered(s2c) => Numbered(s2c')
      /\ AnswersAre(s2c, Top.id) => AnswersAre(s2c', Top.id)
      /\ NoneGiven(s2c) => NoneGiven(s2c')
      /\ Answers = 0 => AnswerLast(s2c')
  BY <1>1, <1>5, ServerSends DEF IsNote
<1>8. /\ Requests = 0 /\ Gets = 0 /\ Served = 1 /\ Fetching = 0
      /\ Connected => Answers = 0
  BY <1>3, <1>4 DEF CallInv
<1>9. /\ Healthy => cpc \in Asking /\ cpc # "get"
      /\ ~clean /\ cpc # "termed"
  BY <1>3, <1>8 DEF CallInv, NoteInv, Healthy, HandshakeInv, Asking, One
<1>10. Shape'
  <2>1. TypeOK' /\ DataInv'
    <3>1. s_poll' \in BOOLEAN
      BY <1>1
    <3> QED
      BY <1>1, <1>6, <1>7, <3>1 DEF TypeOK, DataInv, clientVars, counts
  <2> QED
    BY <1>1, <1>2, <1>6, <2>1 DEF StackInv, HandshakeInv, clientVars
<1>11. IdInv'
  BY <1>1, <1>4, <1>6, <1>7, <1>9 DEF IdInv, Healthy, clientVars
<1>12. AckInv' /\ GoodbyeInv' /\ TermInv'
  BY <1>1, <1>2, <1>6, <1>7, <1>8, <1>9
  DEF AckInv, GoodbyeInv, TermInv, Connected, clientVars
<1>13. CallInv'
  BY <1>1, <1>3, <1>6, <1>7, <1>8, <1>9
  DEF CallInv, Healthy, Connected, clientVars, One
<1>14. NoteInv'
  BY <1>1, <1>3, <1>6, <1>7, <1>9 DEF NoteInv, clientVars
<1>15. TurnInv'
  <2>1. One(s_poll) + Polls <= 1 /\ One(s_poll') + Polls' = One(s_poll) + Polls
    <3>1. Turns <= 1
      BY DEF TurnInv
    <3>2. One(s_poll) + Polls <= 1
      BY <1>3, <3>1 DEF Turns, One
    <3>3. CASE Top.saved
      <4>1. Polls >= 1 /\ Polls' = Polls - 1 /\ s_poll' = TRUE
        BY <1>1, <1>4, <1>6, <3>3
      <4>2. ~s_poll
        BY <1>3, <3>2, <4>1 DEF One
      <4>3. One(s_poll') = 1 /\ One(s_poll) = 0
        BY <4>1, <4>2 DEF One
      <4> QED
        BY <1>3, <3>2, <4>1, <4>3
    <3>4. CASE ~Top.saved
      BY <1>1, <1>6, <3>2, <3>4 DEF One
    <3> QED
      BY <3>3, <3>4
  <2> QED
    BY <1>1, <1>3, <1>6, <1>7, <1>8, <1>9, <2>1
    DEF TurnInv, Turns, Healthy, Connected, clientVars, One
<1>16. StreamInv'
  BY <1>1, <1>5, EventSkipped DEF StreamInv, Connected, Held, clientVars
<1> QED
  BY <1>10, <1>11, <1>12, <1>13, <1>14, <1>15, <1>16

LEMMA ServerReceiveFailsKeeps ==
  ASSUME IInv, ServerReceiveFails
  PROVE  IInv'
<1> USE DEF IInv, Shape, Order, Counts
<1>1. /\ stack # <<>> /\ c2s = <<>> /\ cpc = "off" /\ broken' = TRUE
      /\ stack' = Under
      /\ UNCHANGED <<c2s, s2c, clientVars, s_poll, due, happened, counts, got, clean>>
  BY DEF ServerReceiveFails, TopIs
<1>2. stack # Opening /\ ~clean
  BY <1>1, EmptyQueue DEF HandshakeInv, GoodbyeInv
<1>3. MainLoop(stack)
  BY <1>2 DEF StackInv
<1>4. /\ Requests \in Nat /\ Replies \in Nat /\ Served \in Nat /\ Fetching \in Nat
      /\ Told \in Nat /\ Polls \in Nat /\ Reports \in Nat /\ Gets \in Nat
  BY CountsAreNat
<1>5. /\ Requests = 0 /\ Gets = 0 /\ Replies = 0
      /\ UNCHANGED <<Requests, Gets, Replies, Answers, Reports, Notes, Carriers>>
  BY <1>1, ShortQueues, SameCounts DEF Requests, Gets, Replies
<1>6. /\ stack' \in Seq(Frames) /\ MainLoop(stack') /\ stack' # Opening
      /\ Served' = IF Top.op \in Serving THEN Served - 1 ELSE Served
      /\ Fetching' = IF Top.op = "GET_DEBUG_EVENT" THEN Fetching - 1 ELSE Fetching
      /\ Told' = IF Top.op \in {"MSG", "SET_DEBUG_NAMES"} THEN Told - 1 ELSE Told
      /\ Polls' = IF Top.op = "poll" \/ Top.saved THEN Polls - 1 ELSE Polls
      /\ Top.op \in {"MSG", "SET_DEBUG_NAMES"} => Told >= 1
      /\ Top.op = "poll" \/ Top.saved => Polls >= 1
  BY <1>1, <1>3, Pops, NotOpening, TopCounted
<1>7. Shape'
  <2>1. TypeOK' /\ DataInv'
    BY <1>1, <1>6 DEF TypeOK, DataInv, clientVars, counts
  <2> QED
    BY <1>1, <1>2, <1>6, <2>1 DEF StackInv, HandshakeInv, clientVars
<1>8. IdInv' /\ AckInv' /\ GoodbyeInv' /\ TermInv'
  BY <1>1, <1>2, EmptyQueue
  DEF IdInv, AckInv, GoodbyeInv, TermInv, Healthy, clientVars
<1>9. CallInv'
  BY <1>1, <1>4, <1>5, <1>6 DEF CallInv, Healthy, Connected, clientVars
<1>10. TurnInv'
  BY <1>1, <1>4, <1>5, <1>6
  DEF TurnInv, Turns, Healthy, Connected, clientVars, One
<1>11. NoteInv'
  BY <1>1, <1>2, <1>4, <1>5, <1>6 DEF NoteInv, clientVars
<1>12. StreamInv'
  BY <1>1 DEF StreamInv, Connected, clientVars
<1> QED
  BY <1>7, <1>8, <1>9, <1>10, <1>11, <1>12

LEMMA AnsweredKeeps ==
  ASSUME IInv, Answered
  PROVE  IInv'
<1> DEFINE p == Head(c2s)
<1> USE DEF IInv, Shape, Order, Counts
<1>1. /\ stack # <<>> /\ Top.op \in {"loop", "MSG", "SET_DEBUG_NAMES"}
      /\ c2s # <<>> /\ p.code = "OK" /\ c2s' = Tail(c2s)
      /\ stack' = Under
      /\ UNCHANGED <<s2c, clientVars, s_poll, broken, due, happened, counts, got, clean>>
  BY DEF Answered, TopIs, Waiting
<1>2. MainLoop(stack) /\ stack # Opening /\ cpc \notin {"greet", "login", "opened"}
  BY <1>1, InLoop
<1>3. /\ Requests \in Nat /\ Gets \in Nat /\ Replies \in Nat
      /\ Answers \in Nat /\ Reports \in Nat /\ Notes \in Nat /\ Carriers \in Nat
      /\ Served \in Nat /\ Fetching \in Nat /\ Told \in Nat /\ Polls \in Nat
  BY CountsAreNat
<1>4. /\ UNCHANGED <<Answers, Reports, Notes, Carriers, Served, Fetching>>
      /\ stack' \in Seq(Frames) /\ MainLoop(stack') /\ stack' # Opening
      /\ stack' = <<>> <=> Top.op = "loop"
      /\ Told' = IF Top.op \in {"MSG", "SET_DEBUG_NAMES"} THEN Told - 1 ELSE Told
      /\ Polls' = IF Top.op = "poll" \/ Top.saved THEN Polls - 1 ELSE Polls
      /\ Top.op \in {"MSG", "SET_DEBUG_NAMES"} => Told >= 1
      /\ Top.op = "poll" \/ Top.saved => Polls >= 1
      /\ \A id : FramesAre(stack, id) => FramesAre(stack', id)
  BY <1>1, <1>2, Pops, NotOpening, TopCounted, SameCounts DEF Serving
<1>5. /\ UNCHANGED <<Requests, Gets>>
      /\ Replies' = IF p.id # 0 THEN Replies - 1 ELSE Replies
      /\ p.id # 0 => Replies >= 1
      /\ c2s' \in Seq(Packets)
      /\ \A id : RequestsAre(c2s, id) => RequestsAre(c2s', id)
      /\ NoAck(c2s) => NoAck(c2s')
      /\ AckOrder(c2s) => AckOrder(c2s')
      /\ GoodbyeLast(c2s) => GoodbyeLast(c2s') /\ (p.id = 0 => c2s' = <<>>)
      /\ HasGoodbye(c2s) <=> p.id = 0 \/ HasGoodbye(c2s')
  BY <1>1, ServerTakes DEF Serving, IsGoodbye
\* The main loop's frame is the last: no message waits under it.
<1>6. Top.op = "loop" => Told = 0
  BY <1>1, <1>4, ShortQueues DEF Told
<1>7. p.id = 0 => Replies = 0 /\ Replies' = 0 /\ cpc = "off"
  <2> SUFFICES ASSUME p.id = 0 PROVE Replies = 0 /\ Replies' = 0 /\ cpc = "off"
    OBVIOUS
  <2>1. c2s' = <<>> /\ cpc = "off" /\ Replies' = Replies
    BY <1>2, <1>5 DEF GoodbyeInv
  <2>2. Replies' = 0
    BY <2>1, ShortQueues DEF Replies
  <2> QED
    BY <2>1, <2>2
<1>8. \/ /\ p.id = 0 /\ Replies = 0 /\ cpc = "off"
         /\ Replies' = 0 /\ UNCHANGED Replies
         /\ Told' = IF Top.op = "loop" THEN 0 ELSE Told - 1
         /\ Top.op # "loop" => Told >= 1 /\ ~clean
         /\ Top.op = "loop" => Told = 0
      \/ /\ p.id # 0 /\ Top.op # "loop" /\ Replies >= 1 /\ Told >= 1
         /\ Replies' = Replies - 1 /\ Told' = Told - 1
  <2>1. CASE p.id = 0
    <3>1. Top.op # "loop" => Told >= 1 /\ ~clean
      BY <1>1, <1>4, <1>7, <2>1 DEF NoteInv
    <3>2. Told' = IF Top.op = "loop" THEN 0 ELSE Told - 1
      BY <1>1, <1>4, <1>6
    <3> QED
      BY <1>6, <1>7, <2>1, <3>1, <3>2
  <2>2. CASE p.id # 0
    <3>1. Replies >= 1 /\ Replies' = Replies - 1 /\ Replies <= Told
      BY <1>5, <2>2 DEF NoteInv
    <3>2. Top.op # "loop"
      BY <1>3, <1>6, <3>1
    <3> QED
      BY <1>1, <1>4, <2>2, <3>1, <3>2
  <2> QED
    BY <2>1, <2>2
<1>9. Shape'
  <2>1. TypeOK' /\ DataInv'
    BY <1>1, <1>4, <1>5 DEF TypeOK, DataInv, clientVars, counts
  <2> QED
    BY <1>1, <1>2, <1>4, <2>1 DEF StackInv, HandshakeInv, clientVars
<1>10. IdInv' /\ AckInv' /\ TermInv'
  BY <1>1, <1>4, <1>5 DEF IdInv, AckInv, TermInv, Healthy, clientVars
<1>11. GoodbyeInv'
  BY <1>1, <1>2, <1>4, <1>5, <1>8 DEF GoodbyeInv, clientVars
<1>12. CallInv'
  BY <1>1, <1>4, <1>5 DEF CallInv, Healthy, Connected, clientVars
<1>13. TurnInv'
  BY <1>1, <1>3, <1>4, <1>5
  DEF TurnInv, Turns, Healthy, Connected, clientVars, One
<1>14. NoteInv'
  <2>1. CASE p.id = 0
    BY <1>1, <1>3, <1>4, <1>5, <1>8, <2>1 DEF NoteInv, clientVars
  <2>2. CASE p.id # 0
    BY <1>1, <1>3, <1>4, <1>5, <1>8, <2>2 DEF NoteInv, clientVars
  <2> QED
    BY <2>1, <2>2
<1>15. StreamInv'
  BY <1>1 DEF StreamInv, Connected, Sent, Held, clientVars
<1> QED
  BY <1>9, <1>10, <1>11, <1>12, <1>13, <1>14, <1>15

LEMMA LoginKeeps ==
  ASSUME IInv, Login
  PROVE  IInv'
<1> DEFINE ok == Head(c2s).data = 2
           p == Packet("OK", 0, IF ok THEN 1 ELSE 0)
<1> USE DEF IInv, Shape, Order, Counts
<1>1. /\ stack # <<>> /\ Top.op = "open" /\ c2s # <<>>
      /\ c2s' = Tail(c2s)
      /\ s2c' = IF Head(c2s).data = 0 THEN s2c ELSE Append(s2c, p)
      /\ stack' = IF ok THEN Looping ELSE <<>>
      /\ UNCHANGED <<clientVars, s_poll, broken, due, happened, counts, got, clean>>
  BY DEF Login, TopIs, Looping
<1>2. stack = Opening /\ ~s_poll
  <2>1. ASSUME MainLoop(stack) PROVE FALSE
    <3>1. Len(stack) \in DOMAIN stack /\ Len(stack) \in Nat \ {0}
      BY <1>1, TopCounted
    <3>2. stack[1].op = "loop"
      BY <1>1, <2>1 DEF MainLoop, Frame
    <3> QED
      BY <1>1, <2>1, <3>1, <3>2 DEF MainLoop, Top
  <2> QED
    BY <2>1 DEF StackInv
<1>3. /\ cpc \in {"login", "off"}
      /\ \E d \in {0, 1, 2} : c2s = <<Packet("OK", 0, d)>>
  <2>1. cpc \in {"login", "off"}
    BY <1>1, <1>2, NotOpening DEF HandshakeInv, StackInv
  <2> QED
    BY <1>1, <1>2, <2>1 DEF HandshakeInv
<1>4. PICK d \in {0, 1, 2} : c2s = <<Packet("OK", 0, d)>>
  BY <1>3
<1>5. c2s' = <<>> /\ Head(c2s).data = d /\ Head(c2s).code = "OK" /\ Head(c2s).id = 0
  BY <1>1, <1>4 DEF Packet
<1>6. /\ cpc \in {"login", "off"} /\ ~clean
      /\ cpc = "login" => s2c = <<>> /\ d \in {1, 2}
  <2>1. cpc = "login" => s2c = <<>> /\ d # 0
    BY <1>1, <1>4, <1>5 DEF HandshakeInv, Packet
  <2> QED
    BY <1>2, <1>3, <2>1 DEF HandshakeInv
<1>7. /\ Requests' = 0 /\ Gets' = 0 /\ Replies' = 0
      /\ Served' = 0 /\ Fetching' = 0 /\ Told' = 0 /\ Polls' = 0
      /\ stack' \in Seq(Frames) /\ MainLoop(stack') /\ stack' # Opening
      /\ \A id : FramesAre(stack', id)
  <2>1. stack' \in {<<>>, Opening, Looping} /\ stack' # Opening /\ MainLoop(stack')
    BY <1>1, NotOpening DEF MainLoop, Opening, Looping, Frame
  <2> QED
    BY <1>5, <2>1, ShortQueues
    DEF Requests, Gets, Replies, Served, Fetching, Told, Polls
<1>8. /\ Reports' = Reports /\ Notes' = Notes
      /\ s2c' \in Seq(Packets) /\ Numbered(s2c')
  <2>1. p \in Packets /\ p.code = "OK"
    BY DEF Packet, Packets, Codes
  <2> HIDE DEF p
  <2>2. CASE d = 0
    BY <1>1, <1>5, <2>2, SameCounts DEF TypeOK, DataInv
  <2>3. CASE d # 0
    BY <1>1, <1>5, <2>1, <2>3, ServerSends DEF DataInv, IsNote
  <2> QED
    BY <2>2, <2>3
<1>9. cpc = "login" => /\ s2c' = <<Packet("OK", 0, IF ok THEN 1 ELSE 0)>>
                       /\ ok <=> d = 2
  BY <1>1, <1>5, <1>6
<1>10. Shape'
  <2>1. TypeOK' /\ DataInv'
    BY <1>1, <1>5, <1>7, <1>8 DEF TypeOK, DataInv, clientVars, counts
  <2>2. StackInv'
    BY <1>7 DEF StackInv
  <2>3. HandshakeInv'
    <3>1. cpc = "login" => \/ s2c' = <<Packet("OK", 0, 1)>> /\ stack' = Looping
                           \/ s2c' = <<Packet("OK", 0, 0)>> /\ stack' = <<>>
      BY <1>1, <1>9
    <3> QED
      BY <1>1, <1>2, <1>5, <1>6, <1>7, <3>1 DEF HandshakeInv, clientVars
  <2> QED
    BY <2>1, <2>2, <2>3
<1>11. IdInv' /\ AckInv' /\ GoodbyeInv' /\ TermInv'
  BY <1>1, <1>5, <1>6, EmptyQueue
  DEF IdInv, AckInv, GoodbyeInv, TermInv, Healthy, clientVars
<1>12. CallInv'
  BY <1>1, <1>6, <1>7 DEF CallInv, Healthy, Connected, clientVars
<1>13. /\ Reports \in Nat /\ Polls \in Nat /\ Notes \in Nat /\ Told \in Nat
       /\ Replies \in Nat
  BY CountsAreNat
<1>14. TurnInv'
  BY <1>1, <1>2, <1>6, <1>7, <1>8, <1>13
  DEF TurnInv, Turns, Healthy, Connected, clientVars, One
<1>15. NoteInv'
  <2>1. cpc = "login" => Notes = 0
    BY <1>6, ShortQueues DEF Notes
  <2> QED
    BY <1>1, <1>6, <1>7, <1>8, <2>1 DEF NoteInv, clientVars
<1>16. StreamInv'
  BY <1>1, <1>6 DEF StreamInv, Connected, clientVars
<1> QED
  BY <1>10, <1>11, <1>12, <1>14, <1>15, <1>16

-----------------------------------------------------------------------------
(* The client's steps                                                      *)

LEMMA EmptyData ==
  /\ <<>> \in Seq(Packets) /\ <<>> \in Seq(Nat) /\ <<>> \in Seq(Nat \ {0})
  /\ 0 \in Nat
OBVIOUS

LEMMA OpenQueue ==
  LET q == <<Packet("OPEN", 0, 0)>>
  IN  /\ q \in Seq(Packets) /\ Numbered(q)
      /\ Count(q, ReportPackets) = 0 /\ Count(q, NotePackets) = 0
<1> DEFINE p == Packet("OPEN", 0, 0)
           q == <<p>>
<1>1. p \in Packets /\ p.code = "OPEN"
  BY DEF Packet, Packets, Codes
<1> HIDE DEF p
<1>2. q \in Seq(Packets) /\ DOMAIN q = {1} /\ q[1] = p
  BY <1>1
<1> HIDE DEF q
<1>3. p \notin ReportPackets /\ p \notin NotePackets
  BY <1>1 DEF ReportPackets, NotePackets
<1>4. Numbered(q)
  BY <1>1, <1>2 DEF Numbered, IsNote
<1>5. Count(q, ReportPackets) = 0 /\ Count(q, NotePackets) = 0
  BY <1>2, <1>3, CountIsNat
<1> QED
  BY <1>2, <1>4, <1>5 DEF q, p

LEMMA GreetKeeps ==
  ASSUME IInv, NEW compatible \in BOOLEAN, NEW password \in BOOLEAN,
         Greet(compatible, password)
  PROVE  IInv'
<1> DEFINE d == IF ~compatible THEN 0 ELSE IF password THEN 2 ELSE 1
           p == Packet("OK", 0, d)
<1> USE DEF IInv, Shape, Order, Counts
<1>1. /\ cpc = "greet" /\ s2c' = Tail(s2c) /\ c2s' = Append(c2s, p)
      /\ cpc' = IF compatible THEN "login" ELSE "off"
      /\ UNCHANGED <<asked, c_pending, c_poll, c_err, serverVars, due, happened,
                     counts, got, clean>>
  BY DEF Greet
<1>2. /\ c2s = <<>> /\ s2c = <<Packet("OPEN", 0, 0)>> /\ stack = Opening
      /\ ~s_poll /\ due = <<>> /\ happened = 0 /\ got = <<>>
      /\ ~broken /\ ~clean /\ ~c_err
  BY <1>1 DEF HandshakeInv
<1>3. d \in {0, 1, 2} /\ (compatible => d \in {1, 2})
  OBVIOUS
<1> HIDE DEF d
<1>4. c2s' = <<p>> /\ s2c' = <<>> /\ p \in Packets /\ p.code = "OK" /\ p.id = 0
  BY <1>1, <1>2, <1>3 DEF Packet, Packets, Codes
<1>5. /\ Requests' = 0 /\ Gets' = 0 /\ Replies' = 0
      /\ c2s' \in Seq(Packets) /\ GoodbyeLast(c2s') /\ AckOrder(c2s') /\ NoAck(c2s')
  <2>1. Requests = 0 /\ Gets = 0 /\ Replies = 0
    BY <1>2, ShortQueues DEF Requests, Gets, Replies
  <2> HIDE DEF p
  <2> QED
    BY <1>1, <1>2, <1>4, <2>1, ClientSends, EmptyQueue DEF Serving
<1>6. /\ Served' = 0 /\ Fetching' = 0 /\ Told' = 0 /\ Polls' = 0
      /\ Answers' = 0 /\ Reports' = 0 /\ Notes' = 0 /\ Carriers' = 0
      /\ stack' = Opening /\ stack' \in Seq(Frames) /\ \A id : FramesAre(stack', id)
  BY <1>1, <1>2, <1>4, ShortQueues DEF Served, Fetching, Told, Polls, Answers,
     Reports, Notes, Carriers, serverVars
<1>7. cpc' \in {"login", "off"} /\ (cpc' = "login" => d \in {1, 2})
  BY <1>1, <1>3
<1>8. Shape'
  <2>1. TypeOK'
    BY <1>1, <1>4, <1>5, <1>6, <1>7, EmptyData
    DEF TypeOK, ClientStates, serverVars, counts
  <2>2. DataInv'
    BY <1>1, <1>4, EmptyQueue DEF DataInv
  <2>3. StackInv'
    BY <1>1, <1>2, <1>6, <1>7 DEF StackInv, serverVars
  <2>4. HandshakeInv'
    BY <1>1, <1>2, <1>3, <1>4, <1>6, <1>7 DEF HandshakeInv, serverVars
  <2> QED
    BY <2>1, <2>2, <2>3, <2>4
<1>9. Order'
  BY <1>1, <1>2, <1>5, <1>6, <1>7
  DEF IdInv, AckInv, GoodbyeInv, TermInv, Healthy, serverVars
<1>10. CallInv'
  BY <1>5, <1>6, <1>7 DEF CallInv, Healthy, Connected
<1>11. TurnInv'
  BY <1>1, <1>2, <1>5, <1>6, <1>7
  DEF TurnInv, Turns, Healthy, Connected, serverVars, One
<1>12. NoteInv'
  BY <1>1, <1>5, <1>6 DEF NoteInv
<1>13. StreamInv'
  BY <1>7 DEF StreamInv, Connected
<1> QED
  BY <1>8, <1>9, <1>10, <1>11, <1>12, <1>13

LEMMA LoggedInKeeps ==
  ASSUME IInv, LoggedIn
  PROVE  IInv'
<1> USE DEF IInv, Shape, Order, Counts
<1>1. /\ cpc = "login" /\ s2c # <<>> /\ s2c' = Tail(s2c)
      /\ cpc' = IF Head(s2c).data = 1 THEN "opened" ELSE "off"
      /\ UNCHANGED <<c2s, asked, c_pending, c_poll, c_err, serverVars, due, happened,
                     counts, got, clean>>
  BY DEF LoggedIn
<1>2. /\ c2s = <<>> /\ ~s_poll /\ due = <<>> /\ happened = 0 /\ got = <<>>
      /\ ~broken /\ ~clean /\ ~c_err
      /\ \/ s2c = <<Packet("OK", 0, 1)>> /\ stack = Looping
         \/ s2c = <<Packet("OK", 0, 0)>> /\ stack = <<>>
  BY <1>1 DEF HandshakeInv
<1>3. /\ s2c' = <<>>
      /\ \/ cpc' = "opened" /\ stack' = Looping
         \/ cpc' = "off" /\ stack' = <<>>
  <2>1. CASE s2c = <<Packet("OK", 0, 1)>> /\ stack = Looping
    <3>1. Head(s2c).data = 1 /\ s2c' = <<>>
      BY <1>1, <2>1 DEF Packet
    <3> QED
      BY <1>1, <2>1, <3>1 DEF serverVars
  <2>2. CASE s2c = <<Packet("OK", 0, 0)>> /\ stack = <<>>
    <3>1. Head(s2c).data = 0 /\ s2c' = <<>>
      BY <1>1, <2>2 DEF Packet
    <3> QED
      BY <1>1, <2>2, <3>1 DEF serverVars
  <2> QED
    BY <1>2, <2>1, <2>2
<1>4. /\ Requests' = 0 /\ Gets' = 0 /\ Replies' = 0
      /\ Served' = 0 /\ Fetching' = 0 /\ Told' = 0 /\ Polls' = 0
      /\ Answers' = 0 /\ Reports' = 0 /\ Notes' = 0 /\ Carriers' = 0
  <2>1. stack' \in {<<>>, Opening, Looping}
    BY <1>3
  <2> QED
    BY <1>1, <1>2, <1>3, <2>1, ShortQueues DEF Requests, Gets, Replies, Served,
       Fetching, Told, Polls, Answers, Reports, Notes, Carriers
<1>5. Shape'
  <2>1. TypeOK'
    BY <1>1, <1>3 DEF TypeOK, ClientStates, serverVars, counts
  <2>2. DataInv'
    BY <1>1, <1>3, EmptyQueue DEF DataInv
  <2>3. StackInv'
    BY <1>3, NotOpening DEF StackInv, MainLoop
  <2>4. HandshakeInv'
    BY <1>1, <1>2, <1>3, NotOpening DEF HandshakeInv, serverVars
  <2> QED
    BY <2>1, <2>2, <2>3, <2>4
<1>6. Order'
  BY <1>1, <1>2, <1>3, EmptyQueue
  DEF IdInv, AckInv, GoodbyeInv, TermInv, Healthy, serverVars
<1>7. CallInv'
  BY <1>3, <1>4 DEF CallInv, Healthy, Connected
<1>8. TurnInv'
  BY <1>1, <1>2, <1>3, <1>4
  DEF TurnInv, Turns, Healthy, Connected, serverVars, One
<1>9. NoteInv'
  BY <1>1, <1>4 DEF NoteInv
<1>10. StreamInv'
  BY <1>3 DEF StreamInv, Connected
<1> QED
  BY <1>5, <1>6, <1>7, <1>8, <1>9, <1>10

LEMMA OpenAgainKeeps ==
  ASSUME IInv, OpenAgain
  PROVE  IInv'
<1> USE DEF IInv, Shape, Order, Counts
<1>1. /\ sessions' = sessions + 1
      /\ UNCHANGED <<c_pending, c_poll, failures>>
      /\ s2c' = <<Packet("OPEN", 0, 0)>> /\ c2s' = <<>>
      /\ stack' = Opening /\ s_poll' = FALSE /\ broken' = FALSE
      /\ due' = <<>> /\ happened' = 0 /\ messages' = 0 /\ requests' = 0
      /\ cpc' = "greet" /\ asked' = 0 /\ c_err' = FALSE
      /\ got' = <<>> /\ clean' = FALSE
  BY DEF OpenAgain, Accepted, Opening
<1>2. /\ Requests' = 0 /\ Gets' = 0 /\ Replies' = 0
      /\ Served' = 0 /\ Fetching' = 0 /\ Told' = 0 /\ Polls' = 0
      /\ Reports' = 0 /\ Notes' = 0
      /\ stack' \in Seq(Frames) /\ s2c' \in Seq(Packets) /\ Numbered(s2c')
  <2>1. stack' \in {<<>>, Opening, Looping}
    BY <1>1
  <2> QED
    BY <1>1, <2>1, OpenQueue, ShortQueues DEF Requests, Gets, Replies, Served,
       Fetching, Told, Polls, Reports, Notes
<1>3. Shape'
  <2>1. TypeOK'
    <3>1. {happened', messages', requests', failures', sessions'} \subseteq Nat
      BY SMTT(30), <1>1 DEF TypeOK
    <3> QED
      BY <1>1, <1>2, <3>1, EmptyData DEF TypeOK, ClientStates
  <2> QED
    BY <1>1, <1>2, <2>1 DEF DataInv, StackInv, HandshakeInv
<1>4. Order'
  BY <1>1, EmptyQueue DEF IdInv, AckInv, GoodbyeInv, TermInv, Healthy
<1>5. CallInv'
  BY <1>1, <1>2 DEF CallInv, Healthy, Connected
<1>6. TurnInv'
  BY <1>1, <1>2 DEF TurnInv, Turns, Healthy, Connected, One
<1>7. NoteInv' /\ StreamInv'
  BY <1>1, <1>2 DEF NoteInv, StreamInv, Connected
<1> QED
  BY <1>3, <1>4, <1>5, <1>6, <1>7

\* A request of an idle client: AskForEvent, Call and Terminate
LEMMA AskKeeps ==
  ASSUME IInv, cpc = "idle", NEW pc \in {"get", "call", "term"}, NEW code \in Serving,
         Ask(pc, code),
         code = "GET_DEBUG_EVENT" <=> pc = "get",
         pc = "get" => c_pending = 0 /\ ~c_poll,
         pc = "term" => due = <<>>,
         UNCHANGED <<s2c, c_pending, c_poll, c_err, serverVars, due, happened,
                     messages, failures, sessions, got, clean>>
  PROVE  IInv'
<1> DEFINE p == Packet(code, requests + 1, 0)
<1> USE DEF IInv, Shape, Order, Counts
<1>1. /\ ~c_err /\ requests' = requests + 1 /\ asked' = requests + 1
      /\ c2s' = Append(c2s, p) /\ cpc' = pc
  BY DEF Ask
<1>2. /\ stack # Opening /\ MainLoop(stack) /\ ~HasGoodbye(c2s) /\ ~clean /\ ~broken
  BY NotOpening DEF StackInv, GoodbyeInv, HandshakeInv
<1>3. requests \in Nat /\ requests + 1 \in Nat
  BY SMTT(30) DEF TypeOK
<1>4. p \in Packets /\ p.code = code /\ p.id = requests + 1
  BY <1>3 DEF Packet, Packets, Codes, Serving
<1> HIDE DEF p
<1>5. /\ Requests \in Nat /\ Gets \in Nat /\ Replies \in Nat
      /\ Answers \in Nat /\ Reports \in Nat /\ Notes \in Nat /\ Carriers \in Nat
      /\ Served \in Nat /\ Fetching \in Nat /\ Told \in Nat /\ Polls \in Nat
      /\ Gets <= Requests /\ Fetching <= Served
  BY CountsAreNat
<1>6. Requests = 0 /\ Served = 0 /\ Answers = 0 /\ Gets = 0 /\ Fetching = 0
  BY SMTT(30), <1>1, <1>5 DEF CallInv, Healthy, Asking, One
<1>7. /\ UNCHANGED <<Answers, Reports, Notes, Carriers>>
      /\ UNCHANGED <<Served, Fetching, Told, Polls>>
  BY SameCounts DEF serverVars
<1>8. /\ Requests' = Requests + 1 /\ UNCHANGED Replies
      /\ Gets' = IF pc = "get" THEN Gets + 1 ELSE Gets
      /\ c2s' \in Seq(Packets)
      /\ AckOrder(c2s) => AckOrder(c2s')
      /\ GoodbyeLast(c2s') /\ ~HasGoodbye(c2s')
      /\ RequestsAre(c2s, requests + 1) => RequestsAre(c2s', requests + 1)
  BY <1>1, <1>2, <1>4, ClientSends DEF Serving, IsGoodbye
<1>9. /\ RequestsAre(c2s, requests + 1) /\ FramesAre(stack, requests + 1)
      /\ AnswersAre(s2c, requests + 1) /\ EachOK(s2c) /\ NoneGiven(s2c)
      /\ AnswerLast(s2c)
  <2>1. /\ \A i \in DOMAIN c2s : c2s[i].code \notin Serving
        /\ \A i \in DOMAIN stack : stack[i].op \notin Serving
        /\ \A i \in DOMAIN s2c : ~IsAnswer(s2c[i])
    BY <1>6, Zeros
  <2> QED
    BY <2>1 DEF RequestsAre, FramesAre, AnswersAre, EachOK, NoneGiven, AnswerLast,
       IsAnswer
<1>10. Shape'
  <2>1. TypeOK' /\ DataInv'
    <3>1. {happened', messages', requests', failures', sessions'} \subseteq Nat
      BY <1>1, <1>3 DEF TypeOK
    <3> QED
      BY <1>1, <1>3, <1>8, <3>1 DEF TypeOK, DataInv, ClientStates, serverVars
  <2>2. cpc' \notin {"off", "greet", "login", "opened", "idle"}
    BY <1>1
  <2> QED
    BY <1>1, <1>2, <2>1, <2>2 DEF StackInv, HandshakeInv, serverVars
<1>11. Order'
  <2>1. IdInv'
    BY <1>1, <1>8, <1>9 DEF IdInv, serverVars
  <2>2. AckInv' /\ GoodbyeInv'
    BY <1>1, <1>2, <1>6, <1>7, <1>8 DEF AckInv, GoodbyeInv
  <2>3. TermInv'
    BY <1>1, <1>9 DEF TermInv
  <2> QED
    BY <2>1, <2>2, <2>3
<1>12. CallInv'
  <2>1. cpc' \in Asking
    BY <1>1 DEF Asking
  <2>2. Requests' = 1 /\ Served' = 0 /\ Answers' = 0 /\ Fetching' = 0
        /\ Gets' = IF pc = "get" THEN 1 ELSE 0
    BY <1>6, <1>7, <1>8
  <2> QED
    BY <1>1, <2>1, <2>2 DEF CallInv, One
<1>13. TurnInv'
  <2>1. ~c_poll => One(s_poll) + Polls + Reports = 0
    BY <1>1, <1>5 DEF TurnInv, Healthy, One
  <2>2. UNCHANGED <<s_poll, c_pending, c_poll>>
    BY DEF serverVars
  <2> QED
    BY <1>5, <1>6, <1>7, <1>8, <2>1, <2>2 DEF TurnInv, Turns, Connected, One
<1>14. NoteInv' /\ StreamInv'
  <2>1. NoteInv'
    BY <1>1, <1>2, <1>7, <1>8 DEF NoteInv
  <2>2. StreamInv'
    BY DEF StreamInv, Connected, Sent, Held
  <2> QED
    BY <2>1, <2>2
<1> QED
  BY <1>10, <1>11, <1>12, <1>13, <1>14

LEMMA RequestsKeep ==
  ASSUME IInv, AskForEvent \/ Call \/ Terminate
  PROVE  IInv'
<1>1. CASE AskForEvent
  BY <1>1, AskKeeps DEF AskForEvent, Serving
<1>2. CASE Call
  BY <1>2, AskKeeps DEF Call, Serving
<1>3. CASE Terminate
  BY <1>3, AskKeeps DEF Terminate, Serving
<1> QED
  BY <1>1, <1>2, <1>3

LEMMA dbg_initKeeps ==
  ASSUME IInv, dbg_init
  PROVE  IInv'
<1> DEFINE p == Packet("CALL", requests + 1, 0)
<1> USE DEF IInv, Shape, Order, Counts
<1>1. /\ cpc = "opened" /\ ~c_err /\ requests' = requests + 1 /\ asked' = requests + 1
      /\ c2s' = Append(c2s, p) /\ cpc' = "init" /\ c_pending' = 0 /\ c_poll' = FALSE
      /\ UNCHANGED <<s2c, c_err, serverVars, due, happened, messages, failures,
                     sessions, got, clean>>
  BY DEF dbg_init, Ask, ForgetEvents
<1>2. /\ c2s = <<>> /\ s2c = <<>> /\ stack = Looping /\ ~broken /\ ~clean
      /\ ~s_poll /\ due = <<>> /\ happened = 0 /\ got = <<>>
  BY <1>1 DEF HandshakeInv
<1>3. requests \in Nat /\ requests + 1 \in Nat
  BY DEF TypeOK
<1>4. p \in Packets /\ p.code = "CALL" /\ p.id = requests + 1
  BY <1>3 DEF Packet, Packets, Codes
<1> HIDE DEF p
<1>5. /\ Requests = 0 /\ Gets = 0 /\ Replies = 0 /\ Sent = <<>>
      /\ Answers' = 0 /\ Reports' = 0 /\ Notes' = 0 /\ Carriers' = 0
      /\ Served' = 0 /\ Fetching' = 0 /\ Told' = 0 /\ Polls' = 0
      /\ \A id : FramesAre(stack, id)
  <2>1. Sent = <<>>
    BY <1>2, EmptyData, ShortQueues, EventsNone DEF Sent
  <2> QED
    BY <1>1, <1>2, <2>1, ShortQueues DEF Requests, Gets, Replies, Served,
       Fetching, Told, Polls, Answers, Reports, Notes, Carriers, serverVars
<1>6. /\ Requests' = 1 /\ Replies' = 0 /\ Gets' = 0
      /\ c2s' \in Seq(Packets)
      /\ AckOrder(c2s')
      /\ GoodbyeLast(c2s') /\ ~HasGoodbye(c2s')
      /\ RequestsAre(c2s', requests + 1)
  BY <1>1, <1>2, <1>4, <1>5, ClientSends, EmptyQueue DEF Serving, IsGoodbye
<1>7. Shape'
  <2>1. TypeOK' /\ DataInv'
    <3>1. {happened', messages', requests', failures', sessions'} \subseteq Nat
      BY <1>1, <1>3 DEF TypeOK
    <3> QED
      BY <1>1, <1>3, <1>6, <3>1 DEF TypeOK, DataInv, ClientStates, serverVars
  <2> QED
    BY <1>1, <1>2, <2>1, NotOpening DEF StackInv, HandshakeInv, serverVars
<1>8. Order'
  BY <1>1, <1>2, <1>5, <1>6, EmptyQueue
  DEF IdInv, AckInv, GoodbyeInv, TermInv, serverVars
<1>9. CallInv'
  BY <1>1, <1>5, <1>6 DEF CallInv, Asking, One
<1>10. TurnInv'
  BY <1>1, <1>2, <1>5, <1>6 DEF TurnInv, Turns, One, serverVars
<1>11. NoteInv'
  BY <1>1, <1>2, <1>5, <1>6 DEF NoteInv
<1>12. StreamInv'
  <2>1. got' = <<>> /\ Held' = <<>> /\ Sent' = <<>> /\ due' = <<>> /\ happened' = 0
    BY <1>1, <1>2, <1>5 DEF Held, Sent
  <2> QED
    BY <2>1 DEF StreamInv
<1> QED
  BY <1>7, <1>8, <1>9, <1>10, <1>11, <1>12

LEMMA TakePendingKeeps ==
  ASSUME IInv, TakePending
  PROVE  IInv'
<1> USE DEF IInv, Shape, Order, Counts
<1>1. /\ cpc = "idle" /\ c_pending # 0 /\ got' = Append(got, c_pending)
      /\ c_pending' = 0 /\ c_poll' = FALSE
      /\ UNCHANGED <<c2s, s2c, cpc, asked, c_err, serverVars, due, happened, counts,
                     clean>>
  BY DEF TakePending
<1>2. /\ UNCHANGED <<Requests, Gets, Replies, Answers, Reports, Notes, Carriers>>
      /\ UNCHANGED <<Served, Fetching, Told, Polls>>
  BY <1>1, SameCounts DEF serverVars
<1>3. Polls \in Nat /\ Reports \in Nat /\ Carriers \in Nat
  BY CountsAreNat
<1>4. c_pending \in Nat \ {0} /\ got \in Seq(Nat \ {0})
  BY <1>1 DEF TypeOK
<1>5. One(s_poll) + Polls + Reports = 0
  BY <1>1, <1>3 DEF TurnInv, Turns, One
<1>6. Shape'
  <2>1. got' \in Seq(Nat \ {0})
    BY <1>1, <1>4
  <2>2. TypeOK' /\ DataInv'
    BY <1>1, <2>1, EmptyData DEF TypeOK, DataInv, serverVars, counts
  <2> QED
    BY <1>1, <2>2 DEF StackInv, HandshakeInv, serverVars
<1>7. Order'
  BY <1>1, <1>2 DEF IdInv, AckInv, GoodbyeInv, TermInv, Healthy, serverVars
<1>8. CallInv' /\ NoteInv'
  BY <1>1, <1>2 DEF CallInv, NoteInv, Healthy, Connected
<1>9. TurnInv'
  BY <1>1, <1>2, <1>3, <1>5 DEF TurnInv, Turns, Connected, Healthy, One, serverVars
<1>10. StreamInv'
  <2> DEFINE N == Nat \ {0}
  <2>1. /\ Held = <<c_pending>> /\ Held' = <<>> /\ Sent' = Sent
        /\ UNCHANGED <<due, happened>>
    BY <1>1 DEF Held, Sent
  <2>2. Sent \in Seq(N)
    BY <1>1, SentOnce DEF Connected
  <2>3. due \in Seq(N) /\ got \in Seq(N) /\ c_pending \in N
    BY <1>4 DEF DataInv
  <2>4. Chain(got, <<c_pending>>, Sent, due) = [i \in 1 .. happened |-> i]
    BY <1>1, <2>1 DEF StreamInv, Connected, Chain
  <2> HIDE DEF N
  <2>5. Chain(got', <<>>, Sent, due) = Chain(got, <<c_pending>>, Sent, due)
    BY <1>1, <2>2, <2>3, Regrouped
  <2> QED
    BY <2>1, <2>4, <2>5 DEF StreamInv, Chain
<1> QED
  BY <1>6, <1>7, <1>8, <1>9, <1>10

LEMMA ReadWaitingKeeps ==
  ASSUME IInv, ReadWaiting
  PROVE  IInv'
<1> USE DEF IInv, Shape, Order, Counts
<1>1. /\ cpc = "idle" /\ cpc' = "read" /\ ~c_err
      /\ UNCHANGED <<c2s, s2c, asked, c_pending, c_poll, c_err, serverVars, due,
                     happened, counts, got, clean>>
  BY DEF ReadWaiting
<1>2. /\ UNCHANGED <<Requests, Gets, Replies, Answers, Reports, Notes, Carriers>>
      /\ UNCHANGED <<Served, Fetching, Told, Polls>>
  BY <1>1, SameCounts DEF serverVars
<1>3. Shape'
  <2>1. TypeOK' /\ DataInv'
    BY <1>1 DEF TypeOK, DataInv, ClientStates, serverVars, counts
  <2> QED
    BY <1>1, <2>1 DEF StackInv, HandshakeInv, serverVars
<1>4. Order'
  BY <1>1, <1>2 DEF IdInv, AckInv, GoodbyeInv, TermInv, Healthy, serverVars
<1>5. CallInv' /\ NoteInv'
  BY <1>1, <1>2 DEF CallInv, NoteInv, Healthy, Connected, Asking, One
<1>6. TurnInv'
  BY <1>1, <1>2 DEF TurnInv, Turns, Connected, Healthy, One, serverVars
<1>7. StreamInv'
  BY <1>1 DEF StreamInv, Connected, Held, Sent
<1> QED
  BY <1>3, <1>4, <1>5, <1>6, <1>7

LEMMA CloseKeeps ==
  ASSUME IInv, Close
  PROVE  IInv'
<1> DEFINE p == Packet("OK", 0, 0)
<1> USE DEF IInv, Shape, Order, Counts
<1>1. /\ cpc = "termed" \/ (cpc = "idle" /\ c_err)
      /\ c2s' = IF c_err THEN c2s ELSE Append(c2s, p)
      /\ clean' = ~c_err /\ c_err' = FALSE /\ cpc' = "off"
      /\ UNCHANGED <<s2c, asked, c_pending, c_poll, serverVars, due, happened, counts,
                     got>>
  BY DEF Close, Goodbye
<1>2. /\ stack # Opening /\ MainLoop(stack) /\ ~HasGoodbye(c2s) /\ ~broken /\ ~clean
      /\ c_err <=> cpc = "idle"
  BY <1>1, NotOpening DEF StackInv, GoodbyeInv, HandshakeInv
<1>3. p \in Packets /\ p.code = "OK" /\ p.id = 0
  BY DEF Packet, Packets, Codes
<1> HIDE DEF p
<1>4. /\ UNCHANGED <<Answers, Reports, Notes, Carriers>>
      /\ UNCHANGED <<Served, Fetching, Told, Polls>>
  BY <1>1, SameCounts DEF serverVars
<1>5. /\ UNCHANGED <<Requests, Gets, Replies>>
      /\ c2s' \in Seq(Packets) /\ GoodbyeLast(c2s')
      /\ AckOrder(c2s) => AckOrder(c2s')
      /\ NoAck(c2s) => NoAck(c2s')
      /\ HasGoodbye(c2s') <=> ~c_err
  <2>1. CASE c_err
    BY <1>1, <1>2, <2>1, SameCounts DEF TypeOK, GoodbyeInv
  <2>2. CASE ~c_err
    BY <1>1, <1>2, <1>3, <2>2, ClientSends DEF Serving, IsGoodbye
  <2> QED
    BY <2>1, <2>2
<1>6. /\ Requests \in Nat /\ Served \in Nat /\ Answers \in Nat
      /\ Told \in Nat /\ Replies \in Nat /\ Notes \in Nat
  BY CountsAreNat
<1>7. ~c_err => Requests + Served = 0 /\ Replies = Told
  <2> SUFFICES ASSUME ~c_err PROVE Requests + Served = 0 /\ Replies = Told
    OBVIOUS
  <2>1. cpc = "termed"
    BY <1>1
  <2>2. Requests + Served = 0
    BY <1>6, <2>1 DEF CallInv, Healthy, Asking, One
  <2>3. Notes = 0
    BY <2>1, ShortQueues DEF TermInv, Notes
  <2> QED
    BY <1>6, <2>1, <2>2, <2>3 DEF NoteInv
<1>8. Shape'
  <2>1. TypeOK' /\ DataInv'
    BY <1>1, <1>5 DEF TypeOK, DataInv, ClientStates, serverVars, counts
  <2> QED
    BY <1>1, <1>2, <2>1 DEF StackInv, HandshakeInv, serverVars
<1>9. Order'
  BY <1>1, <1>2, <1>4, <1>5
  DEF IdInv, AckInv, GoodbyeInv, TermInv, Healthy, serverVars
<1>10. CallInv'
  BY <1>1, <1>4, <1>5 DEF CallInv, Healthy, Connected
<1>11. TurnInv'
  BY <1>1, <1>4, <1>5 DEF TurnInv, Turns, Connected, Healthy, serverVars
<1>12. NoteInv' /\ StreamInv'
  BY <1>1, <1>4, <1>5, <1>6, <1>7 DEF NoteInv, StreamInv, Connected
<1> QED
  BY <1>8, <1>9, <1>10, <1>11, <1>12

LEMMA EventHappensKeeps ==
  ASSUME IInv, EventHappens
  PROVE  IInv'
<1> USE DEF IInv, Shape, Order, Counts
<1>1. /\ cpc \in {"idle", "get", "call", "read"} /\ happened' = happened + 1
      /\ due' = Append(due, happened + 1)
      /\ UNCHANGED <<c2s, s2c, clientVars, serverVars, counts, got, clean>>
  BY DEF EventHappens, Debugging
<1>2. /\ UNCHANGED <<Requests, Gets, Replies, Answers, Reports, Notes, Carriers>>
      /\ UNCHANGED <<Served, Fetching, Told, Polls>>
  BY <1>1, SameCounts DEF serverVars
<1>3. happened \in Nat /\ happened + 1 \in Nat \ {0}
  BY SMTT(30) DEF TypeOK
<1>4. due' \in Seq(Nat \ {0}) /\ due' \in Seq(Nat)
  BY <1>1, <1>3 DEF DataInv, TypeOK
<1>5. Shape'
  <2>1. TypeOK' /\ DataInv'
    <3>1. {happened', messages', requests', failures', sessions'} \subseteq Nat
      BY <1>1, <1>3 DEF TypeOK, counts
    <3> QED
      BY <1>1, <1>4, <3>1 DEF TypeOK, DataInv, clientVars, serverVars
  <2> QED
    BY <1>1, <2>1 DEF StackInv, HandshakeInv, clientVars, serverVars
<1>6. Order'
  BY <1>1, <1>2
  DEF IdInv, AckInv, GoodbyeInv, TermInv, Healthy, clientVars, serverVars
<1>7. Counts'
  BY <1>1, <1>2 DEF CallInv, NoteInv, TurnInv, Turns, Healthy, Connected, clientVars,
     serverVars
<1>8. StreamInv'
  <2> DEFINE N == Nat \ {0}
  <2>1. Held' = Held /\ Sent' = Sent /\ got' = got
    BY <1>1 DEF Held, Sent, clientVars
  <2>2. Sent \in Seq(N) /\ Held \in Seq(N)
    <3>1. Sent \in Seq(N)
      BY <1>1, SentOnce DEF Connected
    <3>2. c_pending \in Nat
      BY DEF TypeOK
    <3>3. Held \in Seq(N)
      <4>1. CASE c_pending = 0
        BY <4>1, EmptyData DEF Held
      <4>2. CASE c_pending # 0
        <5>1. <<c_pending>> \in Seq(N)
          BY <3>2, <4>2
        <5> QED
          BY <4>2, <5>1 DEF Held
      <4> QED
        BY <4>1, <4>2
    <3> QED
      BY <3>1, <3>3
  <2>3. due \in Seq(N) /\ got \in Seq(N) /\ happened + 1 \in N
    BY <1>3 DEF DataInv, TypeOK
  <2>4. Chain(got, Held, Sent, due) = [i \in 1 .. happened |-> i]
    BY <1>1 DEF StreamInv, Connected, Chain
  <2> HIDE DEF N
  <2>5. Chain(got, Held, Sent, due') = Append(Chain(got, Held, Sent, due), happened + 1)
    <3> DEFINE h == got \o Held \o Sent
    <3>1. h \in Seq(N)
      BY <2>2, <2>3, ConcatProperties
    <3> HIDE DEF h
    <3>2. h \o Append(due, happened + 1) = Append(h \o due, happened + 1)
      BY <2>3, <3>1
    <3> QED
      BY <1>1, <3>2 DEF h, Chain
  <2>6. Append([i \in 1 .. happened |-> i], happened + 1) = [i \in 1 .. happened + 1 |-> i]
    BY <1>3
  <2>7. Chain(got, Held, Sent, due') = [i \in 1 .. happened + 1 |-> i]
    BY <2>4, <2>5, <2>6
  <2> QED
    BY <1>1, <2>1, <2>7 DEF StreamInv, Chain
<1> QED
  BY <1>5, <1>6, <1>7, <1>8

LEMMA GetMessageKeeps ==
  ASSUME IInv, GetMessage
  PROVE  IInv'
<1> DEFINE m == Head(s2c)
           p == Packet("OK", m.id, 0)
<1> USE DEF IInv, Shape, Order, Counts
<1>1. /\ cpc \in Asking \cup {"read"} /\ s2c # <<>>
      /\ m.code \in {"MSG", "SET_DEBUG_NAMES"}
      /\ s2c' = Tail(s2c) /\ c2s' = Append(c2s, p)
      /\ UNCHANGED <<clientVars, serverVars, due, happened, counts, got, clean>>
  BY DEF GetMessage, AnswerToMessage
<1>2. /\ stack # Opening /\ ~HasGoodbye(c2s) /\ cpc # "off"
      /\ cpc \notin {"greet", "login", "opened", "termed", "idle"}
      /\ ~clean /\ ~broken /\ ~c_err /\ Connected
  BY <1>1, NotOpening DEF StackInv, GoodbyeInv, HandshakeInv, Asking, Connected
<1>3. m \in Packets /\ m.id \in Nat \ {0}
  BY <1>1, ClientTakes DEF DataInv, IsNote, Packets
<1>4. p \in Packets /\ p.code = "OK" /\ p.id # 0
  BY <1>3 DEF Packet, Packets, Codes
<1> HIDE DEF p
<1>5. /\ UNCHANGED <<Answers, Reports, Carriers>>
      /\ Notes' = Notes - 1 /\ Notes >= 1
      /\ s2c' \in Seq(Packets)
      /\ Numbered(s2c')
      /\ \A id : AnswersAre(s2c, id) => AnswersAre(s2c', id)
      /\ EachOK(s2c) => EachOK(s2c')
      /\ NoneGiven(s2c) => NoneGiven(s2c')
      /\ AnswerLast(s2c) => AnswerLast(s2c')
  BY <1>1, ClientTakes DEF DataInv
<1>6. /\ UNCHANGED <<Requests, Gets>> /\ Replies' = Replies + 1
      /\ c2s' \in Seq(Packets) /\ GoodbyeLast(c2s') /\ ~HasGoodbye(c2s')
      /\ AckOrder(c2s) => AckOrder(c2s')
      /\ NoAck(c2s) => NoAck(c2s')
      /\ \A id : RequestsAre(c2s, id) => RequestsAre(c2s', id)
  BY <1>1, <1>2, <1>4, ClientSends DEF Serving, IsGoodbye
<1>7. UNCHANGED <<Served, Fetching, Told, Polls>>
  BY <1>1, SameCounts DEF serverVars
<1>8. Replies \in Nat /\ Notes \in Nat /\ Told \in Nat
  BY CountsAreNat
<1>9. Shape'
  <2>1. TypeOK' /\ DataInv'
    BY <1>1, <1>5, <1>6 DEF TypeOK, DataInv, clientVars, serverVars, counts
  <2> QED
    BY <1>1, <1>2, <2>1 DEF StackInv, HandshakeInv, clientVars, serverVars
<1>10. Order'
  BY <1>1, <1>2, <1>5, <1>6, <1>7
  DEF IdInv, AckInv, GoodbyeInv, TermInv, Healthy, clientVars, serverVars
<1>11. CallInv' /\ TurnInv'
  BY <1>1, <1>5, <1>6, <1>7
  DEF CallInv, TurnInv, Turns, Healthy, Connected, clientVars, serverVars
<1>12. NoteInv'
  <2>1. Told = Replies + Notes /\ ~clean'
    BY <1>1, <1>2 DEF NoteInv
  <2>2. Replies' + Notes' = Told /\ Replies' <= Told
    BY <1>5, <1>6, <1>8, <2>1
  <2>3. Told' = Told
    BY <1>7
  <2> QED
    BY <2>1, <2>2, <2>3, Zenon DEF NoteInv
<1>13. StreamInv'
  <2>1. Sent' = Sent
    <3>1. m \notin Carried
      BY <1>1 DEF Carried
    <3> QED
      BY <1>1, <1>2, <3>1, SentOnce, EventsTail DEF Sent
  <2> QED
    BY <1>1, <2>1 DEF StreamInv, Connected, Held, clientVars
<1> QED
  BY <1>9, <1>10, <1>11, <1>12, <1>13

LEMMA GetEventKeeps ==
  ASSUME IInv, GetEvent
  PROVE  IInv'
<1> DEFINE m == Head(s2c)
           p == Packet("EVOK", 0, 0)
<1> USE DEF IInv, Shape, Order, Counts
<1>1. /\ cpc \in Asking \cup {"read"} /\ s2c # <<>> /\ m.code = "EVENT"
      /\ s2c' = Tail(s2c) /\ c2s' = Append(c2s, p) /\ c_pending' = m.data
      /\ cpc' = IF cpc = "read" THEN "idle" ELSE cpc
      /\ UNCHANGED <<asked, c_poll, c_err, serverVars, due, happened, counts, got,
                     clean>>
  BY DEF GetEvent
<1>2. /\ stack # Opening /\ MainLoop(stack) /\ ~HasGoodbye(c2s)
      /\ ~clean /\ ~broken /\ ~c_err /\ Connected /\ Healthy
  BY <1>1, NotOpening
  DEF StackInv, GoodbyeInv, HandshakeInv, Asking, Connected, Healthy
<1>3. /\ cpc' \notin {"off", "greet", "login", "opened", "termed"}
      /\ cpc' \in Asking <=> cpc \in Asking
      /\ cpc' = "get" <=> cpc = "get"
      /\ cpc' = "term" <=> cpc = "term"
      /\ cpc' \in ClientStates
  BY <1>1 DEF Asking, ClientStates
<1>4. m \in Packets /\ m.data \in Nat \ {0} /\ m \in Carried
  BY <1>1, ClientTakes DEF DataInv, Packets, Carried
<1>5. p \in Packets /\ p.code = "EVOK"
  BY DEF Packet, Packets, Codes
<1> HIDE DEF p
<1>6. /\ UNCHANGED <<Answers, Notes>> /\ Reports >= 1 /\ Carriers >= 1
      /\ Reports' = Reports - 1 /\ Carriers' = Carriers - 1
      /\ s2c' \in Seq(Packets) /\ Numbered(s2c')
      /\ \A id : AnswersAre(s2c, id) => AnswersAre(s2c', id)
      /\ EachOK(s2c) => EachOK(s2c')
      /\ NoneGiven(s2c) => NoneGiven(s2c')
      /\ AnswerLast(s2c) => AnswerLast(s2c')
  BY <1>1, <1>4, ClientTakes DEF DataInv
<1>7. UNCHANGED <<Served, Fetching, Told, Polls>>
  BY <1>1, SameCounts DEF serverVars
<1>8. /\ Gets \in Nat /\ Fetching \in Nat /\ Polls \in Nat /\ Reports \in Nat
      /\ Carriers \in Nat
  BY CountsAreNat
\* The event was sent in its turn: nobody else has it.
<1>9. /\ ~s_poll /\ Polls = 0 /\ c_pending = 0 /\ Reports = 1 /\ Carriers = 1
      /\ Gets = 0 /\ Fetching = 0
  <2>1. ~s_poll /\ Polls = 0 /\ c_pending = 0 /\ Reports = 1
    BY <1>6, <1>8 DEF TurnInv, Turns, One
  <2>2. Carriers = 1
    BY <1>2, <1>6, <1>8, <2>1 DEF TurnInv, One
  <2>3. Gets + Fetching = 0
    BY <1>8, <2>1 DEF TurnInv, Turns, One
  <2> QED
    BY <1>8, <2>1, <2>2, <2>3
<1>10. /\ UNCHANGED <<Requests, Gets, Replies>>
       /\ c2s' \in Seq(Packets) /\ GoodbyeLast(c2s') /\ ~HasGoodbye(c2s')
       /\ AckOrder(c2s')
       /\ \A id : RequestsAre(c2s, id) => RequestsAre(c2s', id)
  BY <1>1, <1>2, <1>5, <1>9, ClientSends DEF Serving, IsGoodbye, AckInv
<1>11. Shape'
  <2>1. TypeOK' /\ DataInv'
    BY <1>1, <1>3, <1>4, <1>6, <1>10 DEF TypeOK, DataInv, serverVars, counts
  <2> QED
    BY <1>1, <1>2, <1>3, <2>1 DEF StackInv, HandshakeInv, serverVars
<1>12. Order'
  <2>1. IdInv'
    BY <1>1, <1>2, <1>3, <1>6, <1>10 DEF IdInv, serverVars
  <2>2. AckInv' /\ GoodbyeInv' /\ TermInv'
    BY <1>1, <1>2, <1>3, <1>6, <1>7, <1>9, <1>10
    DEF AckInv, GoodbyeInv, TermInv, serverVars
  <2> QED
    BY <2>1, <2>2
<1>13. CallInv'
  <2>1. Gets' = 0 /\ Fetching' = 0
    BY <1>7, <1>9, <1>10
  <2>2. UNCHANGED <<Requests, Served, Answers, Gets, Fetching>>
    BY <1>6, <1>7, <1>10
  <2> QED
    BY <1>1, <1>2, <1>3, <2>1, <2>2 DEF CallInv, One
<1>14. TurnInv'
  <2>1. /\ Polls' = 0 /\ Reports' = 0 /\ Carriers' = 0 /\ Gets' = 0 /\ Fetching' = 0
        /\ ~s_poll' /\ c_pending' # 0
    BY <1>1, <1>4, <1>6, <1>7, <1>9, <1>10 DEF serverVars
  <2> QED
    BY <2>1 DEF TurnInv, Turns, One
<1>15. NoteInv'
  BY <1>1, <1>2, <1>6, <1>7, <1>10 DEF NoteInv, HandshakeInv
<1>16. StreamInv'
  <2>1. Sent = <<m.data>> /\ Sent' = <<>>
    BY <1>1, <1>2, <1>4, SentOnce, EventsTail DEF Sent
  <2>2. Held = <<>> /\ Held' = <<m.data>>
    BY <1>1, <1>4, <1>9 DEF Held
  <2> DEFINE N == Nat \ {0}
  <2>3. got \in Seq(N) /\ due \in Seq(N) /\ m.data \in N
    BY <1>4 DEF TypeOK, DataInv
  <2>4. Chain(got, <<>>, <<m.data>>, due) = [i \in 1 .. happened |-> i]
    BY <1>2, <2>1, <2>2 DEF StreamInv, Chain
  <2> HIDE DEF N
  <2>5. Chain(got, <<m.data>>, <<>>, due) = Chain(got, <<>>, <<m.data>>, due)
    BY <2>3, Regrouped
  <2> QED
    BY <1>1, <2>1, <2>2, <2>4, <2>5 DEF StreamInv, Chain
<1> QED
  BY <1>11, <1>12, <1>13, <1>14, <1>15, <1>16

LEMMA ReceiveFailsKeeps ==
  ASSUME IInv, ReceiveFails
  PROVE  IInv'
<1> USE DEF IInv, Shape, Order, Counts
<1>1. /\ cpc \in Asking \cup {"read", "greet", "login"} /\ s2c = <<>>
      /\ failures' = failures \/ failures' = failures + 1
      /\ c_err' = (cpc \notin {"greet", "login"})
      /\ cpc' = IF cpc \in {"greet", "login"} THEN "off" ELSE "idle"
      /\ UNCHANGED <<c2s, s2c, asked, c_pending, c_poll, serverVars, due, happened,
                     messages, requests, sessions, got, clean>>
  BY DEF ReceiveFails
<1>2. /\ UNCHANGED <<Requests, Gets, Replies, Answers, Reports, Notes, Carriers>>
      /\ UNCHANGED <<Served, Fetching, Told, Polls>>
  BY <1>1, SameCounts DEF serverVars
<1>3. cpc # "greet" /\ ~clean /\ ~broken
  BY <1>1 DEF HandshakeInv, Asking
<1>4. TypeOK' /\ DataInv'
  <2>1. {happened', messages', requests', failures', sessions'} \subseteq Nat
    BY SMTT(30), <1>1 DEF TypeOK
  <2> QED
    BY <1>1, <2>1 DEF TypeOK, DataInv, ClientStates, serverVars
<1>5. CASE cpc = "login"
  <2>1. /\ \E d \in {1, 2} : c2s = <<Packet("OK", 0, d)>>
        /\ stack = Opening /\ ~s_poll
    BY <1>1, <1>5 DEF HandshakeInv
  <2>2. cpc' = "off" /\ ~c_err'
    BY <1>1, <1>5
  <2>3. StackInv' /\ HandshakeInv'
    BY <1>1, <1>3, <2>1, <2>2 DEF StackInv, HandshakeInv, serverVars
  <2>4. Order'
    BY <1>1, <1>2, <1>3, <2>2
    DEF IdInv, AckInv, GoodbyeInv, TermInv, Healthy, serverVars
  <2>5. Counts' /\ StreamInv'
    BY <1>1, <1>2, <1>3, <2>2 DEF CallInv, TurnInv, Turns, NoteInv, StreamInv,
       Healthy, Connected, serverVars
  <2> QED
    BY <1>4, <2>3, <2>4, <2>5
<1>6. CASE cpc # "login"
  <2>1. /\ cpc' = "idle" /\ c_err' = TRUE /\ Connected /\ stack # Opening
        /\ MainLoop(stack) /\ cpc # "off"
    BY <1>1, <1>3, <1>6, NotOpening DEF Connected, Asking, StackInv
  <2>2. StackInv' /\ HandshakeInv'
    BY <1>1, <1>3, <2>1 DEF StackInv, HandshakeInv, serverVars
  <2>3. Order'
    BY <1>1, <1>2, <1>3, <2>1
    DEF IdInv, AckInv, GoodbyeInv, TermInv, Healthy, serverVars
  <2>4. Counts'
    BY <1>1, <1>2, <1>3, <2>1 DEF CallInv, TurnInv, Turns, NoteInv,
       Healthy, Connected, serverVars
  <2>5. StreamInv'
    BY <1>1, <2>1 DEF StreamInv, Connected, Held, Sent
  <2> QED
    BY <1>4, <2>2, <2>3, <2>4, <2>5
<1> QED
  BY <1>5, <1>6

LEMMA GetAnswerKeeps ==
  ASSUME IInv, GetAnswer
  PROVE  IInv'
<1> DEFINE m == Head(s2c)
           given == cpc = "get" /\ m.data # 0
<1> USE DEF IInv, Shape, Order, Counts
<1>1. /\ cpc \in Asking \cup {"read"} /\ s2c # <<>> /\ m.code \in {"OK", "UNK"}
      /\ s2c' = Tail(s2c)
      /\ cpc' = IF cpc = "term" THEN "termed" ELSE "idle"
      /\ IF cpc = "get" /\ m.code = "OK" THEN TakeEvent(m) ELSE UNCHANGED <<c_poll, got>>
      /\ UNCHANGED <<c2s, asked, c_pending, c_err, serverVars, due, happened, counts,
                     clean>>
  BY DEF GetAnswer
<1>2. /\ stack # Opening /\ MainLoop(stack) /\ ~HasGoodbye(c2s)
      /\ ~clean /\ ~broken /\ ~c_err /\ Connected /\ Healthy
  BY <1>1, NotOpening
  DEF StackInv, GoodbyeInv, HandshakeInv, Asking, Connected, Healthy
<1>3. /\ Requests \in Nat /\ Gets \in Nat /\ Answers \in Nat /\ Reports \in Nat
      /\ Carriers \in Nat /\ Served \in Nat /\ Fetching \in Nat /\ Polls \in Nat
      /\ Gets <= Requests /\ Fetching <= Served
  BY CountsAreNat
<1>4. /\ Answers >= 1 /\ Answers' = Answers - 1 /\ UNCHANGED <<Reports, Notes>>
      /\ m \in Packets /\ s2c' \in Seq(Packets) /\ Numbered(s2c')
      /\ cpc = "get" => m.code = "OK"
      /\ cpc # "get" => m.data = 0
      /\ cpc = "term" => s2c' = <<>>
  BY <1>1, <1>2, ClientTakes DEF DataInv, IdInv, TermInv, IsAnswer
<1>5. /\ Requests = 0 /\ Served = 0 /\ Answers = 1 /\ cpc \in Asking
      /\ Gets = 0 /\ Fetching = 0
  <2>1. Requests + Served + Answers = IF cpc \in Asking THEN 1 ELSE 0
    BY <1>2 DEF CallInv, One
  <2>2. Answers >= 1
    BY <1>4
  <2>3. cpc \in Asking /\ Requests + Served + Answers = 1
    BY <1>3, <2>1, <2>2
  <2> QED
    BY <1>3, <2>2, <2>3
<1>6. /\ UNCHANGED <<Requests, Gets, Replies, Served, Fetching, Told, Polls>>
      /\ Requests' = 0 /\ Served' = 0 /\ Answers' = 0 /\ Gets' = 0 /\ Fetching' = 0
  BY <1>1, <1>4, <1>5, SameCounts DEF serverVars
<1>7. /\ m.data \in Nat
      /\ m \in Carried <=> given
      /\ IF given THEN got' = Append(got, m.data) /\ c_poll' = c_poll
         ELSE got' = got /\ c_poll' = (c_poll \/ cpc = "get")
  BY <1>1, <1>4 DEF TakeEvent, Packets, Carried, TypeOK
<1> HIDE DEF given
<1>8. /\ Carriers' = IF given THEN Carriers - 1 ELSE Carriers
      /\ given => Carriers >= 1
  BY <1>1, <1>4, <1>7, ClientTakes DEF Carried
<1>9. given => /\ Carriers = 1 /\ ~s_poll /\ Polls = 0 /\ c_pending = 0 /\ Reports = 0
  <2> SUFFICES ASSUME given
               PROVE  Carriers = 1 /\ ~s_poll /\ Polls = 0 /\ c_pending = 0 /\ Reports = 0
    OBVIOUS
  <2>1. Carriers = 1 /\ ~s_poll /\ Polls = 0 /\ c_pending = 0
    BY <1>2, <1>3, <1>8 DEF TurnInv, One
  <2>2. Carriers' = 0
    BY <1>8, <2>1
  <2>3. Reports' = 0
    <3> DEFINE q == Tail(s2c)
    <3>1. q \in Seq(Packets) /\ Numbered(q) /\ Count(q, Carried) = 0
      BY <1>1, <1>4, <2>2 DEF Carriers
    <3> HIDE DEF q
    <3>2. Count(q, ReportPackets) = 0
      BY <3>1, NothingCarried
    <3> QED
      BY <1>1, <3>2 DEF q, Reports
  <2> QED
    BY <1>4, <2>1, <2>3
<1>10. /\ cpc' \notin {"off", "greet", "login", "opened", "get", "term"}
       /\ cpc' \notin Asking /\ cpc' \in ClientStates
       /\ cpc' = "termed" <=> cpc = "term"
  BY <1>1 DEF Asking, ClientStates
<1>11. Shape'
  <2>1. got \in Seq(Nat \ {0}) /\ c_poll \in BOOLEAN
    BY DEF TypeOK
  <2>2. got' \in Seq(Nat \ {0}) /\ c_poll' \in BOOLEAN
    <3>1. CASE given
      <4>1. m.data \in Nat \ {0}
        BY <1>7, <3>1 DEF given
      <4>2. Append(got, m.data) \in Seq(Nat \ {0})
        BY <2>1, <4>1, AppendProperties
      <4> QED
        BY <1>7, <2>1, <3>1, <4>2
    <3>2. CASE ~given
      BY <1>7, <2>1, <3>2
    <3> QED
      BY <3>1, <3>2
  <2>3. TypeOK' /\ DataInv'
    BY <1>1, <1>4, <1>10, <2>2 DEF TypeOK, DataInv, serverVars, counts
  <2> QED
    BY <1>1, <1>2, <1>10, <2>3 DEF StackInv, HandshakeInv, serverVars
<1>12. Order'
  <2>1. IdInv'
    <3>1. AnswersAre(s2c', asked) /\ NoneGiven(s2c')
      <4> DEFINE q == Tail(s2c)
      <4>1. q \in Seq(Packets) /\ Count(q, AnswerPackets) = 0
        BY <1>1, <1>4, <1>6 DEF Answers
      <4> HIDE DEF q
      <4>2. \A i \in DOMAIN q : q[i] \in Packets /\ q[i] \notin AnswerPackets
        BY <4>1, CountIsNat, ElementOfSeq, LenProperties
      <4>3. AnswersAre(q, asked) /\ NoneGiven(q)
        BY <4>2 DEF AnswersAre, NoneGiven, AnswerPackets, IsAnswer
      <4> QED
        BY <1>1, <4>3 DEF q
    <3>2. RequestsAre(c2s, asked) /\ FramesAre(stack, asked)
      BY <1>2 DEF IdInv
    <3> QED
      BY <1>1, <1>10, <3>1, <3>2 DEF IdInv, serverVars
  <2>2. AckInv' /\ GoodbyeInv' /\ TermInv'
    BY <1>1, <1>2, <1>4, <1>6, <1>10 DEF AckInv, GoodbyeInv, TermInv, serverVars
  <2> QED
    BY <2>1, <2>2
<1>13. CallInv'
  BY <1>6, <1>10 DEF CallInv, One
<1>14. TurnInv'
  <2>1. One(s_poll) + Polls + Reports > 0 => c_poll'
    <3>1. CASE given
      BY <1>3, <1>9, <3>1 DEF One
    <3>2. CASE ~given
      BY <1>2, <1>7, <3>2 DEF TurnInv
    <3> QED
      BY <3>1, <3>2
  <2>2. Carriers' + One(s_poll) + Polls + One(c_pending # 0) <= 1
    BY <1>2, <1>3, <1>8 DEF TurnInv, One
  <2>3. UNCHANGED <<s_poll, c_pending>>
    BY <1>1 DEF serverVars
  <2> QED
    BY <1>4, <1>6, <2>1, <2>2, <2>3 DEF TurnInv, Turns
<1>15. NoteInv'
  <2>1. cpc # "off" /\ clean' = clean
    BY <1>1, <1>5 DEF Asking
  <2>2. UNCHANGED <<Replies, Told, Notes>>
    BY <1>4, <1>6
  <2> QED
    BY <1>2, <2>1, <2>2 DEF NoteInv
<1>16. StreamInv'
  <2>1. Held' = Held /\ due' = due /\ happened' = happened
    BY <1>1 DEF Held
  <2>2. CASE given
    <3> DEFINE N == Nat \ {0}
    <3>1. Sent = <<m.data>> /\ Sent' = <<>>
      BY <1>1, <1>2, <1>7, <2>2, SentOnce, EventsTail DEF Sent
    <3>2. Held = <<>>
      BY <1>9, <2>2 DEF Held
    <3>3. got \in Seq(N) /\ due \in Seq(N) /\ m.data \in N
      BY <1>7, <2>2 DEF TypeOK, DataInv, given
    <3>4. Chain(got, <<>>, <<m.data>>, due) = [i \in 1 .. happened |-> i]
      BY <1>2, <3>1, <3>2 DEF StreamInv, Chain
    <3> HIDE DEF N
    <3>5. Chain(got', <<>>, <<>>, due) = Chain(got, <<>>, <<m.data>>, due)
      <4>1. Chain(Append(got, m.data), <<>>, <<>>, due) = Chain(got, <<>>, <<m.data>>, due)
        BY <3>3, Regrouped
      <4> QED
        BY <1>7, <2>2, <4>1
    <3> QED
      BY <2>1, <3>1, <3>2, <3>4, <3>5 DEF StreamInv, Chain
  <2>3. CASE ~given
    <3>1. Sent' = Sent
      BY <1>1, <1>2, <1>7, <2>3, SentOnce, EventsTail DEF Sent
    <3> QED
      BY <1>2, <1>7, <2>1, <2>3, <3>1 DEF StreamInv
  <2> QED
    BY <2>2, <2>3
<1> QED
  BY <1>11, <1>12, <1>13, <1>14, <1>15, <1>16

-----------------------------------------------------------------------------
(* The theorems                                                            *)

LEMMA InitIInv == Init => IInv
<1> SUFFICES ASSUME Init PROVE IInv
  OBVIOUS
<1> USE DEF IInv, Shape, Order, Counts
<1>1. /\ s2c = <<Packet("OPEN", 0, 0)>> /\ c2s = <<>>
      /\ stack = Opening /\ s_poll = FALSE /\ broken = FALSE
      /\ due = <<>> /\ happened = 0 /\ messages = 0 /\ requests = 0 /\ failures = 0
      /\ sessions = 1 /\ cpc = "greet" /\ asked = 0 /\ c_err = FALSE
      /\ c_pending = 0 /\ c_poll = FALSE /\ got = <<>> /\ clean = FALSE
  BY DEF Init, Opening
<1>2. /\ Requests = 0 /\ Gets = 0 /\ Replies = 0
      /\ Served = 0 /\ Fetching = 0 /\ Told = 0 /\ Polls = 0
      /\ Reports = 0 /\ Notes = 0
      /\ stack \in Seq(Frames) /\ s2c \in Seq(Packets) /\ Numbered(s2c)
  <2>1. stack \in {<<>>, Opening, Looping}
    BY <1>1
  <2> QED
    BY <1>1, <2>1, OpenQueue, ShortQueues DEF Requests, Gets, Replies, Served,
       Fetching, Told, Polls, Reports, Notes
<1>3. Shape
  <2>1. TypeOK
    <3>1. {happened, messages, requests, failures, sessions} \subseteq Nat
      BY <1>1
    <3> QED
      BY <1>1, <1>2, <3>1, EmptyData DEF TypeOK, ClientStates
  <2> QED
    BY <1>1, <1>2, <2>1, EmptyData DEF DataInv, StackInv, HandshakeInv
<1>4. Order
  BY <1>1, EmptyQueue DEF IdInv, AckInv, GoodbyeInv, TermInv, Healthy
<1>5. CallInv
  BY <1>1, <1>2 DEF CallInv, Healthy, Connected
<1>6. TurnInv
  BY <1>1, <1>2 DEF TurnInv, Turns, Healthy, Connected, One
<1>7. NoteInv /\ StreamInv
  BY <1>1, <1>2 DEF NoteInv, StreamInv, Connected
<1> QED
  BY <1>3, <1>4, <1>5, <1>6, <1>7

LEMMA StutterKeeps ==
  ASSUME IInv, UNCHANGED vars
  PROVE  IInv'
<1>1. /\ UNCHANGED <<Requests, Gets, Replies, Answers, Reports, Notes, Carriers>>
      /\ UNCHANGED <<Served, Fetching, Told, Polls>>
  BY SameCounts DEF vars, serverVars
<1>2. /\ UNCHANGED <<c2s, s2c, cpc, asked, c_pending, c_poll, c_err, stack, s_poll,
                     broken, due, happened, messages, requests, failures, sessions,
                     got, clean>>
  BY DEF vars, clientVars, serverVars, counts
<1>3. Shape'
  BY <1>2 DEF IInv, Shape, TypeOK, DataInv, StackInv, HandshakeInv
<1>4. Order'
  BY <1>1, <1>2 DEF IInv, Order, IdInv, AckInv, GoodbyeInv, TermInv, Healthy
<1>5. Counts'
  BY <1>1, <1>2
  DEF IInv, Counts, CallInv, TurnInv, Turns, NoteInv, Healthy, Connected
<1>6. StreamInv'
  BY <1>2 DEF IInv, StreamInv, Connected, Held, Sent
<1> QED
  BY <1>3, <1>4, <1>5, <1>6 DEF IInv

LEMMA NextIInv ==
  ASSUME IInv, [Next]_vars
  PROVE  IInv'
<1>1. CASE ClientStep
  <2>1. CASE LoggedIn
    BY <2>1, LoggedInKeeps
  <2>2. CASE dbg_init
    BY <2>2, dbg_initKeeps
  <2>3. CASE TakePending
    BY <2>3, TakePendingKeeps
  <2>4. CASE ReadWaiting
    BY <2>4, ReadWaitingKeeps
  <2>5. CASE AskForEvent \/ Call \/ Terminate
    BY <2>5, RequestsKeep
  <2>6. CASE Close
    BY <2>6, CloseKeeps
  <2>7. CASE GetAnswer
    BY <2>7, GetAnswerKeeps
  <2>8. CASE GetEvent
    BY <2>8, GetEventKeeps
  <2>9. CASE GetMessage
    BY <2>9, GetMessageKeeps
  <2>10. CASE ReceiveFails
    BY <2>10, ReceiveFailsKeeps
  <2>11. CASE OpenAgain
    BY <2>11, OpenAgainKeeps
  <2>12. CASE \E compatible, password \in BOOLEAN : Greet(compatible, password)
    BY <2>12, GreetKeeps
  <2> QED
    BY <1>1, <2>1, <2>2, <2>3, <2>4, <2>5, <2>6, <2>7, <2>8, <2>9, <2>10, <2>11, <2>12
    DEF ClientStep
<1>2. CASE ServerStep
  <2>1. CASE Login
    BY <2>1, LoginKeeps
  <2>2. CASE poll_events
    BY <2>2, poll_eventsKeeps
  <2>3. CASE FetchNothing
    BY <2>3, FetchNothingKeeps
  <2>4. CASE FetchEvent
    BY <2>4, FetchEventKeeps
  <2>5. CASE FetchNote
    BY <2>5, FetchNoteKeeps
  <2>6. CASE Serve
    BY <2>6, ServeKeeps
  <2>7. CASE GetEvok
    BY <2>7, GetEvokKeeps
  <2>8. CASE Answered
    BY <2>8, AnsweredKeeps
  <2>9. CASE ServerReceiveFails
    BY <2>9, ServerReceiveFailsKeeps
  <2>10. CASE \E code \in {"MSG", "SET_DEBUG_NAMES"} : CallAsks(code)
    BY <2>10, CallAsksKeeps
  <2>11. CASE \E code \in {"OK", "UNK"} : AnswerCall(code)
    BY <2>11, AnswerCallKeeps
  <2> QED
    BY <1>2, <2>1, <2>2, <2>3, <2>4, <2>5, <2>6, <2>7, <2>8, <2>9, <2>10, <2>11
    DEF ServerStep
<1>3. CASE EventHappens
  BY <1>3, EventHappensKeeps
<1>4. CASE Terminated \/ UNCHANGED vars
  BY <1>4, StutterKeeps DEF Terminated
<1> QED
  BY <1>1, <1>2, <1>3, <1>4 DEF Next

\* The invariant that carries the others
THEOREM SessionInvariant == Spec => []IInv
<1>1. IInv /\ [Next]_vars => IInv'
  BY NextIInv
<1> QED
  BY InitIInv, <1>1, PTL DEF Spec

\* Each variable keeps its type, and "no event" is never given to IDA as an event.
THEOREM SessionTypes == Spec => []TypeOK
<1>1. IInv => TypeOK
  BY DEF IInv, Shape
<1> QED
  BY SessionInvariant, <1>1, PTL

\* While the connection is in order, what IDA was given, what the client holds in
\* pending_event, the packet on the way and what the debugger still has queued are
\* together the events that happened, each once and in order: neither polling, nor
\* a call that meets an event, nor the nesting of requests drops or doubles one.
THEOREM NoEventIsLost == Spec => []EventsConserved
<1>1. IInv => EventsConserved
  BY DEF IInv, StreamInv, EventsConserved, Healthy, Connected
<1> QED
  BY SessionInvariant, <1>1, PTL

\* The server fetches from the debugger module only when the client has
\* acknowledged the event before: has_pending_event and RPC_EVOK keep to turns.
THEOREM FetchesAreAcknowledged == Spec => []NoFetchWhileUnacknowledged
<1>1. IInv => NoFetchWhileUnacknowledged
  <2> SUFFICES ASSUME IInv, \E i \in DOMAIN stack : stack[i].op = "GET_DEBUG_EVENT"
               PROVE  /\ \A i \in DOMAIN s2c : s2c[i].code # "EVENT"
                      /\ \A i \in DOMAIN c2s : c2s[i].code # "EVOK"
    BY DEF NoFetchWhileUnacknowledged
  <2> USE DEF IInv, Shape, Order, Counts
  <2>1. /\ Fetching \in Nat /\ Gets \in Nat /\ Polls \in Nat /\ Reports \in Nat
        /\ Fetching # 0
    BY CountsAreNat, Zeros
  <2>2. Fetching > 0 /\ Gets + Fetching > 0
    BY <2>1
  <2>3. Reports = 0
    BY <2>1, <2>2 DEF TurnInv, Turns, One
  <2>4. NoAck(c2s)
    BY <2>2 DEF AckInv
  <2> QED
    BY <2>3, <2>4, Zeros DEF NoAck
<1> QED
  BY SessionInvariant, <1>1, PTL

\* The event is fetched by the polling server or for the client's request, never
\* by both: poll_debug_events is on only while nothing else asks.
THEOREM OneEndFetches == Spec => []OneFetcher
<1>1. IInv => OneFetcher
  <2> SUFFICES ASSUME IInv, Healthy, ~c_poll,
                      s_poll \/ \E j \in DOMAIN stack : stack[j].op = "poll" \/ stack[j].saved
               PROVE  /\ cpc = "get"
                      /\ \E i \in DOMAIN s2c : s2c[i].code = "OK" /\ s2c[i].id = asked
    BY DEF OneFetcher
  <2> USE DEF IInv, Shape, Order, Counts
  <2>1. Polls \in Nat /\ Reports \in Nat /\ (s_poll \/ Polls # 0)
    BY CountsAreNat, Zeros
  <2>2. One(s_poll) + Polls + Reports > 0
    BY <2>1 DEF One
  <2>3. cpc = "get" /\ Answers = 1
    BY <2>2 DEF TurnInv
  <2>4. PICK i \in DOMAIN s2c : IsAnswer(s2c[i])
    BY <2>3, Zeros
  <2>5. s2c[i].id = asked /\ s2c[i].code # "UNK"
    BY <2>3, <2>4 DEF IdInv, AnswersAre, EachOK
  <2> QED
    BY <2>3, <2>4, <2>5 DEF IsAnswer
<1> QED
  BY SessionInvariant, <1>1, PTL

\* However requests and notes nest, the answer an end reads next belongs to the
\* call it waits in, though the protocol matches them by their order alone.
THEOREM AnswersReachTheirCall == Spec => []AnswersFindTheirCall
<1>1. IInv => AnswersFindTheirCall
  <2> SUFFICES ASSUME IInv PROVE AnswersFindTheirCall
    OBVIOUS
  <2> USE DEF IInv, Shape, Order, Counts
  <2>1. ASSUME Healthy, s2c # <<>>, Head(s2c).code \in {"OK", "UNK"}
        PROVE  cpc \in Asking /\ Head(s2c).id = asked
    <3>1. 1 \in DOMAIN s2c /\ Head(s2c) = s2c[1]
      BY SMTT(20), <2>1, LenProperties, EmptySeq DEF TypeOK
    <3>2. Answers # 0 /\ Head(s2c).id = asked
      BY <2>1, <3>1, Zeros DEF IsAnswer, IdInv, AnswersAre
    <3>3. Requests + Served + Answers = IF cpc \in Asking THEN 1 ELSE 0
      BY <2>1 DEF CallInv, One
    <3> QED
      BY <3>2, <3>3, CountsAreNat
  <2>2. ASSUME TopIs({"loop"}), c2s # <<>>, Head(c2s).code = "OK"
        PROVE  Head(c2s).id = 0
    <3>1. stack # <<>> /\ Top.op = "loop" /\ stack # Opening
      BY <2>2 DEF TopIs, Top, Opening, Frame
    <3>2. Len(stack) \in Nat \ {0} /\ DOMAIN stack = 1 .. Len(stack)
      BY <3>1, TopCounted
    <3>3. Len(stack) = 1
      <4>1. MainLoop(stack) /\ Len(stack) \in DOMAIN stack
        BY <3>1, <3>2 DEF StackInv
      <4>2. ~(Len(stack) > 1)
        BY <3>1, <4>1 DEF MainLoop, Top
      <4> QED
        BY <3>2, <4>2
    <3>4. \A i \in DOMAIN stack : stack[i] \notin NoteFrames
      BY <3>1, <3>2, <3>3 DEF Top, NoteFrames
    <3>5. Told = 0
      BY <3>4, CountIsNat DEF Told, TypeOK
    <3>6. c2s \in Seq(Packets) /\ 1 \in DOMAIN c2s /\ Head(c2s) = c2s[1]
          /\ Head(c2s) \in Packets
      BY <2>2, LenProperties, EmptySeq, HeadTailProperties DEF TypeOK
    <3>7. Head(c2s).id # 0 => Replies # 0
      BY <2>2, <3>6, CountIsNat DEF Replies, ReplyPackets
    <3> QED
      BY <3>5, <3>7, CountsAreNat DEF NoteInv
  <2> QED
    BY <2>1, <2>2 DEF AnswersFindTheirCall
<1> QED
  BY SessionInvariant, <1>1, PTL

\* A client that closed its connection as it should leaves no broken session
\* behind in the server, which would wait for it to return.
THEOREM OnlyFailureBreaks == Spec => []BrokenOnlyByFailure
<1>1. IInv => BrokenOnlyByFailure
  BY DEF IInv, Order, GoodbyeInv, BrokenOnlyByFailure
<1> QED
  BY SessionInvariant, <1>1, PTL

-----------------------------------------------------------------------------
(* The connection implements the stream of events                          *)

\* The event in front of the last two sequences comes next after the given ones.
Begins(q, x, S) == \E t \in Seq(S) : q = x \o t

LEMMA EventInFront ==
  ASSUME NEW S, NEW a \in Seq(S), NEW b \in Seq(S), NEW d \in Seq(S), NEW e \in S
  PROVE  /\ Begins(Chain(a, <<e>>, b, d), Append(a, e), S)
         /\ Begins(Chain(a, <<>>, <<e>>, d), Append(a, e), S)
<1> DEFINE x == Append(a, e)
<1>1. x \in Seq(S) /\ x \o <<>> = x /\ <<>> \in Seq(S)
  BY AppendProperties, ConcatEmptySeq
<1>2. /\ Chain(a, <<>>, <<e>>, d) = Chain(Append(a, e), <<>>, <<>>, d)
      /\ Chain(a, <<e>>, b, d) = Chain(Append(a, e), <<>>, b, d)
  BY Regrouped
<1> HIDE DEF x
<1>3. ASSUME NEW c \in Seq(S) PROVE Begins(Chain(x, <<>>, c, d), x, S)
  <2>1. x \o (c \o d) = (x \o c) \o d
    BY <1>1, SMTT(30)
  <2>2. c \o d \in Seq(S)
    BY ConcatProperties
  <2> QED
    BY <1>1, <2>1, <2>2, Zenon DEF Chain, Begins
<1> QED
  BY <1>1, <1>2, <1>3, Zenon DEF x

\* What is given next is the event after those given.
LEMMA NextInLine ==
  ASSUME NEW a \in Seq(Nat \ {0}), NEW b \in Seq(Nat \ {0}), NEW d \in Seq(Nat \ {0}),
         NEW e \in Nat \ {0}, NEW n \in Nat,
         \/ Chain(a, <<e>>, b, d) = [i \in 1 .. n |-> i]
         \/ Chain(a, <<>>, <<e>>, d) = [i \in 1 .. n |-> i]
  PROVE  e = Len(a) + 1 /\ Len(a) < n
<1> DEFINE N == Nat \ {0}
           s == [i \in 1 .. n |-> i]
           m == Len(a) + 1
<1>1. a \in Seq(N) /\ b \in Seq(N) /\ d \in Seq(N) /\ e \in N
  OBVIOUS
<1>2. Append(a, e) \in Seq(N)
  BY <1>1, AppendProperties
<1>3. PICK t \in Seq(N) : Append(a, e) \o t = s
  <2>1. /\ Begins(Chain(a, <<e>>, b, d), Append(a, e), N)
        /\ Begins(Chain(a, <<>>, <<e>>, d), Append(a, e), N)
    <3> HIDE DEF N
    <3> QED
      BY <1>1, EventInFront
  <2> HIDE DEF N
  <2>2. Chain(a, <<e>>, b, d) = s \/ Chain(a, <<>>, <<e>>, d) = s
    OBVIOUS
  <2> HIDE DEF s
  <2> QED
    BY <2>1, <2>2 DEF Begins
<1>4. /\ Len(Append(a, e)) = m /\ Append(a, e)[m] = e /\ Len(a) \in Nat
  BY <1>1, AppendProperties, LenProperties
<1> DEFINE x == Append(a, e)
<1> HIDE DEF x, N
<1>5. /\ Len(x \o t) = Len(x) + Len(t) /\ Len(t) \in Nat
      /\ \A i \in 1 .. Len(x) + Len(t) :
           (x \o t)[i] = IF i <= Len(x) THEN x[i] ELSE t[i - Len(x)]
  <2>1. x \in Seq(N) /\ t \in Seq(N)
    BY <1>2, <1>3 DEF x
  <2> QED
    BY <2>1, ConcatProperties, LenProperties
<1>6. Len(s) = n
  BY SMTT(30)
<1>7. m <= n /\ (x \o t)[m] = e
  <2>1. x \o t = s /\ Len(x) = m /\ x[m] = e
    BY <1>3, <1>4 DEF x
  <2>2. n = m + Len(t) /\ Len(t) \in Nat /\ Len(a) \in Nat
    BY <1>4, <1>5, <1>6, <2>1
  <2>3. m <= n /\ m \in 1 .. m + Len(t) /\ m <= m
    <3> HIDE DEF x, s
    <3> QED
      BY <2>2
  <2> HIDE DEF m, s
  <2>4. (x \o t)[m] = IF m <= Len(x) THEN x[m] ELSE t[m - Len(x)]
    BY <1>5, <2>1, <2>3
  <2> QED
    BY <2>1, <2>3, <2>4
<1>8. s[m] = m
  BY <1>4, <1>7
<1> QED
  BY <1>3, <1>4, <1>7, <1>8 DEF x

LEMMA StepImplements ==
  ASSUME IInv, [Next]_vars
  PROVE  [Stream!Next]_(Stream!vars)
<1> USE DEF IInv, Shape, Order, Counts, Stream!Next, Stream!vars
<1> DEFINE up == cpc # "off" /\ ~c_err
<1>1. c_err \in BOOLEAN /\ c_err' \in BOOLEAN
  BY NextIInv DEF TypeOK
<1>2. CASE EventHappens
  BY <1>2 DEF EventHappens, clientVars, Stream!Occur
<1>3. CASE TakePending
  <2>1. /\ cpc = "idle" /\ c_pending # 0 /\ got' = Append(got, c_pending)
        /\ UNCHANGED <<cpc, c_err, happened>>
    BY <1>3 DEF TakePending
  <2>2. /\ got \in Seq(Nat \ {0}) /\ due \in Seq(Nat \ {0}) /\ Sent \in Seq(Nat \ {0})
        /\ c_pending \in Nat \ {0} /\ happened \in Nat
    BY <2>1, SentOnce DEF TypeOK, DataInv, Connected
  <2>3. Chain(got, <<c_pending>>, Sent, due) = [i \in 1 .. happened |-> i]
    BY <2>1 DEF StreamInv, Connected, Held, Chain
  <2>4. c_pending = Len(got) + 1 /\ Len(got) < happened
    BY <2>2, <2>3, NextInLine
  <2> QED
    BY <2>1, <2>4 DEF Stream!Give
<1>4. CASE GetAnswer
  <2>1. /\ cpc \in Asking \cup {"read"} /\ s2c # <<>> /\ Head(s2c).code \in {"OK", "UNK"}
        /\ cpc' \in {"idle", "termed"} /\ UNCHANGED <<c_err, happened>>
        /\ IF cpc = "get" /\ Head(s2c).code = "OK" THEN TakeEvent(Head(s2c))
           ELSE UNCHANGED got
    BY <1>4 DEF GetAnswer
  <2>2. Connected /\ Healthy /\ cpc # "off" /\ cpc' # "off"
    BY <2>1 DEF HandshakeInv, Asking, Connected, Healthy
  <2>3. CASE got' = got
    BY <2>1, <2>2, <2>3
  <2>4. CASE got' # got
    <3> DEFINE m == Head(s2c)
    <3>1. m.code = "OK" /\ m.data # 0 /\ got' = Append(got, m.data)
      BY <2>1, <2>4 DEF TakeEvent
    <3>2. m \in Carried /\ m.data \in Nat \ {0}
      <4>1. s2c \in Seq(Packets)
        BY DEF TypeOK
      <4>2. m \in Packets
        BY <2>1, <4>1, HeadTailProperties
      <4> HIDE DEF m
      <4> QED
        BY <3>1, <4>2 DEF Carried, Packets
    <3>3. Sent = <<m.data>> /\ Held = <<>>
      <4>1. s2c \in Seq(Packets) /\ Count(s2c, Carried) <= 1
        BY <2>2, SentOnce
      <4>2. Sent = <<m.data>>
        BY <2>1, <3>2, <4>1, EventsTail DEF Sent
      <4>3. Carriers # 0
        BY <2>1, <3>2, <4>1, LenProperties, EmptySeq, Zeros
      <4>4. Carriers + One(s_poll) + Polls + One(c_pending # 0) <= 1
        BY <2>2 DEF TurnInv
      <4>5. c_pending = 0
        BY <4>3, <4>4, CountsAreNat DEF One
      <4> QED
        BY <4>2, <4>5 DEF Held
    <3>4. got \in Seq(Nat \ {0}) /\ due \in Seq(Nat \ {0}) /\ happened \in Nat
      BY DEF TypeOK, DataInv
    <3>5. Chain(got, <<>>, <<m.data>>, due) = [i \in 1 .. happened |-> i]
      BY <2>2, <3>3 DEF StreamInv, Chain
    <3> HIDE DEF m
    <3>6. m.data = Len(got) + 1 /\ Len(got) < happened
      BY <3>2, <3>4, <3>5, NextInLine
    <3> QED
      BY <2>1, <2>2, <3>1, <3>6 DEF Stream!Give
  <2> QED
    BY <2>3, <2>4
<1>5. CASE OpenAgain
  BY <1>5 DEF OpenAgain, Accepted, Stream!Restart
<1>6. CASE LoggedIn \/ ReceiveFails \/ (\E c, p \in BOOLEAN : Greet(c, p)) \/ Close
  <2>1. UNCHANGED <<happened, got>>
    BY <1>6 DEF LoggedIn, ReceiveFails, Greet, Close
  <2>2. up \/ ~up'
    BY <1>1, <1>6 DEF LoggedIn, ReceiveFails, Greet, Close, HandshakeInv, Asking
  <2>3. CASE up' <=> up
    BY <2>1, <2>3
  <2>4. CASE ~(up' <=> up)
    BY <2>1, <2>2, <2>4 DEF Stream!Fail
  <2> QED
    BY <2>3, <2>4
<1>7. CASE dbg_init \/ ReadWaiting \/ AskForEvent \/ Call \/ Terminate \/ GetEvent
  <2>1. /\ UNCHANGED <<happened, got, c_err>> /\ cpc # "off" /\ cpc' # "off"
    BY <1>7 DEF dbg_init, Ask, ReadWaiting, AskForEvent, Call, Terminate, GetEvent, Asking
  <2> QED
    BY <2>1
<1>8. CASE GetMessage \/ ServerStep \/ Terminated \/ UNCHANGED vars
  <2>1. UNCHANGED <<happened, got, cpc, c_err>>
    BY <1>8 DEF GetMessage, ServerStep, Login, poll_events, FetchNothing, FetchEvent,
       FetchNote, Serve, GetEvok, Answered, ServerReceiveFails, CallAsks, AnswerCall,
       Terminated, vars, clientVars
  <2> QED
    BY <2>1
<1> QED
  BY <1>2, <1>3, <1>4, <1>5, <1>6, <1>7, <1>8 DEF Next, ClientStep

\* Every step of the connection is a step of the stream of events or none of its
\* steps: events are given to IDA in the order they happen, each of them once.
THEOREM SessionImplementsStream == Spec => Stream!Safety
<1>1. Init => Stream!Init
  BY DEF Init, Stream!Init
<1>2. IInv /\ [Next]_vars => [Stream!Next]_(Stream!vars)
  BY StepImplements
<1> QED
  BY <1>1, <1>2, SessionInvariant, PTL DEF Spec, Stream!Safety
=============================================================================
