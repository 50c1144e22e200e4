---------------------------- MODULE OutboxProofs ----------------------------
(***************************************************************************)
(* What module Outbox says of the offline queue, for every set of messages *)
(* and flushes and any number of lost answers, and that it implements the  *)
(* promise of module Courier.                                              *)
(***************************************************************************)
EXTENDS Outbox, SequenceTheorems, FiniteSetTheorems, TLAPS

Distinct(s) == \A j, k \in DOMAIN s : s[j] = s[k] => j = k

(* A message is in the queue or in a flush. *)
Kept(i) == i \in ToSet(stored) \/ \E f \in Flushes : i \in ToSet(batch[f])

Types ==
  /\ stored \in Seq(Items)
  /\ batch \in [Flushes -> Seq(Items)]
  /\ composing \subseteq written /\ written \subseteq Items
  /\ {onLine, link, shown, asked} \subseteq BOOLEAN /\ waits \subseteq queued
  /\ sent \in [Items -> 0..MaxLost + 1]
  /\ queued \subseteq written /\ unanswered \subseteq written
  /\ left \subseteq queued /\ forgotten \subseteq queued /\ unsaved \subseteq queued

(* The queue, the flushes and the first POSTs hold different messages, each once. *)
Apart ==
  /\ Distinct(stored) /\ \A f \in Flushes : Distinct(batch[f])
  /\ \A f \in Flushes : ToSet(stored) \cap ToSet(batch[f]) = {}
  /\ \A f, g \in Flushes : f # g => ToSet(batch[f]) \cap ToSet(batch[g]) = {}
  /\ queued \cap composing = {}
  /\ \A i \in Items : Kept(i) => i \in queued

(* What the server stored of a message that may still be posted it did not tell of, and it may
   be posted once more. *)
Counted ==
  /\ \A i \in Items : i \notin written \/ i \in composing => sent[i] = 0
  /\ \A i \in Items : Kept(i) => sent[i] <= MaxLost
  /\ \A i \in Items : sent[i] > 1 \/ (sent[i] > 0 /\ Kept(i)) => i \in unanswered

Accounted == \A i \in queued : sent[i] = 0 /\ ~Kept(i) => i \in left \cup forgotten \cup unsaved

IInv == Types /\ Apart /\ Counted /\ Accounted

----------------------------------------------------------------------------
(* The empty queue. *)
LEMMA NoneIn == ToSet(<<>>) = {} /\ Distinct(<<>>)
  BY DEF ToSet, Distinct

(* The first message of a queue, and the others. *)
LEMMA FirstOut ==
  ASSUME NEW s \in Seq(Items), s # <<>>, Distinct(s)
  PROVE  /\ Head(s) \in ToSet(s) /\ Head(s) \in Items
         /\ Tail(s) \in Seq(Items) /\ Distinct(Tail(s))
         /\ ToSet(Tail(s)) = ToSet(s) \ {Head(s)}
  <1>1. /\ Len(s) \in Nat \ {0} /\ DOMAIN s = 1..Len(s) /\ Head(s) = s[1]
        /\ Tail(s) \in Seq(Items) /\ Len(Tail(s)) = Len(s) - 1 /\ DOMAIN Tail(s) = 1..Len(s) - 1
        /\ \A k \in 1..Len(s) - 1 : Tail(s)[k] = s[k + 1]
    BY HeadTailProperties, LenProperties, EmptySeq
  <1>2. Head(s) \in ToSet(s) /\ Head(s) \in Items
    BY <1>1, ElementOfSeq DEF ToSet
  <1>3. Distinct(Tail(s))
    BY <1>1 DEF Distinct
  <1>4. ASSUME NEW i \in ToSet(Tail(s)) PROVE i \in ToSet(s) \ {Head(s)}
    BY <1>1, <1>4 DEF ToSet, Distinct
  <1>5. ASSUME NEW i \in ToSet(s), i # Head(s) PROVE i \in ToSet(Tail(s))
    <2>1. PICK k \in 1..Len(s) : i = s[k]
      BY <1>1, <1>5 DEF ToSet
    <2>2. k # 1 /\ k - 1 \in 1..Len(s) - 1
      BY <2>1, <1>1, <1>5
    <2>3. Tail(s)[k - 1] = i
      BY <2>1, <2>2, <1>1
    <2> QED BY <2>2, <2>3, <1>1 DEF ToSet
  <1> QED BY <1>1, <1>2, <1>3, <1>4, <1>5

(* A message at the end of the queue. *)
LEMMA LastIn ==
  ASSUME NEW s \in Seq(Items), NEW i \in Items, Distinct(s), i \notin ToSet(s)
  PROVE  Append(s, i) \in Seq(Items) /\ Distinct(Append(s, i)) /\ ToSet(Append(s, i)) = ToSet(s) \cup {i}
  <1>1. /\ Len(s) \in Nat /\ DOMAIN s = 1..Len(s)
        /\ Append(s, i) \in Seq(Items) /\ DOMAIN Append(s, i) = 1..Len(s) + 1
        /\ \A k \in 1..Len(s) : Append(s, i)[k] = s[k]
        /\ Append(s, i)[Len(s) + 1] = i
    BY AppendProperties, LenProperties
  <1>2. Distinct(Append(s, i))
    BY <1>1 DEF Distinct, ToSet
  <1>3. ToSet(Append(s, i)) = ToSet(s) \cup {i}
    BY <1>1 DEF ToSet
  <1> QED BY <1>1, <1>2, <1>3

(* A message in front of the queue. *)
LEMMA FirstIn ==
  ASSUME NEW s \in Seq(Items), NEW i \in Items, Distinct(s), i \notin ToSet(s)
  PROVE  <<i>> \o s \in Seq(Items) /\ Distinct(<<i>> \o s) /\ ToSet(<<i>> \o s) = ToSet(s) \cup {i}
  <1> DEFINE t == <<i>> \o s
  <1>1. /\ Len(s) \in Nat /\ DOMAIN s = 1..Len(s)
        /\ t \in Seq(Items) /\ DOMAIN t = 1..Len(s) + 1 /\ t[1] = i
        /\ \A k \in 2..Len(s) + 1 : t[k] = s[k - 1]
    <2>1. <<i>> \in Seq(Items) /\ Len(<<i>>) = 1
      OBVIOUS
    <2>2. t \in Seq(Items) /\ Len(t) = 1 + Len(s)
      BY <2>1, ConcatProperties
    <2> QED BY <2>1, <2>2, ConcatProperties, LenProperties
  <1>2. \A k \in 1..Len(s) : t[k + 1] = s[k]
    BY <1>1
  <1> HIDE DEF t
  <1>3. ASSUME NEW k \in 2..Len(s) + 1 PROVE t[k] \in ToSet(s)
    <2>1. k - 1 \in 1..Len(s) /\ t[k] = s[k - 1]
      BY <1>1
    <2> QED BY <2>1, <1>1 DEF ToSet
  <1>4. Distinct(t)
    <2> SUFFICES ASSUME NEW j \in 1..Len(s) + 1, NEW k \in 1..Len(s) + 1, t[j] = t[k]
                 PROVE  j = k
      BY <1>1 DEF Distinct
    <2>1. CASE j = 1 \/ k = 1
      BY <2>1, <1>1, <1>3
    <2>2. CASE j # 1 /\ k # 1
      <3>1. j - 1 \in 1..Len(s) /\ k - 1 \in 1..Len(s) /\ s[j - 1] = s[k - 1]
        BY <2>2, <1>1
      <3> QED BY <3>1, <1>1 DEF Distinct
    <2> QED BY <2>1, <2>2
  <1>5. ToSet(t) = ToSet(s) \cup {i}
    <2>1. ASSUME NEW x \in ToSet(t) PROVE x \in ToSet(s) \cup {i}
      <3>1. PICK k \in 1..Len(s) + 1 : x = t[k]
        BY <1>1 DEF ToSet
      <3> QED BY <3>1, <1>1, <1>3
    <2>2. ASSUME NEW x \in ToSet(s) PROVE x \in ToSet(t)
      <3>1. PICK k \in 1..Len(s) : x = s[k]
        BY <1>1 DEF ToSet
      <3>2. k + 1 \in 1..Len(s) + 1 /\ t[k + 1] = x
        BY <3>1, <1>1, <1>2
      <3> QED BY <3>2, <1>1 DEF ToSet
    <2>3. i \in ToSet(t)
      <3>1. 1 \in 1..Len(s) + 1
        BY <1>1
      <3> QED BY <3>1, <1>1 DEF ToSet
    <2> QED BY <2>1, <2>2, <2>3
  <1> QED BY <1>1, <1>4, <1>5 DEF t

----------------------------------------------------------------------------
LEMMA Initially == Init => IInv
  <1> SUFFICES ASSUME Init PROVE IInv
    OBVIOUS
  <1>1. Types
    <2>1. {onLine, link, shown, asked} \subseteq BOOLEAN /\ waits \subseteq queued
      BY DEF Init
    <2>2. sent \in [Items -> 0..MaxLost + 1]
      BY OutboxAssumption DEF Init
    <2>3. stored \in Seq(Items) /\ batch \in [Flushes -> Seq(Items)]
      BY EmptySeq DEF Init
    <2> QED BY <2>1, <2>2, <2>3 DEF Init, Types
  <1>2. Apart /\ Counted /\ Accounted
    BY NoneIn, OutboxAssumption DEF Init, Apart, Counted, Accounted, Kept
  <1> QED BY <1>1, <1>2 DEF IInv

(* What a step that leaves the queue and the flushes as they are has to keep. *)
LEMMA ComposeStep == ASSUME IInv, NEW i \in Items, Compose(i)
  PROVE  IInv' /\ \A j \in Items : Kept(j)' <=> Kept(j)
  <1> USE OutboxAssumption DEF IInv, Compose, history, around
  <1>1. \A j : Kept(j)' <=> Kept(j)
    BY DEF Kept
  <1>2. Types'
    BY DEF Types
  <1>3. Apart'
    BY <1>1 DEF Types, Apart
  <1>4. Counted' /\ Accounted'
    BY <1>1 DEF Types, Apart, Counted, Accounted
  <1> QED BY <1>1, <1>2, <1>3, <1>4

LEMMA ComposeSentStep == ASSUME IInv, NEW i \in Items, ComposeSent(i)
  PROVE  IInv' /\ ~Kept(i) /\ \A j \in Items : Kept(j)' <=> Kept(j)
  <1> USE OutboxAssumption DEF IInv, ComposeSent, Stored, history, around
  <1>1. (\A j : Kept(j)' <=> Kept(j)) /\ ~Kept(i) /\ sent[i] = 0
    BY DEF Kept, Types, Apart, Counted
  <1>2. Types'
    BY <1>1 DEF Types
  <1>3. Apart'
    BY <1>1 DEF Types, Apart
  <1>4. Counted' /\ Accounted'
    BY <1>1 DEF Types, Apart, Counted, Accounted
  <1> QED BY <1>1, <1>2, <1>3, <1>4

LEMMA ComposeFailsStep == ASSUME IInv, NEW i \in Items, ComposeFails(i)
  PROVE  IInv' /\ \A j \in Items \ {i} : Kept(j)' <=> Kept(j)
  <1> USE OutboxAssumption DEF IInv
  <1>1. ~Kept(i) /\ sent[i] = 0 /\ i \in written /\ i \notin queued
    BY DEF Kept, Types, Apart, Counted, ComposeFails
  <1>2. /\ stored' \in Seq(Items) /\ Distinct(stored')
        /\ ToSet(stored') \in {ToSet(stored), ToSet(stored) \cup {i}}
        /\ i \notin ToSet(stored') => i \notin queued' \/ i \in unsaved'
        /\ i \in ToSet(stored') => i \in queued'
        /\ queued' \in {queued, queued \cup {i}} /\ unsaved' \in {unsaved, unsaved \cup {i}}
        /\ i \in unsaved' => i \in queued' \/ unsaved' = unsaved
    <2>1. CASE onLine
      BY <2>1, <1>1 DEF ComposeFails, Types, Apart, Kept
    <2>2. CASE ~onLine
      <3>1. CASE stored' = Append(stored, i) /\ UNCHANGED unsaved
        BY <2>2, <3>1, <1>1, LastIn DEF ComposeFails, Types, Apart, Kept
      <3>2. CASE UNCHANGED stored /\ unsaved' = unsaved \cup {i}
        BY <2>2, <3>2, <1>1 DEF ComposeFails, Types, Apart, Kept
      <3> QED BY <2>2, <3>1, <3>2 DEF ComposeFails, Save
    <2> QED BY <2>1, <2>2
  <1>3. /\ batch' = batch /\ UNCHANGED <<written, onLine, link, shown, waits, left, forgotten>> /\ composing' = composing \ {i}
        /\ \/ UNCHANGED <<sent, unanswered>>
           \/ sent[i] < MaxLost /\ sent' = [sent EXCEPT ![i] = @ + 1] /\ unanswered' = unanswered \cup {i}
    BY DEF ComposeFails, Throws, Stored
  <1>4. \A j \in Items : Kept(j)' <=> Kept(j) \/ (j = i /\ i \in ToSet(stored'))
    BY <1>1, <1>2, <1>3 DEF Kept
  <1>5. Types'
    <2>1. sent' \in [Items -> 0..MaxLost + 1]
      BY <1>1, <1>3 DEF Types
    <2>2. unanswered' \subseteq written' /\ composing' \subseteq written' /\ unsaved' \subseteq queued'
      BY <1>1, <1>2, <1>3 DEF Types
    <2>3. asked' \in BOOLEAN
      BY DEF ComposeFails, Types
    <2> QED BY <1>1, <1>2, <1>3, <2>1, <2>2, <2>3 DEF Types
  <1>6. Apart'
    BY <1>1, <1>2, <1>3, <1>4 DEF Types, Apart, Kept
  <1>7. Counted'
    <2>1. /\ sent' \in [Items -> Nat] /\ sent'[i] \in {0, 1} /\ sent'[i] <= MaxLost
          /\ sent'[i] > 0 => i \in unanswered'
          /\ \A j \in Items \ {i} : sent'[j] = sent[j]
          /\ unanswered \subseteq unanswered'
      BY <1>1, <1>3 DEF Types
    <2> QED BY <1>1, <1>3, <1>4, <2>1 DEF Types, Counted
  <1>8. Accounted'
    BY <1>1, <1>2, <1>3, <1>4 DEF Types, Accounted
  <1> QED BY <1>4, <1>5, <1>6, <1>7, <1>8

LEMMA ToldStep ==
  ASSUME IInv, Told, UNCHANGED <<composing, written, sent, history>>, {onLine, link, shown, asked}' \subseteq BOOLEAN
  PROVE  IInv' /\ \A j \in Items : Kept(j)' <=> Kept(j)
  <1> USE DEF history
  <1>1. waits' \subseteq queued'
    <2>1. ToSet(stored) \subseteq Items
      BY ElementOfSeq, LenProperties DEF IInv, Types, ToSet
    <2>2. ToSet(stored) \subseteq queued
      BY <2>1 DEF IInv, Apart, Kept
    <2> QED BY <2>2 DEF Told, IInv, Types
  <1>2. CASE UNCHANGED <<stored, batch>>
    <2>1. \A j \in Items : Kept(j)' <=> Kept(j)
      BY <1>2 DEF Kept
    <2> QED BY <1>1, <1>2, <2>1 DEF IInv, Types, Apart, Counted, Accounted
  <1>3. ASSUME NEW f \in Flushes, Flush(f) PROVE IInv' /\ \A j \in Items : Kept(j)' <=> Kept(j)
    <2>1. /\ stored' = <<>> /\ batch' = [batch EXCEPT ![f] = stored]
          /\ batch[f] = <<>> /\ ToSet(stored') = {} /\ Distinct(stored')
      BY <1>3, NoneIn DEF Flush, ClearedQueue
    <2>2. batch' \in [Flushes -> Seq(Items)] /\ stored' \in Seq(Items)
      BY <2>1, EmptySeq DEF IInv, Types
    <2>3. /\ ToSet(batch'[f]) = ToSet(stored) /\ Distinct(batch'[f])
          /\ \A g \in Flushes \ {f} : batch'[g] = batch[g]
      BY <2>1 DEF IInv, Types, Apart
    <2>4. \A j \in Items : Kept(j)' <=> Kept(j)
      BY <2>1, <2>3, NoneIn DEF Kept
    <2>5. Types'
      BY <1>1, <2>1, <2>2 DEF IInv, Types
    <2>6. Apart'
      BY <2>1, <2>2, <2>3, <2>4 DEF IInv, Types, Apart
    <2>7. Counted' /\ Accounted'
      BY <2>1, <2>4 DEF IInv, Types, Counted, Accounted
    <2> QED BY <2>4, <2>5, <2>6, <2>7 DEF IInv
  <1> QED BY <1>2, <1>3 DEF Told

(* The three calls to flush. *)
LEMMA CallStep == ASSUME IInv, NetworkBack \/ LinkBack \/ Synced
  PROVE  IInv' /\ UNCHANGED <<composing, written, sent, unanswered>> /\ \A j \in Items : Kept(j)' <=> Kept(j)
  <1>1. /\ Told /\ UNCHANGED <<composing, written, sent, history>>
        /\ {onLine, link, shown, asked}' \subseteq BOOLEAN
    BY DEF NetworkBack, LinkBack, Synced, IInv, Types
  <1> QED BY <1>1, ToldStep DEF history

(* What a flush that goes on to its next message, or ends, does to what is kept. *)
LEMMA FlushHead ==
  ASSUME IInv, NEW f \in Flushes, batch[f] # <<>>
  PROVE  /\ Head(batch[f]) \in Items /\ Kept(Head(batch[f])) /\ Head(batch[f]) \in queued
         /\ Head(batch[f]) \notin composing /\ Head(batch[f]) \notin ToSet(stored)
         /\ \A g \in Flushes \ {f} : Head(batch[f]) \notin ToSet(batch[g])
         /\ Tail(batch[f]) \in Seq(Items) /\ Distinct(Tail(batch[f]))
         /\ ToSet(Tail(batch[f])) = ToSet(batch[f]) \ {Head(batch[f])}
         /\ ToSet(batch[f]) \subseteq queued
         /\ sent[Head(batch[f])] <= MaxLost
  <1>1. batch[f] \in Seq(Items) /\ Distinct(batch[f])
    BY DEF IInv, Types, Apart
  <1>2. /\ Head(batch[f]) \in ToSet(batch[f]) /\ Head(batch[f]) \in Items
        /\ Tail(batch[f]) \in Seq(Items) /\ Distinct(Tail(batch[f]))
        /\ ToSet(Tail(batch[f])) = ToSet(batch[f]) \ {Head(batch[f])}
    BY <1>1, FirstOut
  <1>3. ToSet(batch[f]) \subseteq Items
    BY <1>1, ElementOfSeq, LenProperties DEF ToSet
  <1>4. ToSet(batch[f]) \subseteq queued
    BY <1>3 DEF IInv, Apart, Kept
  <1> QED BY <1>2, <1>4 DEF IInv, Apart, Counted, Kept

LEMMA FlushSentStep == ASSUME IInv, NEW f \in Flushes, FlushSent(f)
  PROVE  IInv' /\ \A j \in Items : Kept(j)' <=> Kept(j) /\ j # Head(batch[f])
  <1> DEFINE i == Head(batch[f])
  <1>1. /\ stored' = stored /\ batch' = [batch EXCEPT ![f] = Tail(batch[f])]
        /\ UNCHANGED <<composing, written, history, around>>
        /\ sent' = [sent EXCEPT ![i] = @ + 1]
    BY DEF FlushSent, Stored
  <1>2. /\ i \in Items /\ Kept(i) /\ i \in queued /\ i \notin composing /\ i \notin ToSet(stored)
        /\ \A g \in Flushes \ {f} : i \notin ToSet(batch[g])
        /\ Tail(batch[f]) \in Seq(Items) /\ Distinct(Tail(batch[f]))
        /\ ToSet(Tail(batch[f])) = ToSet(batch[f]) \ {i}
        /\ sent[i] <= MaxLost
    BY FlushHead DEF FlushSent
  <1> HIDE DEF i
  <1>3. /\ batch' \in [Flushes -> Seq(Items)]
        /\ ToSet(batch'[f]) = ToSet(batch[f]) \ {i} /\ Distinct(batch'[f])
        /\ \A g \in Flushes \ {f} : batch'[g] = batch[g]
    BY <1>1, <1>2 DEF IInv, Types
  <1>4. \A j \in Items : Kept(j)' <=> Kept(j) /\ j # i
    BY <1>1, <1>2, <1>3 DEF Kept
  <1>5. /\ sent' \in [Items -> 0..MaxLost + 1] /\ sent'[i] > 0 /\ (sent'[i] > 1 => i \in unanswered)
        /\ \A j \in Items \ {i} : sent'[j] = sent[j]
    <2>1. sent[i] \in Nat /\ sent'[i] = sent[i] + 1
      BY <1>1, <1>2, OutboxAssumption DEF IInv, Types
    <2>2. sent[i] > 0 => i \in unanswered
      BY <1>2 DEF IInv, Counted
    <2> QED BY <1>1, <1>2, <2>1, <2>2, OutboxAssumption DEF IInv, Types
  <1>6. Types'
    BY <1>1, <1>3, <1>5 DEF IInv, Types, history, around
  <1>7. Apart'
    BY <1>1, <1>2, <1>3, <1>4 DEF IInv, Types, Apart, history
  <1>8. Counted'
    BY <1>1, <1>2, <1>4, <1>5 DEF IInv, Types, Counted, history
  <1>9. Accounted'
    BY <1>1, <1>2, <1>4, <1>5 DEF IInv, Types, Accounted, history
  <1> QED BY <1>4, <1>6, <1>7, <1>8, <1>9 DEF IInv, i

LEMMA FlushFailsStep == ASSUME IInv, NEW f \in Flushes, FlushFails(f)
  PROVE  IInv' /\ \A j \in Items : Kept(j)' => Kept(j)
  <1> DEFINE i == Head(batch[f])
  <1>1. /\ batch' = [batch EXCEPT ![f] = <<>>]
        /\ UNCHANGED <<composing, written, onLine, link, shown, asked, queued, forgotten>>
        /\ waits' = waits \cup {i}
        /\ left' = left \cup ToSet(Tail(batch[f]))
        /\ \/ stored' = <<i>> \o stored /\ UNCHANGED unsaved
           \/ UNCHANGED stored /\ unsaved' = unsaved \cup {i}
        /\ \/ UNCHANGED <<sent, unanswered>>
           \/ sent[i] < MaxLost /\ sent' = [sent EXCEPT ![i] = @ + 1] /\ unanswered' = unanswered \cup {i}
    BY DEF FlushFails, Throws, Save, Returned, Stored
  <1>2. /\ i \in Items /\ Kept(i) /\ i \in queued /\ i \notin composing /\ i \notin ToSet(stored)
        /\ \A g \in Flushes \ {f} : i \notin ToSet(batch[g])
        /\ ToSet(Tail(batch[f])) = ToSet(batch[f]) \ {i}
        /\ ToSet(batch[f]) \subseteq queued
        /\ sent[i] <= MaxLost
    BY FlushHead DEF FlushFails
  <1> HIDE DEF i
  <1>3. /\ batch' \in [Flushes -> Seq(Items)]
        /\ ToSet(batch'[f]) = {} /\ Distinct(batch'[f])
        /\ \A g \in Flushes \ {f} : batch'[g] = batch[g]
    BY <1>1, NoneIn, EmptySeq DEF IInv, Types
  <1>4. /\ stored' \in Seq(Items) /\ Distinct(stored')
        /\ ToSet(stored') \in {ToSet(stored), ToSet(stored) \cup {i}}
        /\ unsaved' \in {unsaved, unsaved \cup {i}}
        /\ i \in ToSet(stored') \/ i \in unsaved'
    <2>1. stored \in Seq(Items) /\ Distinct(stored)
      BY DEF IInv, Types, Apart
    <2>2. /\ <<i>> \o stored \in Seq(Items) /\ Distinct(<<i>> \o stored)
          /\ ToSet(<<i>> \o stored) = ToSet(stored) \cup {i}
      BY <2>1, <1>2, FirstIn
    <2>3. CASE stored' = <<i>> \o stored /\ UNCHANGED unsaved
      <3> DEFINE q == <<i>> \o stored
      <3>1. stored' = q /\ q \in Seq(Items) /\ Distinct(q) /\ ToSet(q) = ToSet(stored) \cup {i}
        BY <2>2, <2>3
      <3> HIDE DEF q
      <3> QED BY <3>1, <2>3
    <2>4. CASE UNCHANGED stored /\ unsaved' = unsaved \cup {i}
      BY <2>1, <2>4
    <2> QED BY <2>3, <2>4, <1>1
  <1>5. \A j \in Items : Kept(j)' =>  Kept(j)
    BY <1>2, <1>3, <1>4 DEF Kept
  <1>6. \A j \in Items : Kept(j) => Kept(j)' \/ j \in left' \cup unsaved'
    BY <1>1, <1>2, <1>3, <1>4 DEF Kept
  <1>7. /\ sent' \in [Items -> 0..MaxLost + 1] /\ sent'[i] <= MaxLost
        /\ sent'[i] > 0 => i \in unanswered'
        /\ sent'[i] >= sent[i]
        /\ \A j \in Items \ {i} : sent'[j] = sent[j]
        /\ unanswered' \in {unanswered, unanswered \cup {i}}
    <2>1. sent[i] \in Nat /\ (sent[i] > 0 => i \in unanswered)
      BY <1>2 DEF IInv, Types, Counted
    <2>2. CASE UNCHANGED <<sent, unanswered>>
      BY <2>1, <2>2, <1>2, OutboxAssumption DEF IInv, Types
    <2>3. CASE sent[i] < MaxLost /\ sent' = [sent EXCEPT ![i] = @ + 1] /\ unanswered' = unanswered \cup {i}
      BY <2>1, <2>3, <1>2, OutboxAssumption DEF IInv, Types
    <2> QED BY <2>2, <2>3, <1>1
  <1>8. Types'
    <2>1. /\ left' \subseteq queued /\ unsaved' \subseteq queued /\ unanswered' \subseteq written
          /\ waits' \subseteq queued
      BY <1>1, <1>2, <1>4, <1>7 DEF IInv, Types
    <2> QED BY <1>1, <1>3, <1>4, <1>7, <2>1 DEF IInv, Types
  <1>9. Apart'
    BY <1>1, <1>2, <1>3, <1>4, <1>5 DEF IInv, Types, Apart
  <1>10. Counted'
    BY <1>1, <1>2, <1>5, <1>7 DEF IInv, Types, Counted
  <1>11. Accounted'
    <2> SUFFICES ASSUME NEW j \in queued, sent'[j] = 0, ~Kept(j)'
                 PROVE  j \in left' \cup forgotten' \cup unsaved'
      BY <1>1 DEF Accounted
    <2>1. j \in Items /\ sent[j] = 0
      BY <1>2, <1>7, OutboxAssumption DEF IInv, Types
    <2>2. CASE Kept(j)
      BY <2>1, <2>2, <1>6
    <2>3. CASE ~Kept(j)
      BY <2>1, <2>3, <1>1 DEF IInv, Accounted
    <2> QED BY <2>2, <2>3
  <1> QED BY <1>5, <1>8, <1>9, <1>10, <1>11 DEF IInv

LEMMA ReloadStep == ASSUME IInv, Reload PROVE IInv' /\ \A j \in Items : Kept(j)' => Kept(j)
  <1>1. /\ composing' = {} /\ batch' = [f \in Flushes |-> <<>>]
        /\ forgotten' = forgotten \cup UNION {ToSet(batch[f]) : f \in Flushes}
        /\ {onLine, link, shown, asked}' \subseteq BOOLEAN
        /\ UNCHANGED <<stored, written, waits, sent, queued, unanswered, left, unsaved>>
        /\ \A f \in Flushes : ToSet(batch'[f]) = {} /\ Distinct(batch'[f]) /\ batch'[f] \in Seq(Items)
    BY NoneIn, EmptySeq DEF Reload, IInv, Types
  <1>2. ASSUME NEW f \in Flushes PROVE ToSet(batch[f]) \subseteq queued
    BY ElementOfSeq, LenProperties, <1>2 DEF IInv, Types, Apart, Kept, ToSet
  <1>3. forgotten' \subseteq queued
    BY <1>1, <1>2 DEF IInv, Types
  <1>4. \A j \in Items : Kept(j)' => Kept(j)
    BY <1>1 DEF Kept
  <1>5. \A j \in Items : Kept(j) => Kept(j)' \/ j \in forgotten'
    BY <1>1 DEF Kept
  <1>6. Types'
    BY <1>1, <1>3 DEF IInv, Types
  <1>7. Apart'
    BY <1>1, <1>4 DEF IInv, Types, Apart
  <1>8. Counted'
    BY <1>1, <1>4 DEF IInv, Types, Counted
  <1>9. Accounted'
    BY <1>1, <1>5 DEF IInv, Types, Accounted
  <1> QED BY <1>4, <1>6, <1>7, <1>8, <1>9 DEF IInv

LEMMA Inductive == IInv /\ [Next]_vars => IInv'
  <1> SUFFICES ASSUME IInv, [Next]_vars PROVE IInv'
    OBVIOUS
  <1>1. ASSUME NEW i \in Items, Compose(i) \/ ComposeSent(i) \/ ComposeFails(i) PROVE IInv'
    BY <1>1, ComposeStep, ComposeSentStep, ComposeFailsStep
  <1>2. ASSUME NEW f \in Flushes, FlushSent(f) \/ FlushFails(f) PROVE IInv'
    BY <1>2, FlushSentStep, FlushFailsStep
  <1>3. CASE NetworkLost \/ LinkLost \/ Turn \/ UNCHANGED vars
    <2>1. /\ UNCHANGED <<stored, batch, composing, written, waits, sent, history>>
          /\ {onLine, link, shown, asked}' \subseteq BOOLEAN
      BY <1>3 DEF NetworkLost, LinkLost, Turn, vars, around, IInv, Types
    <2> QED BY <2>1 DEF IInv, Types, Apart, Counted, Accounted, Kept, history
  <1>4. CASE Reload
    BY <1>4, ReloadStep
  <1>5. CASE NetworkBack \/ LinkBack \/ Synced
    BY <1>5, CallStep
  <1> QED BY <1>1, <1>2, <1>3, <1>4, <1>5 DEF Next

----------------------------------------------------------------------------
LEMMA Invariant == Spec => []IInv
  BY Initially, Inductive, PTL DEF Spec

(* Held, which counts the places of a message, says the same as Kept. *)
LEMMA HeldIsKept == \A i : Held(i) <=> Kept(i)
  <1> SUFFICES ASSUME NEW i PROVE Held(i) <=> Kept(i)
    OBVIOUS
  <1>1. ASSUME NEW k \in DOMAIN stored, stored[k] = i PROVE <<"stored", k>> \in Places(i)
    BY <1>1 DEF Places
  <1>2. ASSUME NEW f \in Flushes, NEW k \in DOMAIN batch[f], batch[f][k] = i PROVE <<f, k>> \in Places(i)
    BY <1>2 DEF Places
  <1>3. \A s : i \in ToSet(s) <=> \E k \in DOMAIN s : s[k] = i
    BY DEF ToSet
  <1>4. ASSUME NEW x \in Places(i) PROVE Kept(i)
    <2>1. CASE \E k \in DOMAIN stored : stored[k] = i
      BY <2>1, <1>3 DEF Kept
    <2>2. CASE \E f \in Flushes : \E k \in DOMAIN batch[f] : batch[f][k] = i
      BY <2>2, <1>3 DEF Kept
    <2> QED BY <1>4, <2>1, <2>2 DEF Places
  <1>5. ASSUME Kept(i) PROVE Places(i) # {}
    <2>1. CASE i \in ToSet(stored)
      BY <2>1, <1>1, <1>3
    <2>2. ASSUME NEW f \in Flushes, i \in ToSet(batch[f]) PROVE Places(i) # {}
      <3>1. PICK k \in DOMAIN batch[f] : batch[f][k] = i
        BY <2>2, <1>3
      <3> QED BY <3>1, <1>2
    <2> QED BY <1>5, <2>1, <2>2 DEF Kept
  <1> QED BY <1>4, <1>5 DEF Held

LEMMA OnePlace == ASSUME IInv, NEW i \in Items PROVE Cardinality(Places(i)) <= 1
  <1>1. \A x, y \in Places(i) : x = y
    <2> SUFFICES ASSUME NEW x \in Places(i), NEW y \in Places(i) PROVE x = y
      OBVIOUS
    <2> DEFINE InStored(z) == \E k \in DOMAIN stored : stored[k] = i /\ z = <<"stored", k>>
               InBatch(z, f) == \E k \in DOMAIN batch[f] : batch[f][k] = i /\ z = <<f, k>>
    <2>1. \A z \in Places(i) : InStored(z) \/ \E f \in Flushes : InBatch(z, f)
      BY DEF Places
    <2>2. \A z : InStored(z) => i \in ToSet(stored)
      BY DEF ToSet
    <2>3. \A z, f : InBatch(z, f) => i \in ToSet(batch[f])
      BY DEF ToSet
    <2>4. CASE InStored(x) /\ InStored(y)
      BY <2>4 DEF IInv, Apart, Distinct
    <2>5. ASSUME NEW f \in Flushes, InBatch(x, f), InBatch(y, f) PROVE x = y
      BY <2>5 DEF IInv, Apart, Distinct
    <2>6. ASSUME NEW f \in Flushes, NEW g \in Flushes, InBatch(x, f), InBatch(y, g) PROVE f = g
      BY <2>3, <2>6 DEF IInv, Apart
    <2>7. ASSUME NEW f \in Flushes, NEW z, NEW w, InStored(z), InBatch(w, f) PROVE FALSE
      BY <2>2, <2>3, <2>7 DEF IInv, Apart
    <2> HIDE DEF InStored, InBatch
    <2> QED BY <2>1, <2>4, <2>5, <2>6, <2>7
  <1>2. CASE Places(i) = {}
    BY <1>2, FS_EmptySet
  <1>3. CASE Places(i) # {}
    <2>1. PICK x : Places(i) = {x}
      BY <1>1, <1>3
    <2>2. Cardinality({x}) = 1
      BY FS_Singleton
    <2> QED BY <2>1, <2>2
  <1> QED BY <1>2, <1>3

(* The types of the queue, its flushes and the counts of the server: a message is stored once more
   than answers are lost, at most (handleSendMessage, flushOfflineQueue). *)
THEOREM TypeCorrect == Spec => []TypeOK
  <1>1. IInv => TypeOK
    BY DEF IInv, Types, TypeOK
  <1> QED BY <1>1, Invariant, PTL

(* Whatever sends and flushes interleave, a message is in one place (flushOfflineQueue's
   clearQueue before its first await). *)
THEOREM QueueHeldOnce == Spec => []HeldOnce
  <1>1. IInv => HeldOnce
    <2> SUFFICES ASSUME IInv, NEW i \in Items
                 PROVE  Cardinality(Places(i)) <= 1 /\ (i \in composing => ~Held(i))
      BY DEF HeldOnce
    <2>1. i \in composing => ~Kept(i)
      BY DEF IInv, Apart
    <2> QED BY <2>1, OnePlace, HeldIsKept
  <1> QED BY <1>1, Invariant, PTL

(* A message is in the chat twice, or once and still in the queue, only if an answer of the
   server was lost. *)
THEOREM DuplicatesExplained == Spec => []DuplicateExplained
  <1>1. IInv => DuplicateExplained
    BY HeldIsKept DEF IInv, Counted, DuplicateExplained
  <1> QED BY <1>1, Invariant, PTL

(* A queued message is lost only behind a failed one, in the memory of a reloaded window, or to a
   full localStorage. *)
THEOREM LossesExplained == Spec => []LossExplained
  <1>1. IInv => LossExplained
    BY HeldIsKept DEF IInv, Accounted, LossExplained
  <1> QED BY <1>1, Invariant, PTL

----------------------------------------------------------------------------
LEMMA Where ==
  \A i \in Items : PlaceOf[i] = IF i \notin written THEN "new" ELSE IF i \in composing THEN "posting"
                                ELSE IF Kept(i) THEN "held" ELSE "gone"
  BY HeldIsKept DEF PlaceOf

Places4 == {"new", "posting", "held", "gone"}

(* Every step of the queue is one of the courier, or none it sees. *)
LEMMA StepKeeps == ASSUME IInv, [Next]_vars PROVE [Promise!Next]_(Promise!vars)
  <1>1. (\A i \in Items : PlaceOf[i] = IF i \notin written THEN "new" ELSE IF i \in composing THEN "posting"
                                     ELSE IF Kept(i) THEN "held" ELSE "gone")'
    BY Where, PTL
  <1>2. PlaceOf \in [Items -> Places4] /\ PlaceOf' \in [Items -> Places4]
    BY DEF PlaceOf, Places4
  <1>3. \A j \in Items : /\ j \in composing => j \in written /\ ~Kept(j)
                         /\ Kept(j) => j \in written
    BY DEF IInv, Types, Apart
  <1>4. ASSUME NEW i \in Items, Compose(i) PROVE Promise!Write(i)
    <2>1. /\ i \notin written /\ written' = written \cup {i} /\ composing' = composing \cup {i}
          /\ UNCHANGED <<sent, unanswered>> /\ \A j \in Items : Kept(j)' <=> Kept(j)
      BY <1>4, ComposeStep DEF Compose, history
    <2>2. PlaceOf[i] = "new" /\ PlaceOf'[i] = "posting" /\ \A j \in Items \ {i} : PlaceOf'[j] = PlaceOf[j]
      BY <2>1, <1>1, Where
    <2>3. PlaceOf' = [PlaceOf EXCEPT ![i] = "posting"]
      BY <2>2, <1>2
    <2> QED BY <2>1, <2>2, <2>3 DEF Promise!Write
  <1>5. ASSUME NEW i \in Items, ComposeSent(i) PROVE Promise!Deliver(i)
    <2>1. /\ i \in composing /\ composing' = composing \ {i} /\ sent' = [sent EXCEPT ![i] = @ + 1]
          /\ UNCHANGED <<written, unanswered>> /\ \A j \in Items : Kept(j)' <=> Kept(j)
      BY <1>5, ComposeSentStep DEF ComposeSent, Stored, history
    <2>2. PlaceOf[i] = "posting" /\ PlaceOf'[i] = "gone" /\ \A j \in Items \ {i} : PlaceOf'[j] = PlaceOf[j]
      BY <2>1, <1>1, <1>3, Where
    <2>3. PlaceOf' = [PlaceOf EXCEPT ![i] = "gone"]
      BY <2>2, <1>2
    <2> QED BY <2>1, <2>2, <2>3 DEF Promise!Deliver, Promise!Under, Promise!OneMore
  <1>6. ASSUME NEW i \in Items, ComposeFails(i) PROVE Promise!Fail(i)
    <2>1. /\ i \in composing /\ composing' = composing \ {i} /\ written' = written
          /\ UNCHANGED <<sent, unanswered>> \/ (sent' = [sent EXCEPT ![i] = @ + 1] /\ unanswered' = unanswered \cup {i})
          /\ \A j \in Items \ {i} : Kept(j)' <=> Kept(j)
      BY <1>6, ComposeFailsStep DEF ComposeFails, Throws, Stored
    <2>2. /\ PlaceOf[i] = "posting" /\ PlaceOf'[i] \in {"held", "gone"}
          /\ \A j \in Items \ {i} : PlaceOf'[j] = PlaceOf[j]
      BY <2>1, <1>1, <1>3, Where
    <2> QED BY <2>1, <2>2, <1>2 DEF Promise!Fail, Promise!Under, Promise!OneMore, Places4
  <1>7. CASE NetworkBack \/ LinkBack \/ Synced
    <2>1. UNCHANGED <<composing, written, sent, unanswered>> /\ \A j \in Items : Kept(j)' <=> Kept(j)
      BY <1>7, CallStep
    <2>2. \A j \in Items : PlaceOf'[j] = PlaceOf[j]
      BY <2>1, <1>1, Where
    <2> QED BY <2>1, <2>2, <1>2 DEF Promise!vars
  <1>8. ASSUME NEW f \in Flushes, FlushSent(f) PROVE \E i \in Items : Promise!Deliver(i)
    <2> DEFINE i == Head(batch[f])
    <2>1. i \in Items /\ Kept(i) /\ i \notin composing
      BY <1>8, FlushHead DEF FlushSent
    <2>2. /\ UNCHANGED <<composing, written, unanswered>> /\ sent' = [sent EXCEPT ![i] = @ + 1]
          /\ \A j \in Items : Kept(j)' <=> Kept(j) /\ j # i
      BY <1>8, FlushSentStep DEF FlushSent, Stored, history
    <2> HIDE DEF i
    <2>3. PlaceOf[i] = "held" /\ PlaceOf'[i] = "gone" /\ \A j \in Items \ {i} : PlaceOf'[j] = PlaceOf[j]
      BY <2>1, <2>2, <1>1, <1>3, Where
    <2>4. PlaceOf' = [PlaceOf EXCEPT ![i] = "gone"]
      BY <2>3, <1>2
    <2>5. Promise!Deliver(i)
      BY <2>2, <2>3, <2>4 DEF Promise!Deliver, Promise!Under, Promise!OneMore
    <2> QED BY <2>1, <2>5
  <1>9. ASSUME NEW f \in Flushes, FlushFails(f) PROVE \E i \in Items : Promise!Fail(i)
    <2> DEFINE i == Head(batch[f])
    <2>1. i \in Items /\ Kept(i) /\ i \notin composing
      BY <1>9, FlushHead DEF FlushFails
    <2>2. /\ UNCHANGED <<composing, written>>
          /\ UNCHANGED <<sent, unanswered>> \/ (sent' = [sent EXCEPT ![i] = @ + 1] /\ unanswered' = unanswered \cup {i})
          /\ \A j \in Items : Kept(j)' => Kept(j)
      BY <1>9, FlushFailsStep DEF FlushFails, Throws, Stored
    <2> HIDE DEF i
    <2>3. /\ PlaceOf[i] = "held" /\ PlaceOf'[i] \in {"held", "gone"}
          /\ \A j \in Items \ {i} : PlaceOf'[j] = PlaceOf[j] \/ (PlaceOf[j] = "held" /\ PlaceOf'[j] = "gone")
      BY <2>1, <2>2, <1>1, <1>3, Where
    <2>4. Promise!Fail(i)
      BY <2>2, <2>3, <1>2 DEF Promise!Fail, Promise!Under, Promise!OneMore, Places4
    <2> QED BY <2>1, <2>4
  <1>10. CASE Reload
    <2>1. /\ composing' = {} /\ UNCHANGED <<written, sent, unanswered>> /\ \A j \in Items : Kept(j)' => Kept(j)
      BY <1>10, ReloadStep DEF Reload
    <2>2. \A j \in Items : PlaceOf'[j] = PlaceOf[j] \/ (PlaceOf[j] \in {"posting", "held"} /\ PlaceOf'[j] = "gone")
      BY <2>1, <1>1, <1>3, Where
    <2>3. Promise!Forget
      BY <2>1, <2>2, <1>2 DEF Promise!Forget, Promise!Under, Places4
    <2> QED BY <2>3 DEF Promise!Next
  <1>11. CASE NetworkLost \/ LinkLost \/ Turn \/ UNCHANGED vars
    <2>1. UNCHANGED <<stored, batch, composing, written, sent, unanswered>>
      BY <1>11 DEF NetworkLost, LinkLost, Turn, vars, history, around
    <2>2. \A j \in Items : Kept(j)' <=> Kept(j)
      BY <2>1 DEF Kept
    <2>3. \A j \in Items : PlaceOf'[j] = PlaceOf[j]
      BY <2>1, <2>2, <1>1, Where
    <2> QED BY <2>1, <2>3, <1>2 DEF Promise!vars
  <1> QED BY <1>4, <1>5, <1>6, <1>7, <1>8, <1>9, <1>10, <1>11 DEF Next, Promise!Next

(* The queue, its flushes and the reloads implement the courier: one sender at a time has a message,
   an answered one is let go of, and what was let go of does not come back (handleSendMessage,
   flushOfflineQueue, localStorage). *)
THEOREM QueueKeepsPromise == Spec => KeepsPromise
  <1>1. Init => Promise!Init
    <2> SUFFICES ASSUME Init PROVE Promise!Init
      OBVIOUS
    <2>1. \A i \in Items : PlaceOf[i] = "new"
      BY Where DEF Init
    <2>2. PlaceOf = [i \in Items |-> "new"]
      BY <2>1 DEF PlaceOf
    <2> QED BY <2>2 DEF Init, Promise!Init
  <1>2. IInv /\ [Next]_vars => [Promise!Next]_(Promise!vars)
    BY StepKeeps
  <1> QED BY <1>1, <1>2, Invariant, PTL DEF Spec, KeepsPromise, Promise!Spec

(* A message is in one place, and in the chat twice or nowhere only for the causes named. *)
THEOREM OutcomesExplained == Spec => []OutcomeExplained
<1>1. HeldOnce /\ DuplicateExplained /\ LossExplained => OutcomeExplained
  BY DEF OutcomeExplained
<1> QED BY <1>1, QueueHeldOnce, DuplicatesExplained, LossesExplained, PTL
=============================================================================
