---------------------------- MODULE ClientSyncProofs ----------------------------
(***************************************************************************)
(* Proofs about ClientSync and the stream it reads: the stream emits in    *)
(* order, the store of the client is the state after a prefix of the       *)
(* server's events that only grows, and nothing it saw is forgotten, for   *)
(* any number of events, pages, broken connections and failures.           *)
(***************************************************************************)
EXTENDS ClientSync, SequenceTheorems, FiniteSetTheorems, WellFoundedInduction, TLAPS

(****************************** Helper facts *******************************)
LEMMA ElementOf ==
  ASSUME NEW S, NEW s \in Seq(S), NEW i \in DOMAIN s PROVE s[i] \in S
BY LenProperties, ElementOfSeq

LEMMA Domain ==
  ASSUME NEW S, NEW s \in Seq(S)
  PROVE  /\ Len(s) \in Nat /\ DOMAIN s = 1 .. Len(s)
         /\ s = <<>> <=> Len(s) = 0
BY LenProperties, EmptySeq

LEMMA Least ==
  ASSUME NEW T, T \subseteq Nat, T # {} PROVE \E x \in T: \A y \in T: x <= y
<1> DEFINE Order == OpToRel(<, Nat)
<1>1. Order = {p \in Nat \X Nat: p[1] < p[2]}  BY DEF OpToRel
<1>2. IsWellFoundedOn(Order, Nat)  BY NatLessThanWellFounded
<1> HIDE DEF Order
<1>3. PICK x \in T: \A y \in T: ~ (<<y, x>> \in Order)  BY <1>2, WFMin
<1>4. ASSUME NEW y \in T PROVE x <= y
  <2>1. x \in Nat /\ y \in Nat  OBVIOUS
  <2>2. ~ (y < x)  BY <1>1, <1>3, <2>1
  <2> QED  BY <2>1, <2>2
<1> QED  BY <1>4

LEMMA SpanTyped ==
  ASSUME NEW a \in Nat, NEW b \in Nat, a <= b + 1
  PROVE  /\ Span(a, b) \in Seq(a .. b) /\ Len(Span(a, b)) = b + 1 - a
         /\ DOMAIN Span(a, b) = 1 .. b + 1 - a
         /\ \A i \in 1 .. b + 1 - a: Span(a, b)[i] = a + i - 1
<1>1. b + 1 - a \in Nat  OBVIOUS
<1>2. Span(a, b) \in [1 .. b + 1 - a -> a .. b]  BY DEF Span
<1>3. Span(a, b) \in Seq(a .. b)  BY <1>1, <1>2, SeqDef
<1> QED  BY <1>1, <1>3, LenProperties DEF Span

LEMMA ReadTyped ==
  ASSUME stored \in Nat, NEW n \in Nat, n <= stored
  PROVE  /\ ReadEvents(n) \in Seq(1 .. stored)
         /\ \A i \in DOMAIN ReadEvents(n): ReadEvents(n)[i] = n + i
         /\ n < stored => ReadEvents(n) # <<>>
<1> DEFINE b == IF stored > n + ReadLimit THEN n + ReadLimit ELSE stored
<1>1. ReadLimit \in Nat \ {0}  BY StreamAssumption
<1>2. b \in Nat /\ n <= b /\ b <= stored /\ (n < stored => n < b)  BY <1>1
<1>3. ReadEvents(n) = Span(n + 1, b)  BY DEF ReadEvents
<1> HIDE DEF b
<1>4. /\ Span(n + 1, b) \in Seq(n + 1 .. b) /\ Len(Span(n + 1, b)) = b - n
      /\ DOMAIN Span(n + 1, b) = 1 .. b - n
      /\ \A i \in 1 .. b - n: Span(n + 1, b)[i] = n + i
  <2> DEFINE a == n + 1
  <2>1. a \in Nat /\ a <= b + 1 /\ b + 1 - a = b - n  BY <1>2
  <2>2. \A i \in 1 .. b - n: a + i - 1 = n + i  BY <1>2
  <2> HIDE DEF a
  <2>3. /\ Span(a, b) \in Seq(a .. b) /\ Len(Span(a, b)) = b + 1 - a
        /\ DOMAIN Span(a, b) = 1 .. b + 1 - a
        /\ \A i \in 1 .. b + 1 - a: Span(a, b)[i] = a + i - 1
    BY <1>2, <2>1, SpanTyped
  <2>4. /\ Span(a, b) \in Seq(a .. b) /\ Len(Span(a, b)) = b - n
        /\ DOMAIN Span(a, b) = 1 .. b - n
        /\ \A i \in 1 .. b - n: Span(a, b)[i] = n + i
    BY <2>1, <2>2, <2>3
  <2> QED  BY <2>4 DEF a
<1>5. Span(n + 1, b) \in Seq(1 .. stored)
  <2>1. n + 1 .. b \subseteq 1 .. stored  BY <1>2
  <2> QED  BY <1>4, <2>1, SeqMonotonic
<1> QED  BY <1>2, <1>3, <1>4, <1>5, Domain

(******************************** The stream *******************************)
StreamInv ==
  /\ StreamTypeOK
  /\ next <= stored + 1
  /\ stage \in {"closed", "asked", "fenced"} => out = <<>>
  /\ stage \notin {"closed", "asked"} => next >= 1
  /\ EmitsInOrder

(* What the buffer emits when it admits an event: up to the first gap. *)
LEMMA GapExists ==
  ASSUME stored \in Nat, next \in Nat, next <= stored + 1,
         NEW B, B \subseteq 1 .. stored
  PROVE  LET end == CHOOSE m \in next .. stored + 1:
                      m \notin B /\ (next .. (m - 1)) \subseteq B
         IN  end \in next .. stored + 1
<1> DEFINE T == {m \in Nat: m >= next /\ m \notin B}
<1>1. stored + 1 \in T  OBVIOUS
<1>2. PICK x \in T: \A y \in T: x <= y  BY <1>1, Least
<1>3. x \in next .. stored + 1 /\ x \notin B  BY <1>1, <1>2
<1>4. (next .. (x - 1)) \subseteq B
  <2> SUFFICES ASSUME NEW y \in next .. (x - 1) PROVE y \in B
    OBVIOUS
  <2>1. y \in Nat /\ y >= next /\ ~ (x <= y)  BY <1>3
  <2> QED  BY <1>2, <2>1
<1> QED  BY <1>3, <1>4

LEMMA AdmitInv ==
  ASSUME StreamInv, NEW e \in 1 .. stored, Admit(e), next >= 1
  PROVE  /\ next' \in next .. stored + 1
         /\ pending' \subseteq 1 .. stored /\ out' \in Seq(1 .. stored)
         /\ Len(out') = Len(out) + (next' - next)
         /\ \A i \in DOMAIN out': out'[i] = next' - 1 - Len(out') + i
<1> USE DEF StreamInv, StreamTypeOK
<1>1. CASE e < next \/ e \in pending
  <2>1. next' = next /\ pending' = pending /\ out' = out  BY <1>1 DEF Admit
  <2>2. Len(out) \in Nat  BY Domain
  <2> QED  BY <2>1, <2>2 DEF EmitsInOrder
<1>2. CASE ~ (e < next \/ e \in pending)
  <2> DEFINE B == pending \union {e}
             end == CHOOSE m \in next .. stored + 1:
                      m \notin B /\ (next .. (m - 1)) \subseteq B
  <2>1. end \in next .. stored + 1
    <3>1. B \subseteq 1 .. stored  OBVIOUS
    <3> HIDE DEF B
    <3> QED  BY <3>1, GapExists
  <2>2. /\ next' = end /\ pending' = {m \in B: m >= end}
        /\ out' = out \o Span(next, end - 1)
    BY <1>2 DEF Admit
  <2> HIDE DEF end
  <2>3. /\ Span(next, end - 1) \in Seq(next .. end - 1)
        /\ Len(Span(next, end - 1)) = end - next
        /\ DOMAIN Span(next, end - 1) = 1 .. end - next
        /\ \A i \in 1 .. end - next: Span(next, end - 1)[i] = next + i - 1
    <3>1. end - 1 \in Nat /\ next <= (end - 1) + 1 /\ (end - 1) + 1 - next = end - next
      BY <2>1
    <3> QED  BY <3>1, SpanTyped
  <2>4. Span(next, end - 1) \in Seq(1 .. stored)
    <3>1. next .. end - 1 \subseteq 1 .. stored  BY <2>1
    <3> QED  BY <2>3, <3>1, SeqMonotonic
  <2>5. Len(out) \in Nat /\ DOMAIN out = 1 .. Len(out)  BY Domain
  <2>6. /\ out' \in Seq(1 .. stored) /\ Len(out') = Len(out) + (end - next)
        /\ \A i \in 1 .. Len(out) + (end - next):
             out'[i] = IF i <= Len(out) THEN out[i] ELSE Span(next, end - 1)[i - Len(out)]
    <3> DEFINE new == Span(next, end - 1)
    <3>1. out \in Seq(1 .. stored) /\ new \in Seq(1 .. stored) /\ Len(new) = end - next
          /\ out' = out \o new
      BY <2>2, <2>3, <2>4
    <3> HIDE DEF new
    <3>2. /\ out' \in Seq(1 .. stored) /\ Len(out') = Len(out) + (end - next)
          /\ \A i \in 1 .. Len(out) + (end - next):
               out'[i] = IF i <= Len(out) THEN out[i] ELSE new[i - Len(out)]
      <4>1. /\ out \o new \in Seq(1 .. stored) /\ Len(out \o new) = Len(out) + Len(new)
            /\ \A i \in 1 .. Len(out) + Len(new):
                 (out \o new)[i] = IF i <= Len(out) THEN out[i] ELSE new[i - Len(out)]
        <5> DEFINE D == 1 .. stored
        <5>1. out \in Seq(D) /\ new \in Seq(D)  BY <3>1
        <5> HIDE DEF D
        <5>2. /\ out \o new \in Seq(D) /\ Len(out \o new) = Len(out) + Len(new)
              /\ \A i \in 1 .. Len(out) + Len(new):
                   (out \o new)[i] = IF i <= Len(out) THEN out[i] ELSE new[i - Len(out)]
          BY <5>1, ConcatProperties
        <5> QED  BY <5>2 DEF D
      <4> QED  BY <3>1, <4>1
    <3> QED  BY <3>2 DEF new
  <2>7. DOMAIN out' = 1 .. Len(out) + (end - next)  BY <2>6, Domain
  <2>8. ASSUME NEW i \in DOMAIN out' PROVE out'[i] = end - 1 - Len(out') + i
    <3>1. CASE i <= Len(out)
      <4>1. i \in DOMAIN out  BY <2>5, <2>7, <3>1
      <4>2. out[i] = next - 1 - Len(out) + i  BY <4>1 DEF EmitsInOrder
      <4> QED  BY <2>1, <2>5, <2>6, <2>7, <3>1, <4>2
    <3>2. CASE i > Len(out)
      <4>1. i - Len(out) \in 1 .. end - next  BY <2>1, <2>5, <2>7, <3>2
      <4>2. out'[i] = Span(next, end - 1)[i - Len(out)]  BY <2>5, <2>6, <2>7, <3>2
      <4>3. Span(next, end - 1)[i - Len(out)] = next + (i - Len(out)) - 1  BY <2>3, <4>1
      <4> QED  BY <2>1, <2>5, <2>6, <2>7, <4>2, <4>3
    <3> QED  BY <2>5, <2>7, <3>1, <3>2
  <2>9. pending' \subseteq 1 .. stored  BY <2>2
  <2> QED  BY <2>1, <2>2, <2>6, <2>8, <2>9
<1> QED  BY <1>1, <1>2

(* The type of the stream does not depend on more events being stored. *)
LEMMA MoreStored ==
  ASSUME NEW n \in Nat, NEW k \in Nat, n <= k, NEW q \in Seq(1 .. n)
  PROVE  q \in Seq(1 .. k)
<1>1. 1 .. n \subseteq 1 .. k  OBVIOUS
<1> QED  BY <1>1, SeqMonotonic

LEMMA TailOf ==
  ASSUME NEW n \in Nat, NEW q \in Seq(1 .. n), q # <<>>
  PROVE  /\ Head(q) \in 1 .. n /\ Head(q) = q[1] /\ Tail(q) \in Seq(1 .. n)
         /\ Len(Tail(q)) = Len(q) - 1 /\ Len(q) \in Nat \ {0}
         /\ \A i \in DOMAIN Tail(q): Tail(q)[i] = q[i + 1] /\ i + 1 \in DOMAIN q
<1> DEFINE D == 1 .. n
<1>1. q \in Seq(D)  OBVIOUS
<1> HIDE DEF D
<1>2. /\ Head(q) \in D /\ Tail(q) \in Seq(D) /\ Len(Tail(q)) = Len(q) - 1
      /\ \A i \in 1 .. Len(Tail(q)): Tail(q)[i] = q[i + 1]
  BY <1>1, HeadTailProperties
<1>3. Len(q) \in Nat \ {0} /\ DOMAIN q = 1 .. Len(q)  BY <1>1, Domain
<1>4. DOMAIN Tail(q) = 1 .. Len(q) - 1  BY <1>2, Domain
<1>5. Head(q) = q[1]  OBVIOUS
<1> QED  BY <1>2, <1>3, <1>4, <1>5 DEF D

(* What the client needs of a step of the stream: the store only grows, and  *)
(* the next event it will get stays the same.                                *)
Goes ==
  /\ stored <= stored'
  /\ stage # "asked" => next' - Len(out') = next - Len(out)
  /\ stage' = stage \/ <<stage, stage'>> \in
       {<<"asked", "fenced">>, <<"fenced", "replayed">>, <<"replayed", "live">>}

LEMMA MergeInv ==
  ASSUME StreamInv, MergeReplay \/ MergeLive PROVE StreamInv' /\ Goes
<1> USE DEF engine, merge
<1> PICK q \in {replay, live}:
      /\ q # <<>> /\ Admit(Head(q)) /\ stage \in {"replayed", "live"}
      /\ UNCHANGED <<stored, published, stage, breaks>>
      /\ \/ replay' = Tail(q) /\ q = replay /\ live' = live
         \/ live' = Tail(q) /\ q = live /\ replay' = replay
  BY DEF MergeReplay, MergeLive
<1>1. q \in Seq(1 .. stored) /\ stored \in Nat /\ next >= 1
  BY DEF StreamInv, StreamTypeOK
<1>2. Head(q) \in 1 .. stored /\ Tail(q) \in Seq(1 .. stored)  BY <1>1, TailOf
<1>3. /\ next' \in next .. stored + 1
      /\ pending' \subseteq 1 .. stored /\ out' \in Seq(1 .. stored)
      /\ Len(out') = Len(out) + (next' - next)
      /\ \A i \in DOMAIN out': out'[i] = next' - 1 - Len(out') + i
  BY <1>1, <1>2, AdmitInv
<1>4. StreamTypeOK'
  <2>1. UNCHANGED <<stored, published, stage, breaks>>  OBVIOUS
  <2>2. replay' \in Seq(1 .. stored) /\ live' \in Seq(1 .. stored)
    BY <1>2 DEF StreamInv, StreamTypeOK
  <2>3. next' \in Nat  BY <1>1, <1>3 DEF StreamInv, StreamTypeOK
  <2> HIDE DEF engine, merge
  <2> QED  BY <1>3, <2>1, <2>2, <2>3 DEF StreamInv, StreamTypeOK
<1>5. Len(out) \in Nat /\ next \in Nat  BY Domain DEF StreamInv, StreamTypeOK
<1>6. Goes  BY <1>1, <1>3, <1>5 DEF Goes
<1>7. next' <= stored' + 1 /\ next' >= 1  BY <1>1, <1>3, <1>5
<1>8. EmitsInOrder'  BY <1>3 DEF EmitsInOrder
<1>9. stage' \in {"replayed", "live"}  OBVIOUS
<1> QED  BY <1>4, <1>6, <1>7, <1>8, <1>9 DEF StreamInv

LEMMA StreamStepInv == ASSUME StreamInv, StreamStep PROVE StreamInv' /\ Goes
<1> USE DEF engine, merge
<1>0. /\ stored \in Nat /\ next \in Nat /\ Len(out) \in Nat /\ published \in 0 .. stored
      /\ replay \in Seq(1 .. stored) /\ live \in Seq(1 .. stored) /\ out \in Seq(1 .. stored)
      /\ breaks \in 0 .. MaxBreaks /\ MaxBreaks \in Nat
      /\ pending \subseteq 1 .. stored
  BY Domain, StreamAssumption DEF StreamInv, StreamTypeOK
<1>1. ASSUME Commit PROVE StreamInv' /\ Goes
  <2>1. PICK n \in {1, 2}: stored' = stored + n  BY <1>1 DEF Commit
  <2>2. stored <= stored' /\ stored' \in Nat  BY <1>0, <2>1
  <2>3. UNCHANGED <<published, stage, next, pending, replay, live, out, breaks>>
    BY <1>1 DEF Commit
  <2>4. /\ replay \in Seq(1 .. stored') /\ live \in Seq(1 .. stored')
        /\ out \in Seq(1 .. stored')
    BY <1>0, <2>2, MoreStored
  <2>5. StreamTypeOK'  BY <1>0, <2>2, <2>3, <2>4 DEF StreamInv, StreamTypeOK
  <2>6. Goes  BY <2>2, <2>3 DEF Goes
  <2>7. EmitsInOrder'  BY <2>3 DEF StreamInv, EmitsInOrder
  <2>8. next' <= stored' + 1
    <3>1. next <= stored + 1 /\ stored \in Nat /\ next \in Nat
      BY <1>0 DEF StreamInv
    <3>2. next <= (stored + n) + 1  BY <3>1
    <3> QED  BY <2>1, <2>3, <3>2
  <2> QED  BY <2>3, <2>5, <2>6, <2>7, <2>8 DEF StreamInv
<1>2. ASSUME Publish PROVE StreamInv' /\ Goes
  <2>1. /\ published' = published + 1 /\ published' \in 1 .. stored
        /\ UNCHANGED <<stored, stage, next, pending, replay, out, breaks>>
        /\ live' = IF stage = "live" THEN Append(live, published') ELSE live
    BY <1>0, <1>2 DEF Publish
  <2>2. Append(live, published') \in Seq(1 .. stored)
    <3> DEFINE D == 1 .. stored
    <3>1. live \in Seq(D) /\ published' \in D  BY <1>0, <2>1
    <3> HIDE DEF D
    <3>2. Append(live, published') \in Seq(D)  BY <3>1, AppendProperties
    <3> QED  BY <3>2 DEF D
  <2>3. live' \in Seq(1 .. stored)  BY <1>0, <2>1, <2>2
  <2>4. StreamTypeOK'  BY <1>0, <2>1, <2>3 DEF StreamInv, StreamTypeOK
  <2> QED  BY <1>0, <2>1, <2>4 DEF StreamInv, EmitsInOrder, Goes
<1>3. ASSUME Fence PROVE StreamInv' /\ Goes
  <2>1. /\ stage = "asked" /\ stage' = "fenced" /\ next' = stored + 1
        /\ UNCHANGED <<stored, published, pending, replay, live, out, breaks>>
    BY <1>3 DEF Fence
  <2>2. out = <<>>  BY <2>1 DEF StreamInv
  <2>3. StreamTypeOK'  BY <1>0, <2>1 DEF StreamInv, StreamTypeOK
  <2> QED  BY <1>0, <2>1, <2>2, <2>3 DEF StreamInv, EmitsInOrder, Goes
<1>4. ASSUME ReadReplay PROVE StreamInv' /\ Goes
  <2>1. /\ stage = "fenced" /\ stage' = "replayed" /\ replay' = ReadEvents(next - 1)
        /\ UNCHANGED <<stored, published, next, pending, live, out, breaks>>
    BY <1>4 DEF ReadReplay
  <2>2. next - 1 \in Nat /\ next - 1 <= stored  BY <1>0, <2>1 DEF StreamInv
  <2>3. replay' \in Seq(1 .. stored)
    <3> DEFINE n == next - 1
    <3>1. n \in Nat /\ n <= stored  BY <2>2
    <3> HIDE DEF n
    <3>2. ReadEvents(n) \in Seq(1 .. stored)  BY <1>0, <3>1, ReadTyped
    <3> QED  BY <2>1, <3>2 DEF n
  <2>4. StreamTypeOK'  BY <1>0, <2>1, <2>3 DEF StreamInv, StreamTypeOK
  <2> QED  BY <1>0, <2>1, <2>4 DEF StreamInv, EmitsInOrder, Goes
<1>5. ASSUME ReadReplayFails PROVE StreamInv' /\ Goes
  <2>1. /\ stage = "fenced" /\ stage' = "replayed" /\ breaks' = breaks + 1
        /\ breaks < MaxBreaks
        /\ UNCHANGED <<stored, published, next, pending, replay, live, out>>
    BY <1>5 DEF ReadReplayFails
  <2>2. StreamTypeOK'  BY <1>0, <2>1 DEF StreamInv, StreamTypeOK
  <2> QED  BY <1>0, <2>1, <2>2 DEF StreamInv, EmitsInOrder, Goes
<1>6. ASSUME GoLive PROVE StreamInv' /\ Goes
  <2>1. /\ stage = "replayed" /\ stage' = "live"
        /\ UNCHANGED <<stored, published, next, pending, replay, live, out, breaks>>
    BY <1>6 DEF GoLive
  <2>2. StreamTypeOK'  BY <1>0, <2>1 DEF StreamInv, StreamTypeOK
  <2> QED  BY <1>0, <2>1, <2>2 DEF StreamInv, EmitsInOrder, Goes
<1> QED  BY <1>1, <1>2, <1>3, <1>4, <1>5, <1>6, MergeInv DEF StreamStep

LEMMA BreakInv == ASSUME StreamInv, Break PROVE StreamInv' /\ stored' = stored
<1>1. /\ stage' = "closed" /\ next' = 0 /\ pending' = {} /\ replay' = <<>> /\ live' = <<>>
      /\ out' = <<>> /\ stored' = stored /\ published' \in {published, stored}
      /\ breaks' = breaks + 1 /\ breaks < MaxBreaks
  BY DEF Break
<1>2. <<>> \in Seq(1 .. stored)  BY EmptySeq
<1>3. stored \in Nat /\ MaxBreaks \in Nat  BY StreamAssumption DEF StreamInv, StreamTypeOK
<1>4. StreamTypeOK'  BY <1>1, <1>2, <1>3 DEF StreamInv, StreamTypeOK
<1>5. DOMAIN out' = {}  BY <1>1, EmptySeq
<1> QED  BY <1>1, <1>3, <1>4, <1>5 DEF StreamInv, EmitsInOrder

(* The client takes the next event from the stream. *)
LEMMA ReceiveInv ==
  ASSUME StreamInv, Receive
  PROVE  /\ StreamInv' /\ UNCHANGED <<stored, stage, next>>
         /\ stage \in {"replayed", "live"}
         /\ Head(out) \in 1 .. stored /\ Head(out) = next - Len(out)
         /\ Len(out') = Len(out) - 1
<1> USE DEF engine, merge
<1>1. /\ out # <<>> /\ out' = Tail(out)
      /\ UNCHANGED <<stored, published, stage, next, pending, replay, live, breaks>>
  BY DEF Receive
<1>2. stored \in Nat /\ next \in Nat /\ out \in Seq(1 .. stored)  BY DEF StreamInv, StreamTypeOK
<1>3. /\ Head(out) \in 1 .. stored /\ Head(out) = out[1] /\ Tail(out) \in Seq(1 .. stored)
      /\ Len(Tail(out)) = Len(out) - 1 /\ Len(out) \in Nat \ {0}
      /\ \A i \in DOMAIN Tail(out): Tail(out)[i] = out[i + 1] /\ i + 1 \in DOMAIN out
  BY <1>1, <1>2, TailOf
<1>4. Head(out) = next - Len(out)
  <2>1. 1 \in DOMAIN out  BY <1>2, <1>3, Domain
  <2>2. out[1] = next - 1 - Len(out) + 1  BY <2>1 DEF StreamInv, EmitsInOrder
  <2> QED  BY <1>2, <1>3, <2>2
<1>5. StreamTypeOK'  BY <1>1, <1>2, <1>3 DEF StreamInv, StreamTypeOK
<1>6. \A i \in DOMAIN out': out'[i] = next - 1 - Len(out') + i
  <2> SUFFICES ASSUME NEW i \in DOMAIN Tail(out)
               PROVE  Tail(out)[i] = next - 1 - Len(Tail(out)) + i
    BY <1>1
  <2>1. i \in Nat  BY <1>3, Domain
  <2>2. out[i + 1] = next - 1 - Len(out) + (i + 1)
    BY <1>3 DEF StreamInv, EmitsInOrder
  <2> QED  BY <1>2, <1>3, <2>1, <2>2
<1>7. stage \in {"replayed", "live"}  BY <1>1 DEF StreamInv, StreamTypeOK
<1> QED  BY <1>1, <1>3, <1>4, <1>5, <1>6, <1>7 DEF StreamInv, EmitsInOrder

(******************************* The batches *******************************)
(* A batch whose events are new from place a on, and there without gaps.     *)
Run(events, a) ==
  /\ events \in Seq(Nat) /\ a \in 1 .. Len(events) + 1
  /\ \A i, j \in DOMAIN events: i < j => events[i] < events[j]
  /\ \A i \in DOMAIN events: i < a => events[i] <= co.latestSequence
  /\ \A i \in DOMAIN events: i >= a => events[i] = co.latestSequence + (i - a) + 1

LEMMA FreshRun ==
  ASSUME co.latestSequence \in Nat, NEW events, NEW a, Run(events, a)
  PROVE  /\ Fresh(events) \in Seq(Nat) /\ Len(Fresh(events)) = Len(events) + 1 - a
         /\ \A k \in DOMAIN Fresh(events): Fresh(events)[k] = co.latestSequence + k
<1> DEFINE n == Len(events)
           m == n + 1 - a
           L == co.latestSequence
           new == {i \in DOMAIN events: events[i] > L}
           rank == [i \in new |->
                      Cardinality({j \in new: events[j] < events[i]
                                              \/ (events[j] = events[i] /\ j <= i)})]
           sorted == [k \in 1 .. Cardinality(new) |-> events[CHOOSE i \in new: rank[i] = k]]
<1>1. /\ n \in Nat /\ DOMAIN events = 1 .. n /\ a \in 1 .. n + 1 /\ m \in Nat
      /\ n \in Int /\ a \in Int
  BY Domain DEF Run
<1>0. Run(events, a) /\ L \in Nat /\ L = co.latestSequence  OBVIOUS
<1>6. Fresh(events) = sorted  BY Zenon DEF Fresh
<1>7. /\ \A i \in 1 .. n: i < a => events[i] <= L
      /\ \A i \in 1 .. n: i >= a => events[i] = L + (i - a) + 1
      /\ \A i \in 1 .. n: events[i] \in Nat
  BY <1>1, ElementOf DEF Run
<1> HIDE DEF n, L
<1>2. new = a .. n
  <2>1. ASSUME NEW i \in 1 .. n PROVE events[i] > L <=> i >= a
    <3>1. CASE i < a  BY <1>0, <1>1, <1>7, <3>1
    <3>2. CASE i >= a
      <4>1. events[i] = L + (i - a) + 1  BY <1>7, <3>2
      <4> QED  BY <1>0, <1>1, <3>2, <4>1
    <3> QED  BY <1>1, <3>1, <3>2
  <2> QED  BY <1>1, <2>1
<1>3. Cardinality(new) = m
  <2> HIDE DEF new
  <2>1. Cardinality(a .. n) = IF a > n THEN 0 ELSE n - a + 1  BY <1>1, FS_Interval
  <2> QED  BY <1>1, <1>2, <2>1
<1>4. ASSUME NEW i \in new PROVE rank[i] = i - a + 1
  <2> DEFINE below == {j \in new: events[j] < events[i]
                                  \/ (events[j] = events[i] /\ j <= i)}
  <2>1. i \in a .. n  BY <1>2
  <2>2. \A j \in new: events[j] = L + (j - a) + 1  BY <1>1, <1>2, <1>7
  <2>3. rank[i] = Cardinality(below)  OBVIOUS
  <2>4. below = a .. i
    <3> HIDE DEF new, L
    <3> QED  BY <1>0, <1>1, <1>2, <2>1, <2>2
  <2> HIDE DEF below, rank
  <2>5. Cardinality(a .. i) = IF a > i THEN 0 ELSE i - a + 1  BY <1>1, <2>1, FS_Interval
  <2> QED  BY <1>1, <2>1, <2>3, <2>4, <2>5
<1>5. ASSUME NEW k \in 1 .. m PROVE sorted[k] = L + k
  <2> HIDE DEF rank, new
  <2>1. k + a - 1 \in new /\ rank[k + a - 1] = k  BY <1>1, <1>2, <1>4
  <2>2. \A i \in new: rank[i] = k => i = k + a - 1  BY <1>1, <1>2, <1>4
  <2>3. (CHOOSE i \in new: rank[i] = k) = k + a - 1  BY <2>1, <2>2
  <2>4. events[k + a - 1] = L + ((k + a - 1) - a) + 1  BY <1>1, <1>2, <1>7, <2>1
  <2>5. sorted[k] = events[k + a - 1]  BY <1>3, <2>3
  <2> QED  BY <1>0, <1>1, <2>1, <2>4, <2>5
<1> HIDE DEF sorted, m
<1>8. sorted \in [1 .. m -> Nat]
  <2>1. DOMAIN sorted = 1 .. m  BY <1>3 DEF sorted
  <2>2. sorted = [k \in 1 .. m |-> sorted[k]]  BY <1>3 DEF sorted
  <2> QED  BY <1>0, <1>1, <1>5, <2>1, <2>2
<1>9. sorted \in Seq(Nat) /\ Len(sorted) = m /\ DOMAIN sorted = 1 .. m
  <2>1. sorted \in Seq(Nat)  BY <1>1, <1>8, SeqDef
  <2>2. DOMAIN sorted = 1 .. Len(sorted) /\ Len(sorted) \in Nat  BY <2>1, Domain
  <2> QED  BY <1>1, <1>8, <2>1, <2>2
<1> QED  BY <1>0, <1>5, <1>6, <1>9 DEF m, n

LEMMA NewestRun ==
  ASSUME co.latestSequence \in Nat, NEW events, NEW a, Run(events, a)
  PROVE  /\ Newest(events) \in Nat
         /\ a <= Len(events) => Newest(events) = co.latestSequence + (Len(events) + 1 - a)
         /\ a > Len(events) => Newest(events) <= co.latestSequence
<1> DEFINE n == Len(events)
<1>1. n \in Nat /\ DOMAIN events = 1 .. n /\ a \in 1 .. n + 1 /\ events \in Seq(Nat)
  BY Domain DEF Run
<1>2. CASE n = 0
  <2>1. events = <<>>  BY <1>1, <1>2, Domain
  <2> QED  BY <1>1, <1>2, <2>1 DEF Newest
<1>3. CASE n # 0
  <2>1. n \in 1 .. n /\ events # <<>>  BY <1>1, <1>3, Domain
  <2>2. \A i \in 1 .. n: events[i] \in Nat  BY <1>1, ElementOf
  <2>3. \A j \in 1 .. n: events[j] <= events[n]
    <3> SUFFICES ASSUME NEW j \in 1 .. n PROVE events[j] <= events[n]
      OBVIOUS
    <3>1. j = n \/ j < n  BY <2>1
    <3>2. j < n => events[j] < events[n]  BY <1>1, <2>1 DEF Run
    <3> QED  BY <2>1, <2>2, <3>1, <3>2
  <2>4. \A i \in 1 .. n: (\A j \in 1 .. n: events[j] <= events[i]) => i = n
    <3> SUFFICES ASSUME NEW i \in 1 .. n, events[n] <= events[i] PROVE i = n
      BY <2>1
    <3>1. i = n \/ i < n  BY <2>1
    <3>2. i < n => events[i] < events[n]  BY <1>1, <2>1 DEF Run
    <3> QED  BY <2>1, <2>2, <3>1, <3>2
  <2>5. (CHOOSE i \in 1 .. n: \A j \in 1 .. n: events[j] <= events[i]) = n
    BY <2>1, <2>3, <2>4
  <2>6. Newest(events) = events[n]  BY <1>1, <2>1, <2>5 DEF Newest
  <2>7. a <= n => events[n] = co.latestSequence + (n - a) + 1  BY <1>1, <2>1 DEF Run
  <2>8. a > n => events[n] <= co.latestSequence  BY <1>1, <2>1 DEF Run
  <2> QED  BY <1>1, <2>1, <2>2, <2>6, <2>7, <2>8
<1> QED  BY <1>2, <1>3

(****************************** The invariant ******************************)
(* The coordinator and the request in flight. *)
Flight ==
  /\ rpc = "none" <=> co.inFlight = "none"
  /\ co.inFlight = "replay" => co.bootstrapped /\ co.replayStart <= co.latestSequence
  /\ co.inFlight = "snapshot" => ~ co.bootstrapped

(* A snapshot is not older than the store of the client and what waits for   *)
(* the flush; a replay goes on where it was asked to, and is not empty when  *)
(* an event that is known to be stored was missing.                          *)
SnapshotFits ==
  rpc = "answered" /\ co.inFlight = "snapshot" =>
    /\ Len(answer) = 1 /\ answer[1] <= stored
    /\ co.latestSequence <= answer[1] /\ \A i \in DOMAIN buffer: buffer[i] <= answer[1]
ReplayFits ==
  rpc = "answered" /\ co.inFlight = "replay" =>
    /\ answer \in Seq(1 .. stored)
    /\ \A i \in DOMAIN answer: answer[i] = co.replayStart + i
    /\ tracker.attempts > 0 /\ tracker.highest > co.replayStart => answer # <<>>

Seen ==
  /\ co.latestSequence <= co.highestObservedSequence
  /\ co.highestObservedSequence <= stored /\ tracker.highest <= stored

(* Of the events that wait for the flush at most the last one is new, and it *)
(* is the next one; the stream has not emitted them again.                   *)
Waits ==
  /\ \A i, j \in DOMAIN buffer: i < j => buffer[i] < buffer[j]
  /\ \A i \in DOMAIN buffer: buffer[i] > co.latestSequence =>
       buffer[i] = co.latestSequence + 1 /\ i = Len(buffer)
Ahead ==
  /\ buffer # <<>> => received
  /\ stage = "asked" => buffer = <<>>
  /\ stage \notin {"asked", "closed"} => \A i \in DOMAIN buffer: buffer[i] < next - Len(out)

(* What was seen and not applied waits for the flush, a timer or a request.  *)
Accounted ==
  co.bootstrapped /\ co.inFlight = "none" /\ timers = 0 =>
    \/ co.highestObservedSequence <= co.latestSequence
    \/ \E i \in DOMAIN buffer: buffer[i] = co.highestObservedSequence

Inv ==
  /\ StreamInv /\ ClientTyped /\ StoreIsPrefix
  /\ Flight /\ SnapshotFits /\ ReplayFits /\ Seen /\ Waits /\ Ahead /\ Accounted

LEMMA InitInv == Init => Inv
<1> SUFFICES ASSUME Init PROVE Inv
  OBVIOUS
<1> USE DEF Init, StreamInit
<1>1. /\ Len(out) = 0 /\ Len(applied) = 0 /\ DOMAIN out = {} /\ DOMAIN applied = {}
      /\ DOMAIN buffer = {} /\ buffer = <<>>
      /\ \A S: <<>> \in Seq(S)
  BY EmptySeq
<1>2. co = [latestSequence |-> 0, highestObservedSequence |-> 0, bootstrapped |-> FALSE,
            pendingReplay |-> FALSE, inFlight |-> "snapshot", replayStart |-> 0]
  BY DEF Begun, MayBegin, NewRecovery
<1>3. tracker = [attempts |-> 0, latest |-> 0, highest |-> 0]  BY DEF NoTracker
<1>4. StreamInv
  <2>1. StreamTypeOK  BY <1>1, StreamAssumption DEF StreamTypeOK
  <2> QED  BY <1>1, <2>1 DEF StreamInv, EmitsInOrder
<1>5. ClientTyped
  <2>1. co \in Recovery
    <3> HIDE DEF Init, StreamInit
    <3> QED  BY <1>2 DEF Recovery
  <2>2. tracker \in Tracker
    <3> HIDE DEF Init, StreamInit
    <3> QED  BY <1>3 DEF Tracker
  <2>3. buffer \in Seq(1 .. stored) /\ applied \in Seq(Nat) /\ answer \in Seq(Nat)
    BY <1>1
  <2>4. base \in Nat /\ rpc = "asked" /\ timers \in Nat /\ received \in BOOLEAN
    OBVIOUS
  <2> HIDE DEF Init, StreamInit
  <2> QED  BY <2>1, <2>2, <2>3, <2>4 DEF ClientTyped
<1>6. StoreIsPrefix  BY <1>1, <1>2 DEF StoreIsPrefix, Position
<1>7. Flight /\ SnapshotFits /\ ReplayFits  BY <1>2 DEF Flight, SnapshotFits, ReplayFits
<1>8. Seen  BY <1>2, <1>3 DEF Seen
<1>9. Waits /\ Ahead /\ Accounted  BY <1>1, <1>2 DEF Waits, Ahead, Accounted
<1> QED  BY <1>4, <1>5, <1>6, <1>7, <1>8, <1>9 DEF Inv

(***************************** The coordinator *****************************)
LEMMA BegunFacts ==
  ASSUME NEW r \in Recovery, NEW kind \in {"snapshot", "replay"}
  PROVE  LET c == Begun(r, kind)
         IN  /\ c \in Recovery /\ c.latestSequence = r.latestSequence
             /\ c.highestObservedSequence = r.highestObservedSequence
             /\ c.bootstrapped = r.bootstrapped
             /\ MayBegin(r, kind) => c.inFlight = kind
             /\ MayBegin(r, kind) /\ kind = "replay" => c.replayStart = r.latestSequence
             /\ ~ MayBegin(r, kind) => c.inFlight = r.inFlight /\ c.replayStart = r.replayStart
<1>1. CASE ~ MayBegin(r, kind)
  <2>1. Begun(r, kind) = [r EXCEPT !.pendingReplay = TRUE]  BY <1>1 DEF Begun
  <2> QED  BY <1>1, <2>1 DEF Recovery
<1>2. CASE MayBegin(r, kind) /\ kind = "snapshot"
  <2>1. Begun(r, kind) = [r EXCEPT !.inFlight = "snapshot"]  BY <1>2 DEF Begun
  <2> QED  BY <1>2, <2>1 DEF Recovery
<1>3. CASE MayBegin(r, kind) /\ kind = "replay"
  <2>1. Begun(r, kind) = [r EXCEPT !.pendingReplay = FALSE, !.inFlight = "replay",
                                   !.replayStart = r.latestSequence]
    BY <1>3 DEF Begun
  <2> QED  BY <1>3, <2>1 DEF Recovery
<1> QED  BY <1>1, <1>2, <1>3

LEMMA ObservedFacts ==
  ASSUME NEW r \in Recovery, NEW n \in Nat
  PROVE  LET c == Observed(r, n)
         IN  /\ c \in Recovery /\ c.latestSequence = r.latestSequence
             /\ c.highestObservedSequence = Larger(r.highestObservedSequence, n)
             /\ c.bootstrapped = r.bootstrapped /\ c.inFlight = r.inFlight
             /\ c.replayStart = r.replayStart
<1>1. Larger(r.highestObservedSequence, n) \in Nat  BY DEF Larger, Recovery
<1> QED  BY <1>1 DEF Observed, Recovery

LEMMA ClassifiedFacts ==
  ASSUME NEW r \in Recovery, NEW n \in Nat
  PROVE  LET c == Classified(r, n)
         IN  /\ c \in Recovery /\ c.latestSequence = r.latestSequence
             /\ c.highestObservedSequence = Larger(r.highestObservedSequence, n)
             /\ c.bootstrapped = r.bootstrapped /\ c.inFlight = r.inFlight
             /\ c.replayStart = r.replayStart
<1> DEFINE o == Observed(r, n)
<1>1. /\ o \in Recovery /\ o.latestSequence = r.latestSequence
      /\ o.highestObservedSequence = Larger(r.highestObservedSequence, n)
      /\ o.bootstrapped = r.bootstrapped /\ o.inFlight = r.inFlight
      /\ o.replayStart = r.replayStart
  BY ObservedFacts
<1>2. Classified(r, n) = o \/ Classified(r, n) = [o EXCEPT !.pendingReplay = TRUE]
  BY DEF Classified
<1> HIDE DEF o
<1> QED  BY <1>1, <1>2 DEF Recovery

LEMMA AppliedFacts ==
  ASSUME NEW r \in Recovery, NEW n \in Nat
  PROVE  LET c == Applied(r, n)
         IN  /\ c \in Recovery /\ c.latestSequence = Larger(r.latestSequence, n)
             /\ n <= r.latestSequence => c.highestObservedSequence = r.highestObservedSequence
             /\ n > r.latestSequence =>
                  c.highestObservedSequence = Larger(r.highestObservedSequence, n)
             /\ c.bootstrapped = r.bootstrapped /\ c.inFlight = r.inFlight
             /\ c.replayStart = r.replayStart
<1>1. r.latestSequence \in Nat  BY DEF Recovery
<1>2. CASE n <= r.latestSequence
  <2>1. Applied(r, n) = r  BY <1>2 DEF Applied
  <2>2. Larger(r.latestSequence, n) = r.latestSequence  BY <1>1, <1>2 DEF Larger
  <2> QED  BY <1>1, <1>2, <2>1, <2>2
<1>3. CASE n > r.latestSequence
  <2> DEFINE o == Observed(r, n)
  <2>1. /\ o \in Recovery
        /\ o.highestObservedSequence = Larger(r.highestObservedSequence, n)
        /\ o.bootstrapped = r.bootstrapped /\ o.inFlight = r.inFlight
        /\ o.replayStart = r.replayStart
    BY ObservedFacts
  <2>2. Applied(r, n) = [o EXCEPT !.latestSequence = n]  BY <1>1, <1>3 DEF Applied
  <2>3. Larger(r.latestSequence, n) = n  BY <1>1, <1>3 DEF Larger
  <2> HIDE DEF o
  <2> QED  BY <1>1, <1>3, <2>1, <2>2, <2>3 DEF Recovery
<1> QED  BY <1>1, <1>2, <1>3

LEMMA LargerIs ==
  ASSUME NEW a \in Nat, NEW b \in Nat
  PROVE  /\ Larger(a, b) \in Nat /\ Larger(a, b) >= a /\ Larger(a, b) >= b
         /\ Larger(a, b) \in {a, b}
BY DEF Larger

(* The batch E is applied to the store, and in the coordinator to r.         *)
LEMMA Advance ==
  ASSUME ClientTyped, StoreIsPrefix, stored \in Nat,
         NEW E \in Seq(1 .. stored), NEW a, Run(E, a),
         NEW r \in Recovery, r.latestSequence = co.latestSequence,
         applied' = applied \o Fresh(E), base' = base
  PROVE  LET d == Applied(r, Newest(E))  m == Len(E) + 1 - a
         IN  /\ d \in Recovery /\ m \in Nat
             /\ d.latestSequence = co.latestSequence + m /\ d.latestSequence <= stored
             /\ d.highestObservedSequence =
                  IF m = 0 THEN r.highestObservedSequence
                  ELSE Larger(r.highestObservedSequence, d.latestSequence)
             /\ d.bootstrapped = r.bootstrapped /\ d.inFlight = r.inFlight
             /\ d.replayStart = r.replayStart
             /\ applied' \in Seq(Nat) /\ Len(applied') = Len(applied) + m
             /\ \A i \in DOMAIN applied': applied'[i] = base + i
<1> DEFINE m == Len(E) + 1 - a
           L == co.latestSequence
           n == Newest(E)
<1>1. L \in Nat /\ base \in Nat /\ applied \in Seq(Nat) /\ L = base + Len(applied)
      /\ L <= stored /\ Len(applied) \in Nat /\ DOMAIN applied = 1 .. Len(applied)
      /\ \A i \in DOMAIN applied: applied[i] = base + i
  BY Domain DEF ClientTyped, Recovery, StoreIsPrefix, Position
<1>2. /\ Fresh(E) \in Seq(Nat) /\ Len(Fresh(E)) = m
      /\ \A k \in DOMAIN Fresh(E): Fresh(E)[k] = L + k
  BY <1>1, FreshRun
<1>3. /\ n \in Nat /\ (a <= Len(E) => n = L + m) /\ (a > Len(E) => n <= L)
  BY <1>1, NewestRun
<1>4. Len(E) \in Nat /\ a \in 1 .. Len(E) + 1 /\ m \in Nat /\ DOMAIN E = 1 .. Len(E)
      /\ \A i \in DOMAIN E: E[i] <= stored
  <2>1. E \in Seq(1 .. stored)  OBVIOUS
  <2>2. \A i \in DOMAIN E: E[i] \in 1 .. stored
    <3> DEFINE D == 1 .. stored
    <3>1. E \in Seq(D)  BY <2>1
    <3> HIDE DEF D
    <3>2. \A i \in DOMAIN E: E[i] \in D  BY <3>1, ElementOf
    <3> QED  BY <3>2 DEF D
  <2>3. Len(E) \in Nat /\ DOMAIN E = 1 .. Len(E)  BY Domain
  <2>4. a \in 1 .. Len(E) + 1  BY DEF Run
  <2> QED  BY <2>2, <2>3, <2>4
<1>5. a <= Len(E) => L + m <= stored
  <2> SUFFICES ASSUME a <= Len(E) PROVE L + m <= stored
    OBVIOUS
  <2>1. Len(E) \in DOMAIN E /\ Len(E) >= a  BY <1>4
  <2>2. E[Len(E)] = L + (Len(E) - a) + 1  BY <2>1 DEF Run
  <2> QED  BY <1>1, <1>4, <2>1, <2>2
<1>6. (m = 0 <=> a > Len(E)) /\ (m > 0 <=> a <= Len(E))  BY <1>4
<1> HIDE DEF m, n, L
<1> DEFINE d == Applied(r, n)
<1>7. r.latestSequence = L  BY DEF L
<1>8. /\ d \in Recovery /\ d.latestSequence = Larger(L, n)
      /\ n <= L => d.highestObservedSequence = r.highestObservedSequence
      /\ n > L => d.highestObservedSequence = Larger(r.highestObservedSequence, n)
      /\ d.bootstrapped = r.bootstrapped /\ d.inFlight = r.inFlight
      /\ d.replayStart = r.replayStart
  BY <1>3, <1>7, AppliedFacts
<1> HIDE DEF d
<1>9. /\ d.latestSequence = L + m /\ d.latestSequence <= stored
      /\ d.highestObservedSequence =
           IF m = 0 THEN r.highestObservedSequence
           ELSE Larger(r.highestObservedSequence, d.latestSequence)
  <2>1. CASE m = 0
    <3>1. n <= L  BY <1>3, <1>6, <2>1
    <3>2. Larger(L, n) = L  BY <1>1, <1>3, <3>1 DEF Larger
    <3> QED  BY <1>1, <1>8, <2>1, <3>1, <3>2
  <2>2. CASE m > 0
    <3>1. n = L + m /\ n > L  BY <1>1, <1>3, <1>4, <1>6, <2>2
    <3>2. Larger(L, n) = n  BY <1>1, <1>3, <3>1 DEF Larger
    <3> QED  BY <1>1, <1>4, <1>5, <1>6, <1>8, <2>2, <3>1, <3>2
  <2> QED  BY <1>4, <2>1, <2>2
<1>10. /\ applied' \in Seq(Nat) /\ Len(applied') = Len(applied) + m
       /\ \A i \in 1 .. Len(applied) + m:
            applied'[i] = IF i <= Len(applied) THEN applied[i] ELSE Fresh(E)[i - Len(applied)]
  <2>1. /\ applied \o Fresh(E) \in Seq(Nat)
        /\ Len(applied \o Fresh(E)) = Len(applied) + Len(Fresh(E))
        /\ \A i \in 1 .. Len(applied) + Len(Fresh(E)):
             (applied \o Fresh(E))[i] =
               IF i <= Len(applied) THEN applied[i] ELSE Fresh(E)[i - Len(applied)]
    BY <1>1, <1>2, ConcatProperties
  <2> QED  BY <1>2, <2>1
<1>11. ASSUME NEW i \in DOMAIN applied' PROVE applied'[i] = base + i
  <2>1. i \in 1 .. Len(applied) + m  BY <1>10, Domain
  <2>2. CASE i <= Len(applied)  BY <1>1, <1>10, <2>1, <2>2
  <2>3. CASE i > Len(applied)
    <3>1. i - Len(applied) \in DOMAIN Fresh(E)
      <4>1. DOMAIN Fresh(E) = 1 .. m  BY <1>2, Domain
      <4> QED  BY <1>1, <1>4, <2>1, <2>3, <4>1
    <3>2. Fresh(E)[i - Len(applied)] = L + (i - Len(applied))  BY <1>2, <3>1
    <3> QED  BY <1>1, <1>10, <2>1, <2>3, <3>2
  <2> QED  BY <1>1, <2>1, <2>2, <2>3
<1> QED  BY <1>4, <1>8, <1>9, <1>10, <1>11 DEF d, m, n, L

(* The buffer as a batch. *)
LEMMA BufferRun ==
  ASSUME ClientTyped, Waits, stored \in Nat
  PROVE  \E a: /\ Run(buffer, a) /\ Len(buffer) + 1 - a \in {0, 1}
               /\ \A i \in DOMAIN buffer: buffer[i] > co.latestSequence => a = Len(buffer)
               /\ a = Len(buffer) => buffer # <<>>
<1> DEFINE n == Len(buffer)
           L == co.latestSequence
<1>1. /\ n \in Nat /\ DOMAIN buffer = 1 .. n /\ (buffer = <<>> <=> n = 0)
      /\ buffer \in Seq(1 .. stored)
  BY Domain DEF ClientTyped
<1>2. buffer \in Seq(Nat)
  <2>1. 1 .. stored \subseteq Nat  OBVIOUS
  <2> QED  BY <1>1, <2>1, SeqMonotonic
<1>3. \A i \in 1 .. n: buffer[i] \in Nat  BY <1>1, <1>2, ElementOf
<1>4. L \in Nat  BY DEF ClientTyped, Recovery
<1>5. /\ \A i, j \in 1 .. n: i < j => buffer[i] < buffer[j]
      /\ \A i \in 1 .. n: buffer[i] > L => buffer[i] = L + 1 /\ i = n
  BY <1>1 DEF Waits
<1>6. PICK a \in 1 .. n + 1:
        /\ n + 1 - a \in {0, 1} /\ (a = n => n > 0)
        /\ \A i \in 1 .. n: i < a => buffer[i] <= L
        /\ \A i \in 1 .. n: i >= a => buffer[i] = L + (i - a) + 1
        /\ \A i \in 1 .. n: buffer[i] > L => a = n
  <2>0. /\ n \in Nat /\ L \in Nat
        /\ \A i \in 1 .. n: buffer[i] \in Nat /\ (buffer[i] > L => buffer[i] = L + 1 /\ i = n)
    BY <1>1, <1>3, <1>4, <1>5
  <2> HIDE DEF n, L
  <2>1. CASE n > 0 /\ buffer[n] > L  BY <2>0, <2>1
  <2>2. CASE ~ (n > 0 /\ buffer[n] > L)
    <3>1. \A i \in 1 .. n: buffer[i] <= L  BY <2>0, <2>2
    <3> QED  BY <2>0, <3>1
  <2> QED  BY <2>1, <2>2
<1>7. Run(buffer, a)  BY <1>1, <1>2, <1>5, <1>6 DEF Run
<1>8. a = n => buffer # <<>>  BY <1>1, <1>6
<1> QED  BY <1>1, <1>6, <1>7, <1>8

(******************************** The steps ********************************)
LEMMA Facts ==
  ASSUME Inv
  PROVE  /\ stored \in Nat /\ next \in Nat /\ Len(out) \in Nat
         /\ co \in Recovery /\ co.latestSequence \in Nat
         /\ co.highestObservedSequence \in Nat /\ co.replayStart \in Nat
         /\ co.bootstrapped \in BOOLEAN /\ co.inFlight \in {"none", "snapshot", "replay"}
         /\ Len(buffer) \in Nat /\ DOMAIN buffer = 1 .. Len(buffer)
         /\ \A i \in DOMAIN buffer: buffer[i] \in 1 .. stored
<1>1. ClientTyped /\ StreamTypeOK  BY DEF Inv, StreamInv
<1>2. stored \in Nat /\ next \in Nat /\ Len(out) \in Nat  BY <1>1, Domain DEF StreamTypeOK
<1>3. /\ co \in Recovery /\ co.latestSequence \in Nat
      /\ co.highestObservedSequence \in Nat /\ co.replayStart \in Nat
      /\ co.bootstrapped \in BOOLEAN /\ co.inFlight \in {"none", "snapshot", "replay"}
  BY <1>1 DEF ClientTyped, Recovery
<1>4. Len(buffer) \in Nat /\ DOMAIN buffer = 1 .. Len(buffer)
  BY <1>1, Domain DEF ClientTyped
<1>5. \A i \in DOMAIN buffer: buffer[i] \in 1 .. stored
  <2> DEFINE D == 1 .. stored
  <2>1. buffer \in Seq(D)  BY <1>1 DEF ClientTyped
  <2> HIDE DEF D
  <2>2. \A i \in DOMAIN buffer: buffer[i] \in D  BY <2>1, ElementOf
  <2> QED  BY <2>2 DEF D
<1> QED  BY <1>2, <1>3, <1>4, <1>5

(* What every step does to the store and the client's copy of it. *)
Moves ==
  \/ stored <= stored' /\ co'.latestSequence = co.latestSequence
  \/ stored = stored' /\ co.latestSequence <= co'.latestSequence

LEMMA SameStream == ASSUME StreamInv, UNCHANGED stream PROVE StreamInv' /\ stored' = stored
BY DEF StreamInv, StreamTypeOK, EmitsInOrder, stream, engine, merge

LEMMA EmptyBuffer == ASSUME buffer' = <<>> PROVE Waits' /\ Ahead'
<1>1. DOMAIN buffer' = {}  BY EmptySeq
<1> QED  BY <1>1 DEF Waits, Ahead

LEMMA StreamKeeps ==
  ASSUME Inv, StreamStep, UNCHANGED client PROVE Inv' /\ Moves
<1>1. /\ StreamInv /\ ClientTyped /\ StoreIsPrefix /\ Flight /\ SnapshotFits /\ ReplayFits
      /\ Seen /\ Waits /\ Ahead /\ Accounted
  BY DEF Inv
<1>2. StreamInv' /\ Goes  BY <1>1, StreamStepInv
<1>3. UNCHANGED <<co, tracker, buffer, base, applied, rpc, answer, timers, received>>
  BY DEF client, store
<1>4. stored \in Nat /\ stored' \in Nat /\ stored <= stored'
  BY <1>1, <1>2 DEF StreamInv, StreamTypeOK, Goes
<1>5. buffer \in Seq(1 .. stored')  BY <1>1, <1>4, MoreStored DEF ClientTyped
<1>6. ClientTyped'  BY <1>1, <1>3, <1>5 DEF ClientTyped
<1>7. co.latestSequence \in Nat /\ co.highestObservedSequence \in Nat
      /\ tracker.highest \in Nat
  BY <1>1 DEF ClientTyped, Recovery, Tracker
<1>8. StoreIsPrefix'  BY <1>1, <1>3, <1>4, <1>7 DEF StoreIsPrefix, Position
<1>9. Flight'  BY <1>1, <1>3 DEF Flight
<1>10. SnapshotFits'
  <2> SUFFICES ASSUME rpc = "answered", co.inFlight = "snapshot"
               PROVE  /\ Len(answer) = 1 /\ answer[1] <= stored'
                      /\ co.latestSequence <= answer[1]
                      /\ \A i \in DOMAIN buffer: buffer[i] <= answer[1]
    BY <1>3 DEF SnapshotFits
  <2>1. answer \in Seq(Nat) /\ Len(answer) = 1  BY <1>1 DEF ClientTyped, SnapshotFits
  <2>2. 1 \in DOMAIN answer  BY <2>1, Domain
  <2>3. answer[1] \in Nat  BY <2>1, <2>2, ElementOf
  <2> QED  BY <1>1, <1>4, <2>1, <2>3 DEF SnapshotFits
<1>11. ReplayFits'
  <2> SUFFICES ASSUME rpc = "answered", co.inFlight = "replay"
               PROVE  /\ answer \in Seq(1 .. stored')
                      /\ \A i \in DOMAIN answer: answer[i] = co.replayStart + i
                      /\ tracker.attempts > 0 /\ tracker.highest > co.replayStart
                           => answer # <<>>
    BY <1>3 DEF ReplayFits
  <2>1. answer \in Seq(1 .. stored)  BY <1>1 DEF ReplayFits
  <2>2. answer \in Seq(1 .. stored')  BY <1>4, <2>1, MoreStored
  <2> QED  BY <1>1, <2>2 DEF ReplayFits
<1>12. Seen'  BY <1>1, <1>3, <1>4, <1>7 DEF Seen
<1>13. Waits' /\ Accounted'  BY <1>1, <1>3 DEF Waits, Accounted
<1>14. Ahead'
  <2>1. CASE stage = "asked"
    <3>1. buffer' = <<>>  BY <1>1, <1>3, <2>1 DEF Ahead
    <3> QED  BY <3>1, EmptyBuffer
  <2>2. CASE stage # "asked"
    <3>1. stage' # "asked" /\ (stage' # "closed" => stage # "closed")
          /\ next' - Len(out') = next - Len(out)
      BY <1>2, <2>2 DEF Goes
    <3> QED  BY <1>1, <1>3, <2>2, <3>1 DEF Ahead
  <2> QED  BY <2>1, <2>2
<1>15. Moves  BY <1>3, <1>4 DEF Moves
<1> QED  BY <1>2, <1>6, <1>8, <1>9, <1>10, <1>11, <1>12, <1>13, <1>14, <1>15 DEF Inv

(* The verdict on an event. *)
LEMMA VerdictIs ==
  ASSUME NEW r \in Recovery, NEW n \in Nat
  PROVE  /\ Verdict(r, n) = "ignore" <=> n <= r.latestSequence
         /\ Verdict(r, n) = "defer" => ~ r.bootstrapped \/ r.inFlight # "none"
         /\ Verdict(r, n) \in {"apply", "recover"} => r.bootstrapped /\ r.inFlight = "none"
         /\ Verdict(r, n) = "apply" => n = r.latestSequence + 1
         /\ Verdict(r, n) \in {"ignore", "defer", "apply", "recover"}
<1>1. r.latestSequence \in Nat /\ r.bootstrapped \in BOOLEAN  BY DEF Recovery
<1>2. CASE n <= r.latestSequence
  <2>1. Verdict(r, n) = "ignore"  BY <1>1, <1>2 DEF Verdict
  <2> QED  BY <1>2, <2>1
<1>3. CASE n > r.latestSequence /\ (~ r.bootstrapped \/ r.inFlight # "none")
  <2>1. Verdict(r, n) = "defer"  BY <1>1, <1>3 DEF Verdict
  <2> QED  BY <1>1, <1>3, <2>1
<1>4. CASE n > r.latestSequence /\ r.bootstrapped /\ r.inFlight = "none"
  <2>1. Verdict(r, n) = IF n = r.latestSequence + 1 THEN "apply" ELSE "recover"
    BY <1>1, <1>4 DEF Verdict
  <2> QED  BY <1>1, <1>4, <2>1
<1> QED  BY <1>1, <1>2, <1>3, <1>4

(* An event joins the buffer behind all others. *)
LEMMA Joins ==
  ASSUME NEW n \in Nat, NEW q \in Seq(1 .. n), NEW e \in 1 .. n
  PROVE  /\ Append(q, e) \in Seq(1 .. n) /\ Len(Append(q, e)) = Len(q) + 1
         /\ Len(q) \in Nat /\ DOMAIN Append(q, e) = 1 .. Len(q) + 1
         /\ DOMAIN q = 1 .. Len(q)
         /\ \A i \in 1 .. Len(q): Append(q, e)[i] = q[i]
         /\ Append(q, e)[Len(q) + 1] = e
<1> DEFINE D == 1 .. n
<1>1. q \in Seq(D) /\ e \in D  OBVIOUS
<1> HIDE DEF D
<1>2. /\ Append(q, e) \in Seq(D) /\ Len(Append(q, e)) = Len(q) + 1
      /\ \A i \in 1 .. Len(q): Append(q, e)[i] = q[i]
      /\ Append(q, e)[Len(q) + 1] = e
  BY <1>1, AppendProperties
<1>3. Len(q) \in Nat /\ DOMAIN q = 1 .. Len(q)  BY <1>1, Domain
<1>4. DOMAIN Append(q, e) = 1 .. Len(q) + 1  BY <1>2, Domain
<1> QED  BY <1>2, <1>3, <1>4 DEF D

LEMMA DeliverKeeps == ASSUME Inv, Deliver PROVE Inv' /\ Moves
<1> DEFINE e == Head(out)
           L == co.latestSequence
           H == co.highestObservedSequence
<1>1. /\ StreamInv /\ ClientTyped /\ StoreIsPrefix /\ Flight /\ SnapshotFits /\ ReplayFits
      /\ Seen /\ Waits /\ Ahead /\ Accounted
  BY DEF Inv
<1>2. /\ Receive /\ Verdict(co, e) # "recover" /\ co' = Classified(co, e)
      /\ buffer' = IF Verdict(co, e) = "apply" THEN Append(buffer, e) ELSE buffer
      /\ UNCHANGED <<applied, rpc, answer, base, tracker, timers>> /\ received' = TRUE
  BY DEF Deliver, Receive
<1>3. /\ StreamInv' /\ UNCHANGED <<stored, stage, next>> /\ stage \in {"replayed", "live"}
      /\ e \in 1 .. stored /\ e = next - Len(out) /\ Len(out') = Len(out) - 1
  BY <1>1, <1>2, ReceiveInv
<1>4. /\ stored \in Nat /\ next \in Nat /\ Len(out) \in Nat
      /\ co \in Recovery /\ L \in Nat /\ H \in Nat
      /\ Len(buffer) \in Nat /\ DOMAIN buffer = 1 .. Len(buffer)
      /\ \A i \in DOMAIN buffer: buffer[i] \in 1 .. stored
  BY Facts
<1> HIDE DEF e, L, H
<1>5. e \in Nat  BY <1>3, <1>4
<1>6. /\ co' \in Recovery /\ co'.latestSequence = L
      /\ co'.highestObservedSequence = Larger(H, e)
      /\ co'.bootstrapped = co.bootstrapped /\ co'.inFlight = co.inFlight
      /\ co'.replayStart = co.replayStart
  BY <1>2, <1>4, <1>5, ClassifiedFacts DEF L, H
<1>7. /\ Larger(H, e) \in Nat /\ Larger(H, e) >= H /\ Larger(H, e) >= e
      /\ Larger(H, e) \in {H, e}
  BY <1>4, <1>5, LargerIs
<1>8. /\ Verdict(co, e) = "ignore" <=> e <= L
      /\ Verdict(co, e) = "defer" => ~ co.bootstrapped \/ co.inFlight # "none"
      /\ Verdict(co, e) = "apply" => co.bootstrapped /\ co.inFlight = "none" /\ e = L + 1
      /\ Verdict(co, e) \in {"ignore", "defer", "apply"}
  BY <1>2, <1>4, <1>5, VerdictIs DEF L
<1>9. \A i \in DOMAIN buffer: buffer[i] < e  BY <1>1, <1>3 DEF Ahead
<1>10. L <= H /\ H <= stored /\ L <= stored  BY <1>1, <1>4 DEF Seen, L, H
<1>11. /\ buffer' \in Seq(1 .. stored)
       /\ \A i, j \in DOMAIN buffer': i < j => buffer'[i] < buffer'[j]
       /\ \A i \in DOMAIN buffer': buffer'[i] > L => buffer'[i] = L + 1 /\ i = Len(buffer')
       /\ \A i \in DOMAIN buffer': buffer'[i] < e + 1
       /\ Verdict(co, e) = "apply" => \E i \in DOMAIN buffer': buffer'[i] = e
  <2>0. buffer \in Seq(1 .. stored)  BY <1>1 DEF ClientTyped
  <2>1. CASE Verdict(co, e) # "apply"
    <3>1. buffer' = buffer  BY <1>2, <2>1
    <3>2. \A i \in DOMAIN buffer: buffer[i] < e + 1  BY <1>4, <1>5, <1>9
    <3> QED  BY <1>1, <2>0, <2>1, <3>1, <3>2 DEF Waits, L
  <2>2. CASE Verdict(co, e) = "apply"
    <3> DEFINE new == Append(buffer, e)
               n == Len(buffer)
    <3>1. buffer' = new  BY <1>2, <2>2
    <3>2. /\ new \in Seq(1 .. stored) /\ Len(new) = n + 1
          /\ DOMAIN new = 1 .. n + 1
          /\ \A i \in 1 .. n: new[i] = buffer[i]
          /\ new[n + 1] = e
      BY <1>3, <1>4, <2>0, Joins
    <3>3. e = L + 1 /\ n \in Nat /\ DOMAIN buffer = 1 .. n  BY <1>4, <1>8, <2>2
    <3>4. \A i, j \in 1 .. n: i < j => buffer[i] < buffer[j]  BY <1>1, <3>3 DEF Waits
    <3>5. \A i \in 1 .. n: buffer[i] \in Nat /\ buffer[i] < e  BY <1>4, <1>9
    <3> HIDE DEF new, n
    <3>6. ASSUME NEW i \in 1 .. n + 1, NEW j \in 1 .. n + 1, i < j PROVE new[i] < new[j]
      <4>1. i \in 1 .. n  BY <3>3, <3>6
      <4>2. CASE j = n + 1  BY <3>2, <3>5, <4>1, <4>2
      <4>3. CASE j # n + 1
        <5>1. j \in 1 .. n  BY <3>3, <4>3
        <5> QED  BY <3>2, <3>4, <3>6, <4>1, <5>1
      <4> QED  BY <4>2, <4>3
    <3>7. ASSUME NEW i \in 1 .. n + 1
          PROVE  new[i] < e + 1 /\ (new[i] > L => new[i] = L + 1 /\ i = n + 1)
      <4>1. CASE i = n + 1  BY <1>4, <3>2, <3>3, <4>1
      <4>2. CASE i # n + 1
        <5>1. i \in 1 .. n  BY <3>3, <4>2
        <5>2. new[i] \in Nat /\ new[i] < L + 1  BY <3>2, <3>3, <3>5, <5>1
        <5> QED  BY <1>4, <3>3, <5>2
      <4> QED  BY <4>1, <4>2
    <3>8. n + 1 \in 1 .. n + 1  BY <3>3
    <3> QED  BY <3>1, <3>2, <3>6, <3>7, <3>8
  <2> QED  BY <2>1, <2>2
<1>12. ClientTyped'
  BY <1>1, <1>2, <1>3, <1>6, <1>11 DEF ClientTyped
<1>13. StoreIsPrefix'  BY <1>1, <1>2, <1>3, <1>6 DEF StoreIsPrefix, Position, L
<1>14. Flight'  BY <1>1, <1>2, <1>6 DEF Flight, L
<1>15. SnapshotFits'
  <2> SUFFICES ASSUME rpc = "answered", co.inFlight = "snapshot"
               PROVE  /\ Len(answer) = 1 /\ answer[1] <= stored
                      /\ L <= answer[1] /\ \A i \in DOMAIN buffer': buffer'[i] <= answer[1]
    BY <1>2, <1>3, <1>6 DEF SnapshotFits
  <2>1. buffer' = buffer  BY <1>2, <1>8
  <2> QED  BY <1>1, <2>1 DEF SnapshotFits, L
<1>16. ReplayFits'  BY <1>1, <1>2, <1>3, <1>6 DEF ReplayFits
<1>17. Seen'
  <2>1. tracker' = tracker  BY <1>2
  <2>2. tracker.highest <= stored  BY <1>1 DEF Seen
  <2>3. L <= Larger(H, e) /\ Larger(H, e) <= stored  BY <1>3, <1>4, <1>5, <1>7, <1>10
  <2> QED  BY <1>3, <1>6, <2>1, <2>2, <2>3 DEF Seen
<1>18. Waits'  BY <1>6, <1>11 DEF Waits
<1>19. Ahead'
  <2>1. next' - Len(out') = e + 1  BY <1>3, <1>4
  <2> QED  BY <1>2, <1>3, <1>11, <2>1 DEF Ahead
<1>20. Accounted'
  <2> SUFFICES ASSUME co.bootstrapped, co.inFlight = "none", timers = 0
               PROVE  Larger(H, e) <= L \/ \E i \in DOMAIN buffer': buffer'[i] = Larger(H, e)
    BY <1>2, <1>6 DEF Accounted
  <2>1. H <= L \/ \E i \in DOMAIN buffer: buffer[i] = H  BY <1>1 DEF Accounted, L, H
  <2>2. CASE Verdict(co, e) = "ignore"
    <3>1. e <= L /\ buffer' = buffer  BY <1>2, <1>8, <2>2
    <3>2. Larger(H, e) = H  BY <1>4, <1>5, <1>7, <1>10, <3>1
    <3> QED  BY <2>1, <3>1, <3>2
  <2>3. CASE Verdict(co, e) = "apply"
    <3>1. H < e
      <4>1. e = L + 1  BY <1>8, <2>3
      <4>2. CASE H <= L  BY <1>4, <1>5, <4>1, <4>2
      <4>3. CASE \E i \in DOMAIN buffer: buffer[i] = H  BY <1>9, <4>3
      <4> QED  BY <2>1, <4>2, <4>3
    <3>2. Larger(H, e) = e  BY <1>4, <1>5, <1>7, <3>1
    <3> QED  BY <1>11, <2>3, <3>2
  <2> QED  BY <1>8, <2>2, <2>3
<1>21. Moves  BY <1>3, <1>4, <1>6 DEF Moves, L
<1> QED
  BY <1>3, <1>12, <1>13, <1>14, <1>15, <1>16, <1>17, <1>18, <1>19, <1>20, <1>21 DEF Inv

(* Flushing: the coordinator was in state r, which has applied what co has.  *)
LEMMA FlushFacts ==
  ASSUME Inv, FlushBuffer, base' = base,
         NEW r \in Recovery, r.latestSequence = co.latestSequence
  PROVE  LET d == Flushed(r)
         IN  /\ d \in Recovery /\ d.latestSequence \in Nat
             /\ co.latestSequence <= d.latestSequence /\ d.latestSequence <= stored
             /\ \/ d.latestSequence = co.latestSequence
                \/ \E i \in DOMAIN buffer: buffer[i] = d.latestSequence
             /\ \A i \in DOMAIN buffer: buffer[i] <= d.latestSequence
             /\ d.highestObservedSequence \in
                  {r.highestObservedSequence,
                   Larger(r.highestObservedSequence, d.latestSequence)}
             /\ d.latestSequence > co.latestSequence =>
                  d.highestObservedSequence =
                    Larger(r.highestObservedSequence, d.latestSequence)
             /\ d.bootstrapped = r.bootstrapped /\ d.inFlight = r.inFlight
             /\ d.replayStart = r.replayStart
             /\ buffer' = <<>> /\ applied' \in Seq(Nat)
             /\ base + Len(applied') = d.latestSequence
             /\ \A i \in DOMAIN applied': applied'[i] = base + i
<1> DEFINE L == co.latestSequence
           d == Flushed(r)
<1>1. ClientTyped /\ Waits /\ StoreIsPrefix  BY DEF Inv
<1>2. /\ stored \in Nat /\ L \in Nat /\ Len(buffer) \in Nat /\ DOMAIN buffer = 1 .. Len(buffer)
      /\ \A i \in DOMAIN buffer: buffer[i] \in 1 .. stored
  BY Facts
<1>3. PICK a: /\ Run(buffer, a) /\ Len(buffer) + 1 - a \in {0, 1}
              /\ \A i \in DOMAIN buffer: buffer[i] > L => a = Len(buffer)
              /\ a = Len(buffer) => buffer # <<>>
  BY <1>1, <1>2, BufferRun
<1> DEFINE m == Len(buffer) + 1 - a
<1>4. applied' = applied \o Fresh(buffer) /\ buffer' = <<>>  BY DEF FlushBuffer
<1>5. buffer \in Seq(1 .. stored)  BY <1>1 DEF ClientTyped
<1>6. /\ d \in Recovery /\ m \in Nat
      /\ d.latestSequence = L + m /\ d.latestSequence <= stored
      /\ d.highestObservedSequence =
           IF m = 0 THEN r.highestObservedSequence
           ELSE Larger(r.highestObservedSequence, d.latestSequence)
      /\ d.bootstrapped = r.bootstrapped /\ d.inFlight = r.inFlight
      /\ d.replayStart = r.replayStart
      /\ applied' \in Seq(Nat) /\ Len(applied') = Len(applied) + m
      /\ \A i \in DOMAIN applied': applied'[i] = base + i
  BY <1>1, <1>2, <1>3, <1>4, <1>5, Advance DEF Flushed
<1>7. L = base + Len(applied) /\ base \in Nat /\ Len(applied) \in Nat
  BY <1>1, Domain DEF StoreIsPrefix, Position, ClientTyped
<1>8. \A i \in DOMAIN buffer: buffer[i] > L => buffer[i] = L + 1 /\ m = 1
  <2>1. \A i \in DOMAIN buffer: buffer[i] > L => buffer[i] = L + 1 /\ a = Len(buffer)
    BY <1>1, <1>3 DEF Waits
  <2>2. a = Len(buffer) => m = 1  BY <1>2
  <2> QED  BY <2>1, <2>2
<1>9. m = 1 => \E i \in DOMAIN buffer: buffer[i] = L + 1
  <2> SUFFICES ASSUME m = 1 PROVE \E i \in DOMAIN buffer: buffer[i] = L + 1
    OBVIOUS
  <2>1. a \in 1 .. Len(buffer) + 1  BY <1>3 DEF Run
  <2>2. a = Len(buffer) /\ a \in DOMAIN buffer
    <3> DEFINE n == Len(buffer)
    <3>1. a \in 1 .. n + 1 /\ n \in Nat /\ n + 1 - a = 1 /\ DOMAIN buffer = 1 .. n
      BY <1>2, <2>1
    <3> HIDE DEF n, m
    <3>2. a = n /\ a \in 1 .. n  BY <3>1
    <3> QED  BY <3>1, <3>2 DEF n
  <2>3. buffer[a] = L + (a - a) + 1  BY <1>3, <2>2 DEF Run
  <2> QED  BY <1>2, <2>2, <2>3
<1>10. m \in {0, 1}  BY <1>3
<1> HIDE DEF d, L, m
<1>11. d.latestSequence \in Nat /\ L <= d.latestSequence  BY <1>2, <1>6
<1>12. d.latestSequence = L \/ \E i \in DOMAIN buffer: buffer[i] = d.latestSequence
  BY <1>2, <1>6, <1>9, <1>10
<1>13. \A i \in DOMAIN buffer: buffer[i] <= d.latestSequence  BY <1>2, <1>6, <1>8, <1>11
<1>14. d.latestSequence > L =>
         d.highestObservedSequence = Larger(r.highestObservedSequence, d.latestSequence)
  BY <1>2, <1>6, <1>10
<1>15. base + Len(applied') = d.latestSequence  BY <1>2, <1>6, <1>7
<1>16. d.highestObservedSequence \in
         {r.highestObservedSequence, Larger(r.highestObservedSequence, d.latestSequence)}
  BY <1>6
<1> QED  BY <1>4, <1>6, <1>11, <1>12, <1>13, <1>14, <1>15, <1>16 DEF d, L

(* Asking for a replay: it begins, or what is in flight goes on. *)
LEMMA StartFacts ==
  ASSUME NEW r \in Recovery, StartReplay(r), answer \in Seq(Nat)
  PROVE  /\ co' \in Recovery /\ co'.latestSequence = r.latestSequence
         /\ co'.highestObservedSequence = r.highestObservedSequence
         /\ co'.bootstrapped = r.bootstrapped
         /\ answer' \in Seq(Nat)
         /\ \/ /\ r.bootstrapped /\ r.inFlight = "none"
               /\ co'.inFlight = "replay" /\ co'.replayStart = r.latestSequence
               /\ rpc' = "asked"
            \/ /\ ~ (r.bootstrapped /\ r.inFlight = "none")
               /\ co'.inFlight = r.inFlight /\ co'.replayStart = r.replayStart
               /\ rpc' = rpc /\ answer' = answer
<1>1. <<>> \in Seq(Nat)  OBVIOUS
<1>2. MayBegin(r, "replay") <=> r.bootstrapped /\ r.inFlight = "none"  BY DEF MayBegin
<1>3. co' = Begun(r, "replay")  BY DEF StartReplay
<1>4. /\ co' \in Recovery /\ co'.latestSequence = r.latestSequence
      /\ co'.highestObservedSequence = r.highestObservedSequence
      /\ co'.bootstrapped = r.bootstrapped
      /\ MayBegin(r, "replay") =>
           co'.inFlight = "replay" /\ co'.replayStart = r.latestSequence
      /\ ~ MayBegin(r, "replay") =>
           co'.inFlight = r.inFlight /\ co'.replayStart = r.replayStart
  BY <1>3, BegunFacts
<1>5. CASE MayBegin(r, "replay")
  <2>1. rpc' = "asked" /\ answer' = <<>>  BY <1>5 DEF StartReplay
  <2> QED  BY <1>1, <1>2, <1>4, <1>5, <2>1
<1>6. CASE ~ MayBegin(r, "replay")
  <2>1. rpc' = rpc /\ answer' = answer  BY <1>6 DEF StartReplay
  <2> QED  BY <1>2, <1>4, <1>6, <2>1
<1> QED  BY <1>5, <1>6

(* The highest sequence after a flush: H before, K after it.                 *)
LEMMA FlushSeen ==
  \A L, H, M, K, n:
    /\ L \in Nat /\ H \in Nat /\ M \in Nat /\ n \in Nat /\ L <= H /\ H <= n
    /\ L <= M /\ M <= n /\ K \in {H, Larger(H, M)} /\ (M > L => K = Larger(H, M))
    => K \in Nat /\ M <= K /\ K <= n /\ (H <= M => K = M)
<1> SUFFICES ASSUME NEW L \in Nat, NEW H \in Nat, NEW M \in Nat, NEW K, NEW n \in Nat,
                    L <= H, H <= n, L <= M, M <= n, K \in {H, Larger(H, M)},
                    M > L => K = Larger(H, M)
             PROVE  K \in Nat /\ M <= K /\ K <= n /\ (H <= M => K = M)
  OBVIOUS
<1> DEFINE G == Larger(H, M)
<1>1. G \in Nat /\ G >= H /\ G >= M /\ G \in {H, M}  BY LargerIs
<1>2. K \in {H, G} /\ (M > L => K = G)  OBVIOUS
<1> HIDE DEF G
<1>3. CASE M > L
  <2>1. K = G  BY <1>2, <1>3
  <2> QED  BY <1>1, <1>3, <2>1
<1>4. CASE M = L  BY <1>1, <1>2, <1>4
<1> QED  BY <1>3, <1>4

LEMMA DeliverGapKeeps == ASSUME Inv, DeliverGap PROVE Inv' /\ Moves
<1> DEFINE e == Head(out)
           c == Classified(co, e)
           d == Flushed(c)
           L == co.latestSequence
<1>1. /\ StreamInv /\ ClientTyped /\ StoreIsPrefix /\ Flight /\ Seen  BY DEF Inv
<1>2. /\ Receive /\ Verdict(co, e) = "recover" /\ FlushBuffer /\ StartReplay(d)
      /\ UNCHANGED <<base, tracker, timers>> /\ received' = TRUE
  BY DEF DeliverGap, Receive
<1>3. StreamInv' /\ UNCHANGED <<stored, stage, next>> /\ e \in 1 .. stored
  BY <1>1, <1>2, ReceiveInv
<1>4. /\ stored \in Nat /\ co \in Recovery /\ L \in Nat
      /\ co.highestObservedSequence \in Nat
  BY Facts
<1> HIDE DEF e
<1>5. e \in Nat  BY <1>3, <1>4
<1>6. /\ c \in Recovery /\ c.latestSequence = L
      /\ c.highestObservedSequence = Larger(co.highestObservedSequence, e)
      /\ c.bootstrapped = co.bootstrapped /\ c.inFlight = co.inFlight
  BY <1>4, <1>5, ClassifiedFacts
<1>7. co.bootstrapped /\ co.inFlight = "none"  BY <1>2, <1>4, <1>5, VerdictIs
<1> HIDE DEF c
<1>8. /\ d \in Recovery /\ d.latestSequence \in Nat
      /\ L <= d.latestSequence /\ d.latestSequence <= stored
      /\ d.highestObservedSequence \in
           {c.highestObservedSequence,
            Larger(c.highestObservedSequence, d.latestSequence)}
      /\ d.latestSequence > L =>
           d.highestObservedSequence = Larger(c.highestObservedSequence, d.latestSequence)
      /\ d.bootstrapped = c.bootstrapped /\ d.inFlight = c.inFlight
      /\ buffer' = <<>> /\ applied' \in Seq(Nat)
      /\ base + Len(applied') = d.latestSequence
      /\ \A i \in DOMAIN applied': applied'[i] = base + i
  BY <1>2, <1>6, FlushFacts
<1> HIDE DEF d, L
<1>9. /\ co' \in Recovery /\ co'.latestSequence = d.latestSequence
      /\ co'.highestObservedSequence = d.highestObservedSequence
      /\ co'.bootstrapped = d.bootstrapped /\ answer' \in Seq(Nat)
      /\ co'.inFlight = "replay" /\ co'.replayStart = d.latestSequence /\ rpc' = "asked"
  <2>1. answer \in Seq(Nat)  BY <1>1 DEF ClientTyped
  <2>2. d.bootstrapped /\ d.inFlight = "none"  BY <1>6, <1>7, <1>8
  <2> QED  BY <1>2, <1>8, <2>1, <2>2, StartFacts
<1>10. ClientTyped'
  <2>1. buffer' \in Seq(1 .. stored')  BY <1>8, EmptySeq
  <2>2. UNCHANGED <<base, tracker, timers>>  BY <1>2
  <2> QED  BY <1>1, <1>2, <1>8, <1>9, <2>1, <2>2 DEF ClientTyped
<1>11. StoreIsPrefix'
  BY <1>2, <1>3, <1>8, <1>9 DEF StoreIsPrefix, Position
<1>12. Flight'  BY <1>6, <1>7, <1>8, <1>9 DEF Flight
<1>13. SnapshotFits' /\ ReplayFits'  BY <1>9 DEF SnapshotFits, ReplayFits
<1>14. Seen'
  <2> DEFINE H == co.highestObservedSequence
             K == c.highestObservedSequence
             M == d.latestSequence
             T == d.highestObservedSequence
  <2>1. L <= H /\ H <= stored /\ tracker.highest <= stored /\ H \in Nat
    BY <1>1, <1>4 DEF Seen, L
  <2>2. K = Larger(H, e) /\ e <= stored  BY <1>3, <1>4, <1>6
  <2>3. /\ M \in Nat /\ L <= M /\ M <= stored /\ T \in {K, Larger(K, M)}
        /\ M > L => T = Larger(K, M)
    BY <1>8
  <2>4. tracker' = tracker  BY <1>2
  <2>5. co'.latestSequence = M /\ co'.highestObservedSequence = T  BY <1>9
  <2> HIDE DEF H, K, M, T
  <2>6. K \in Nat /\ H <= K /\ K <= stored
    <3>1. /\ Larger(H, e) \in Nat /\ Larger(H, e) >= H /\ Larger(H, e) \in {H, e}
      BY <1>5, <2>1, LargerIs
    <3> QED  BY <2>1, <2>2, <3>1
  <2>7. L <= K  BY <1>4, <2>1, <2>6
  <2>8. M <= T /\ T <= stored
    <3>1. /\ L \in Nat /\ K \in Nat /\ M \in Nat /\ stored \in Nat /\ L <= K /\ K <= stored
          /\ L <= M /\ M <= stored /\ T \in {K, Larger(K, M)} /\ (M > L => T = Larger(K, M))
      BY <1>4, <2>3, <2>6, <2>7
    <3> QED  BY <3>1, FlushSeen
  <2> QED  BY <1>3, <2>1, <2>4, <2>5, <2>8 DEF Seen
<1>15. Waits' /\ Ahead'  BY <1>8, EmptyBuffer
<1>16. Accounted'  BY <1>9 DEF Accounted
<1>17. Moves  BY <1>3, <1>8, <1>9 DEF Moves, L
<1> QED
  BY <1>3, <1>10, <1>11, <1>12, <1>13, <1>14, <1>15, <1>16, <1>17 DEF Inv

(* Flushing from the coordinator's own state. *)
LEMMA FlushedCo ==
  ASSUME Inv, FlushBuffer, base' = base
  PROVE  LET d == Flushed(co)
         IN  /\ d \in Recovery /\ d.latestSequence \in Nat
             /\ co.latestSequence <= d.latestSequence
             /\ d.latestSequence <= d.highestObservedSequence
             /\ d.highestObservedSequence <= stored
             /\ d.bootstrapped = co.bootstrapped /\ d.inFlight = co.inFlight
             /\ d.replayStart = co.replayStart
             /\ buffer' = <<>> /\ applied' \in Seq(Nat)
             /\ base + Len(applied') = d.latestSequence
             /\ \A i \in DOMAIN applied': applied'[i] = base + i
             /\ rpc = "answered" /\ co.inFlight = "snapshot" => d.latestSequence <= answer[1]
             /\ co.bootstrapped /\ co.inFlight = "none" /\ timers = 0 =>
                  d.highestObservedSequence = d.latestSequence
<1> DEFINE d == Flushed(co)
           L == co.latestSequence
           H == co.highestObservedSequence
           M == d.latestSequence
           K == d.highestObservedSequence
<1>1. /\ stored \in Nat /\ co \in Recovery /\ L \in Nat /\ H \in Nat
      /\ \A i \in DOMAIN buffer: buffer[i] \in 1 .. stored
  BY Facts
<1>2. /\ d \in Recovery /\ M \in Nat /\ L <= M /\ M <= stored
      /\ M = L \/ \E i \in DOMAIN buffer: buffer[i] = M
      /\ \A i \in DOMAIN buffer: buffer[i] <= M
      /\ K \in {H, Larger(H, M)} /\ (M > L => K = Larger(H, M))
      /\ d.bootstrapped = co.bootstrapped /\ d.inFlight = co.inFlight
      /\ d.replayStart = co.replayStart
      /\ buffer' = <<>> /\ applied' \in Seq(Nat)
      /\ base + Len(applied') = M
      /\ \A i \in DOMAIN applied': applied'[i] = base + i
  BY <1>1, FlushFacts
<1>3. L <= H /\ H <= stored  BY DEF Inv, Seen
<1>4. SnapshotFits /\ Accounted  BY DEF Inv
<1>5. rpc = "answered" /\ co.inFlight = "snapshot" => M <= answer[1]
  <2> SUFFICES ASSUME rpc = "answered", co.inFlight = "snapshot" PROVE M <= answer[1]
    OBVIOUS
  <2>1. L <= answer[1] /\ \A i \in DOMAIN buffer: buffer[i] <= answer[1]
    BY <1>4 DEF SnapshotFits
  <2> QED  BY <1>2, <2>1
<1>6. co.bootstrapped /\ co.inFlight = "none" /\ timers = 0 => H <= M
  <2> SUFFICES ASSUME co.bootstrapped, co.inFlight = "none", timers = 0 PROVE H <= M
    OBVIOUS
  <2>1. H <= L \/ \E i \in DOMAIN buffer: buffer[i] = H  BY <1>4 DEF Accounted
  <2>2. CASE H <= L
    <3> HIDE DEF d, L, H, M
    <3> QED  BY <1>1, <1>2, <2>2
  <2>3. CASE \E i \in DOMAIN buffer: buffer[i] = H  BY <1>2, <2>3
  <2> QED  BY <2>1, <2>2, <2>3
<1> HIDE DEF d, L, H, M, K
<1>7. M <= K /\ K <= stored /\ (H <= M => K = M)
  <2>1. /\ L \in Nat /\ H \in Nat /\ M \in Nat /\ stored \in Nat /\ L <= H /\ H <= stored
        /\ L <= M /\ M <= stored /\ K \in {H, Larger(H, M)} /\ (M > L => K = Larger(H, M))
    BY <1>1, <1>2, <1>3
  <2> QED  BY <2>1, FlushSeen
<1>8. co.bootstrapped /\ co.inFlight = "none" /\ timers = 0 => K = M  BY <1>6, <1>7
<1> QED  BY <1>2, <1>5, <1>7, <1>8 DEF d, L, M, K

LEMMA FlushKeeps == ASSUME Inv, Flush PROVE Inv' /\ Moves
<1> DEFINE d == Flushed(co)
<1>1. /\ StreamInv /\ ClientTyped /\ Flight /\ SnapshotFits /\ ReplayFits /\ Seen
  BY DEF Inv
<1>2. /\ FlushBuffer /\ co' = d
      /\ UNCHANGED <<stream, tracker, base, rpc, answer, timers, received>>
  BY DEF Flush
<1>3. StreamInv' /\ stored' = stored  BY <1>1, <1>2, SameStream
<1>4. /\ d \in Recovery /\ d.latestSequence \in Nat
      /\ co.latestSequence <= d.latestSequence
      /\ d.latestSequence <= d.highestObservedSequence
      /\ d.highestObservedSequence <= stored
      /\ d.bootstrapped = co.bootstrapped /\ d.inFlight = co.inFlight
      /\ d.replayStart = co.replayStart
      /\ buffer' = <<>> /\ applied' \in Seq(Nat)
      /\ base + Len(applied') = d.latestSequence
      /\ \A i \in DOMAIN applied': applied'[i] = base + i
      /\ rpc = "answered" /\ co.inFlight = "snapshot" => d.latestSequence <= answer[1]
      /\ co.bootstrapped /\ co.inFlight = "none" /\ timers = 0 =>
           d.highestObservedSequence = d.latestSequence
  BY <1>2, FlushedCo
<1> HIDE DEF d
<1>5. /\ stored \in Nat /\ co.latestSequence \in Nat /\ co.replayStart \in Nat
      /\ d.highestObservedSequence \in Nat
  BY <1>4, Facts DEF Recovery
<1>6. ClientTyped'
  <2>1. buffer' \in Seq(1 .. stored')  BY <1>4, EmptySeq
  <2> QED  BY <1>1, <1>2, <1>4, <2>1 DEF ClientTyped
<1>7. StoreIsPrefix'
  <2>1. d.latestSequence <= stored  BY <1>4, <1>5
  <2> QED  BY <1>2, <1>3, <1>4, <2>1 DEF StoreIsPrefix, Position
<1>8. Flight'  BY <1>1, <1>2, <1>4, <1>5 DEF Flight
<1>9. SnapshotFits'
  <2>1. DOMAIN buffer' = {}  BY <1>4, EmptySeq
  <2> QED  BY <1>1, <1>2, <1>3, <1>4, <2>1 DEF SnapshotFits
<1>10. ReplayFits'  BY <1>1, <1>2, <1>3, <1>4 DEF ReplayFits
<1>11. Seen'  BY <1>1, <1>2, <1>3, <1>4 DEF Seen
<1>12. Waits' /\ Ahead'  BY <1>4, EmptyBuffer
<1>13. Accounted'  BY <1>2, <1>4, <1>5 DEF Accounted
<1>14. Moves  BY <1>2, <1>3, <1>4 DEF Moves
<1> QED
  BY <1>3, <1>6, <1>7, <1>8, <1>9, <1>10, <1>11, <1>12, <1>13, <1>14 DEF Inv

LEMMA RespondKeeps == ASSUME Inv, Respond PROVE Inv' /\ Moves
<1>1. /\ StreamInv /\ ClientTyped /\ StoreIsPrefix /\ Flight /\ Seen /\ Waits /\ Ahead
      /\ Accounted
  BY DEF Inv
<1>2. /\ rpc = "asked" /\ rpc' = "answered"
      /\ answer' = IF co.inFlight = "snapshot" THEN <<stored>> ELSE ReadEvents(co.replayStart)
      /\ UNCHANGED <<stream, co, tracker, buffer, base, applied, timers, received>>
  BY DEF Respond, store
<1>3. StreamInv' /\ stored' = stored  BY <1>1, <1>2, SameStream
<1>4. /\ stored \in Nat /\ co.latestSequence \in Nat /\ co.replayStart \in Nat
      /\ \A i \in DOMAIN buffer: buffer[i] \in 1 .. stored
  BY Facts
<1>5. co.inFlight \in {"snapshot", "replay"}  BY <1>1, <1>2, Facts DEF Flight
<1>6. co.latestSequence <= stored /\ tracker.highest \in Nat /\ tracker.highest <= stored
  BY <1>1, <1>4 DEF StoreIsPrefix, ClientTyped, Tracker, Seen
<1>7. CASE co.inFlight = "snapshot"
  <2>1. answer' = <<stored>> /\ Len(answer') = 1 /\ answer'[1] = stored  BY <1>2, <1>7
  <2>2. answer' \in Seq(Nat)  BY <1>4, <2>1
  <2>3. SnapshotFits'  BY <1>2, <1>3, <1>4, <1>6, <2>1 DEF SnapshotFits
  <2>4. ReplayFits'  BY <1>2, <1>7 DEF ReplayFits
  <2> QED  BY <2>2, <2>3, <2>4, <1>1, <1>2, <1>3 DEF ClientTyped,
    Inv, StoreIsPrefix, Position, Flight, Seen, Waits, Ahead, Accounted, Moves, stream, engine,
    merge
<1>8. CASE co.inFlight = "replay"
  <2> DEFINE s == co.replayStart
  <2>1. s <= co.latestSequence  BY <1>1, <1>8 DEF Flight
  <2>2. s \in Nat /\ s <= stored  BY <1>4, <1>6, <2>1
  <2>3. answer' = ReadEvents(s)  BY <1>2, <1>8
  <2> HIDE DEF s
  <2>4. /\ answer' \in Seq(1 .. stored) /\ \A i \in DOMAIN answer': answer'[i] = s + i
        /\ s < stored => answer' # <<>>
    BY <1>4, <2>2, <2>3, ReadTyped
  <2>5. answer' \in Seq(Nat)
    <3>1. 1 .. stored \subseteq Nat  OBVIOUS
    <3> QED  BY <2>4, <3>1, SeqMonotonic
  <2>6. tracker.highest > s => answer' # <<>>  BY <1>4, <1>6, <2>2, <2>4
  <2>7. SnapshotFits'  BY <1>2, <1>8 DEF SnapshotFits
  <2>8. ReplayFits'  BY <1>2, <1>3, <2>4, <2>6 DEF ReplayFits, s
  <2> QED  BY <2>5, <2>7, <2>8, <1>1, <1>2, <1>3 DEF ClientTyped,
    Inv, StoreIsPrefix, Position, Flight, Seen, Waits, Ahead, Accounted, Moves, stream, engine,
    merge
<1> QED  BY <1>5, <1>7, <1>8

LEMMA ResolvedFacts ==
  ASSUME NEW r \in Recovery
  PROVE  LET c == Resolved(r)
         IN  /\ c \in Recovery /\ c.latestSequence = r.latestSequence
             /\ c.highestObservedSequence = r.highestObservedSequence
             /\ c.bootstrapped = r.bootstrapped /\ c.inFlight = r.inFlight
             /\ c.replayStart = r.replayStart
BY DEF Resolved, Recovery

LEMMA ReplayCompletedFacts ==
  ASSUME NEW r \in Recovery
  PROVE  LET c == ReplayCompleted(r)
         IN  /\ c \in Recovery /\ c.latestSequence = r.latestSequence
             /\ c.highestObservedSequence = r.highestObservedSequence
             /\ c.bootstrapped = r.bootstrapped /\ c.inFlight = "none"
BY DEF ReplayCompleted, Recovery

LEMMA SnapshotCompletedFacts ==
  ASSUME NEW r \in Recovery, NEW n \in Nat, r.latestSequence <= n
  PROVE  LET c == SnapshotCompleted(r, n)
         IN  /\ c \in Recovery /\ c.latestSequence = n
             /\ c.highestObservedSequence \in
                  {r.highestObservedSequence, Larger(r.highestObservedSequence, n)}
             /\ n > r.latestSequence =>
                  c.highestObservedSequence = Larger(r.highestObservedSequence, n)
             /\ c.bootstrapped = TRUE /\ c.inFlight = "none"
<1> DEFINE d == Applied(r, n)
<1>1. /\ d \in Recovery /\ d.latestSequence = Larger(r.latestSequence, n)
      /\ n <= r.latestSequence => d.highestObservedSequence = r.highestObservedSequence
      /\ n > r.latestSequence =>
           d.highestObservedSequence = Larger(r.highestObservedSequence, n)
  BY AppliedFacts
<1>2. r.latestSequence \in Nat  BY DEF Recovery
<1>3. Larger(r.latestSequence, n) = n  BY <1>2 DEF Larger
<1>4. n <= r.latestSequence \/ n > r.latestSequence  BY <1>2
<1>5. SnapshotCompleted(r, n) = [d EXCEPT !.bootstrapped = TRUE, !.inFlight = "none"]
  BY DEF SnapshotCompleted
<1> HIDE DEF d
<1> QED  BY <1>1, <1>3, <1>4, <1>5 DEF Recovery

LEMMA SnapshotKeeps == ASSUME Inv, SnapshotArrives PROVE Inv' /\ Moves
<1> DEFINE n == answer[1]
           r == SnapshotCompleted(co, n)
           c == Resolved(r)
           L == co.latestSequence
           H == co.highestObservedSequence
           K == r.highestObservedSequence
<1>1. /\ StreamInv /\ ClientTyped /\ Flight /\ SnapshotFits /\ Seen /\ Waits /\ Ahead
  BY DEF Inv
<1>2. /\ rpc = "answered" /\ co.inFlight = "snapshot" /\ base' = n /\ applied' = <<>>
      /\ IF NeedsReplay(r) THEN StartReplay(c) ELSE co' = c /\ rpc' = "none" /\ answer' = <<>>
      /\ UNCHANGED <<stream, tracker, buffer, timers, received>>
  BY DEF SnapshotArrives
<1>3. StreamInv' /\ stored' = stored  BY <1>1, <1>2, SameStream
<1>4. /\ stored \in Nat /\ co \in Recovery /\ L \in Nat /\ H \in Nat
      /\ \A i \in DOMAIN buffer: buffer[i] \in 1 .. stored
  BY Facts
<1>5. /\ answer \in Seq(Nat) /\ Len(answer) = 1 /\ n <= stored /\ L <= n
      /\ \A i \in DOMAIN buffer: buffer[i] <= n
  BY <1>1, <1>2 DEF ClientTyped, SnapshotFits
<1>6. n \in Nat
  <2>1. 1 \in DOMAIN answer  BY <1>5, Domain
  <2> QED  BY <1>5, <2>1, ElementOf
<1> HIDE DEF n
<1>7. /\ r \in Recovery /\ r.latestSequence = n
      /\ K \in {H, Larger(H, n)} /\ (n > L => K = Larger(H, n))
      /\ r.bootstrapped = TRUE /\ r.inFlight = "none"
  BY <1>4, <1>5, <1>6, SnapshotCompletedFacts
<1>8. L <= H /\ H <= stored /\ tracker.highest <= stored  BY <1>1 DEF Seen
<1>9. NeedsReplay(r) \/ K <= n  BY <1>7 DEF NeedsReplay, Recovery
<1> HIDE DEF r
<1>10. /\ c \in Recovery /\ c.latestSequence = n /\ c.highestObservedSequence = K
       /\ c.bootstrapped = TRUE /\ c.inFlight = "none"
  BY <1>7, ResolvedFacts
<1> HIDE DEF c, L, H, K
<1>11. K \in Nat /\ n <= K /\ K <= stored
  <2>1. /\ L \in Nat /\ H \in Nat /\ n \in Nat /\ stored \in Nat /\ L <= H /\ H <= stored
        /\ L <= n /\ n <= stored /\ K \in {H, Larger(H, n)} /\ (n > L => K = Larger(H, n))
    BY <1>4, <1>5, <1>6, <1>7, <1>8
  <2> QED  BY <2>1, FlushSeen
<1>12. /\ co' \in Recovery /\ co'.latestSequence = n /\ co'.highestObservedSequence = K
       /\ co'.bootstrapped = TRUE /\ answer' \in Seq(Nat)
       /\ \/ co'.inFlight = "replay" /\ co'.replayStart = n /\ rpc' = "asked"
          \/ co'.inFlight = "none" /\ rpc' = "none" /\ K <= n
  <2>1. CASE NeedsReplay(r)
    <3>1. StartReplay(c)  BY <1>2, <2>1
    <3> QED  BY <1>5, <1>10, <3>1, StartFacts
  <2>2. CASE ~ NeedsReplay(r)
    <3>1. co' = c /\ rpc' = "none" /\ answer' = <<>>  BY <1>2, <2>2
    <3>2. answer' \in Seq(Nat)  BY <3>1, EmptySeq
    <3> QED  BY <1>9, <1>10, <2>2, <3>1, <3>2
  <2> QED  BY <2>1, <2>2
<1>13. Len(applied') = 0 /\ DOMAIN applied' = {} /\ applied' \in Seq(Nat)  BY <1>2, EmptySeq
<1>14. UNCHANGED <<tracker, buffer, timers, received, stage, next, out>>
  BY <1>2 DEF stream, engine, merge
<1>15. rpc' \in {"none", "asked"}  BY <1>12
<1>16. ClientTyped'
  BY <1>1, <1>2, <1>3, <1>6, <1>12, <1>13, <1>14, <1>15 DEF ClientTyped
<1>17. StoreIsPrefix'
  <2>1. base' + Len(applied') = n  BY <1>2, <1>6, <1>13
  <2> QED  BY <1>3, <1>5, <1>12, <1>13, <2>1 DEF StoreIsPrefix, Position
<1>18. Flight'
  <2>1. n <= n  BY <1>6
  <2> QED  BY <1>12, <2>1 DEF Flight
<1>19. SnapshotFits' /\ ReplayFits'  BY <1>15 DEF SnapshotFits, ReplayFits
<1>20. Seen'  BY <1>3, <1>8, <1>11, <1>12, <1>14 DEF Seen
<1>21. Waits'
  <2>1. \A i \in DOMAIN buffer: ~ (buffer[i] > n)  BY <1>4, <1>5, <1>6
  <2>2. \A i, j \in DOMAIN buffer: i < j => buffer[i] < buffer[j]  BY <1>1 DEF Waits
  <2> QED  BY <1>12, <1>14, <2>1, <2>2 DEF Waits
<1>22. Ahead'  BY <1>1, <1>14 DEF Ahead
<1>23. Accounted'
  <2>1. CASE co'.inFlight = "none" /\ K <= n  BY <1>12, <2>1 DEF Accounted
  <2>2. CASE co'.inFlight = "replay"  BY <2>2 DEF Accounted
  <2> QED  BY <1>12, <2>1, <2>2
<1>24. Moves  BY <1>3, <1>5, <1>12 DEF Moves, L
<1> QED
  BY <1>3, <1>16, <1>17, <1>18, <1>19, <1>20, <1>21, <1>22, <1>23, <1>24 DEF Inv

(* A replay that goes on at co.replayStart is new behind latestSequence. *)
LEMMA ReplayRun ==
  ASSUME NEW E \in Seq(Nat), NEW s \in Nat, s <= co.latestSequence,
         co.latestSequence \in Nat, \A i \in DOMAIN E: E[i] = s + i
  PROVE  \E a: Run(E, a) /\ (s = co.latestSequence => a = 1)
<1> DEFINE n == Len(E)
           L == co.latestSequence
<1>1. n \in Nat /\ DOMAIN E = 1 .. n  BY Domain
<1>2. L \in Nat /\ s <= L /\ \A i \in 1 .. n: E[i] = s + i  BY <1>1
<1> HIDE DEF n, L
<1>3. PICK a \in 1 .. n + 1:
        /\ s = L => a = 1
        /\ \A i \in 1 .. n: i < a => s + i <= L
        /\ \A i \in 1 .. n: i >= a => s + i = L + (i - a) + 1
  <2>1. CASE L - s <= n
    <3>1. (L - s) + 1 \in 1 .. n + 1  BY <1>1, <1>2, <2>1
    <3>2. \A i \in 1 .. n: i < (L - s) + 1 => s + i <= L  BY <1>1, <1>2
    <3>3. \A i \in 1 .. n: s + i = L + (i - ((L - s) + 1)) + 1  BY <1>1, <1>2
    <3>4. s = L => (L - s) + 1 = 1  BY <1>2
    <3> QED  BY <3>1, <3>2, <3>3, <3>4
  <2>2. CASE ~ (L - s <= n)
    <3>1. n + 1 \in 1 .. n + 1 /\ \A i \in 1 .. n: ~ (i >= n + 1)  BY <1>1
    <3>2. \A i \in 1 .. n: s + i <= L  BY <1>1, <1>2, <2>2
    <3>3. s # L  BY <1>1, <1>2, <2>2
    <3> QED  BY <3>1, <3>2, <3>3
  <2> QED  BY <2>1, <2>2
<1>4. \A i, j \in 1 .. n: i < j => E[i] < E[j]  BY <1>1, <1>2
<1>5. \A i \in 1 .. n: i < a => E[i] <= L  BY <1>2, <1>3
<1>6. \A i \in 1 .. n: i >= a => E[i] = L + (i - a) + 1  BY <1>2, <1>3
<1>7. Run(E, a)  BY <1>1, <1>3, <1>4, <1>5, <1>6 DEF Run, n, L
<1> QED  BY <1>3, <1>7 DEF L

LEMMA DecisionFacts ==
  ASSUME NEW t \in Tracker, NEW r \in Recovery, NEW needed \in BOOLEAN, NEW progress \in BOOLEAN
  PROVE  LET d == RetryDecision(t, r, needed, progress)
         IN  /\ d.retry \in {"no", "now", "later"} /\ d.tracker \in Tracker
             /\ d.tracker.highest \in {0, r.highestObservedSequence}
             /\ d.retry = "no" /\ needed =>
                  ~ progress /\ t.attempts > 0 /\ t.highest = r.highestObservedSequence
<1> DEFINE d == RetryDecision(t, r, needed, progress)
           k == Attempt(t, r)
<1>1. NoTracker \in Tracker /\ NoTracker.highest = 0  BY DEF NoTracker, Tracker
<1>2. k \in Nat /\ (k > 1 => SameFrontier(t, r))  BY DEF Attempt, Tracker
<1>3. MaxNoProgress \in Nat /\ MaxNoProgress >= 1  BY RecoveryAssumption
<1>4. /\ r.latestSequence \in Nat /\ r.highestObservedSequence \in Nat
  BY DEF Recovery
<1> HIDE DEF k
<1>5. CASE ~ needed
  <2>1. d = [retry |-> "no", tracker |-> NoTracker]  BY <1>5 DEF RetryDecision
  <2> QED  BY <1>1, <1>5, <2>1
<1>6. CASE needed /\ progress
  <2>1. d = [retry |-> "now", tracker |-> NoTracker]  BY <1>6 DEF RetryDecision
  <2> QED  BY <1>1, <2>1
<1>7. CASE needed /\ ~ progress /\ k > MaxNoProgress
  <2>1. d = [retry |-> "no", tracker |-> NoTracker]  BY <1>7 DEF RetryDecision, k
  <2>2. SameFrontier(t, r)  BY <1>2, <1>3, <1>7
  <2>3. t.attempts > 0 /\ t.highest = r.highestObservedSequence  BY <2>2 DEF SameFrontier
  <2> HIDE DEF d
  <2>4. d.retry = "no" /\ d.tracker = NoTracker  BY <2>1
  <2> QED  BY <1>1, <1>7, <2>3, <2>4 DEF d
<1>8. CASE needed /\ ~ progress /\ ~ (k > MaxNoProgress)
  <2> DEFINE later == [attempts |-> k, latest |-> r.latestSequence,
                       highest |-> r.highestObservedSequence]
  <2>1. d = [retry |-> "later", tracker |-> later]  BY <1>8 DEF RetryDecision, k
  <2>2. later \in Tracker /\ later.highest = r.highestObservedSequence
    BY <1>2, <1>4 DEF Tracker
  <2> HIDE DEF later, d
  <2>3. d.retry = "later" /\ d.tracker = later  BY <2>1
  <2> QED  BY <2>2, <2>3 DEF d
<1> QED  BY <1>5, <1>6, <1>7, <1>8

LEMMA ReplayKeeps == ASSUME Inv, ReplayArrives PROVE Inv' /\ Moves
<1> DEFINE L == co.latestSequence
           H == co.highestObservedSequence
           s == co.replayStart
           r == Applied(co, Newest(answer))
           done == ReplayCompleted(r)
           c == Resolved(done)
           decision == RetryDecision(tracker, c, NeedsReplay(done), ReplayMadeProgress(r))
           M == r.latestSequence
           K == r.highestObservedSequence
<1>1. /\ StreamInv /\ ClientTyped /\ StoreIsPrefix /\ Flight /\ ReplayFits /\ Seen /\ Waits
      /\ Ahead
  BY DEF Inv
<1>2. /\ rpc = "answered" /\ co.inFlight = "replay" /\ applied' = applied \o Fresh(answer)
      /\ tracker' = decision.tracker
      /\ timers' = IF decision.retry = "later" THEN timers + 1 ELSE timers
      /\ IF decision.retry = "now" THEN StartReplay(c)
         ELSE co' = c /\ rpc' = "none" /\ answer' = <<>>
      /\ UNCHANGED <<stream, buffer, base, received>>
  BY DEF ReplayArrives
<1>3. StreamInv' /\ stored' = stored  BY <1>1, <1>2, SameStream
<1>4. /\ stored \in Nat /\ co \in Recovery /\ L \in Nat /\ H \in Nat /\ s \in Nat
      /\ \A i \in DOMAIN buffer: buffer[i] \in 1 .. stored
  BY Facts
<1>5. /\ answer \in Seq(1 .. stored) /\ answer \in Seq(Nat)
      /\ \A i \in DOMAIN answer: answer[i] = s + i
      /\ tracker.attempts > 0 /\ tracker.highest > s => answer # <<>>
  BY <1>1, <1>2 DEF ReplayFits, ClientTyped
<1>6. s <= L /\ co.bootstrapped  BY <1>1, <1>2 DEF Flight
<1>7. PICK a: Run(answer, a) /\ (s = L => a = 1)  BY <1>4, <1>5, <1>6, ReplayRun
<1> DEFINE m == Len(answer) + 1 - a
<1>8. /\ r \in Recovery /\ m \in Nat /\ M = L + m /\ M <= stored
      /\ K = IF m = 0 THEN H ELSE Larger(H, M)
      /\ r.bootstrapped = co.bootstrapped /\ r.replayStart = s
      /\ applied' \in Seq(Nat) /\ Len(applied') = Len(applied) + m
      /\ \A i \in DOMAIN applied': applied'[i] = base + i
  <2>1. /\ ClientTyped /\ StoreIsPrefix /\ stored \in Nat /\ answer \in Seq(1 .. stored)
        /\ co \in Recovery /\ Run(answer, a)
    BY <1>1, <1>4, <1>5, <1>7
  <2>2. applied' = applied \o Fresh(answer) /\ base' = base  BY <1>2
  <2> DEFINE r0 == co
             d == Applied(r0, Newest(answer))
  <2>3. r0 \in Recovery /\ r0.latestSequence = co.latestSequence  BY <2>1
  <2> HIDE DEF r0, r, L, s, H, M, K
  <2>4. /\ d \in Recovery /\ m \in Nat
        /\ d.latestSequence = co.latestSequence + m /\ d.latestSequence <= stored
        /\ d.highestObservedSequence =
             IF m = 0 THEN r0.highestObservedSequence
             ELSE Larger(r0.highestObservedSequence, d.latestSequence)
        /\ d.bootstrapped = r0.bootstrapped /\ d.replayStart = r0.replayStart
        /\ applied' \in Seq(Nat) /\ Len(applied') = Len(applied) + m
        /\ \A i \in DOMAIN applied': applied'[i] = base + i
    BY <2>1, <2>2, <2>3, Advance
  <2> HIDE DEF m
  <2> QED  BY <2>4 DEF r0, r, L, s, H, M, K
<1>9. s = L /\ answer # <<>> => m > 0
  <2> DEFINE n == Len(answer)
  <2>1. n \in Nat /\ (answer = <<>> <=> n = 0)  BY <1>5, Domain
  <2>2. m = n + 1 - a  OBVIOUS
  <2> HIDE DEF n, m
  <2> QED  BY <1>7, <2>1, <2>2
<1> HIDE DEF m
<1>10. L <= H /\ H <= stored /\ tracker.highest <= stored  BY <1>1 DEF Seen
<1>11. L = base + Len(applied) /\ base \in Nat /\ Len(applied) \in Nat
  BY <1>1, Domain DEF StoreIsPrefix, Position, ClientTyped
<1>12. ReplayMadeProgress(r) <=> M > s  BY <1>8 DEF ReplayMadeProgress
<1> HIDE DEF r
<1>13. /\ done \in Recovery /\ done.latestSequence = M /\ done.highestObservedSequence = K
       /\ done.bootstrapped = r.bootstrapped /\ done.inFlight = "none"
  BY <1>8, ReplayCompletedFacts
<1>14. /\ NeedsReplay(done) \in BOOLEAN /\ ReplayMadeProgress(r) \in BOOLEAN
       /\ NeedsReplay(done) \/ K <= M
  BY <1>13 DEF NeedsReplay, ReplayMadeProgress, Recovery
<1> HIDE DEF done
<1>15. /\ c \in Recovery /\ c.latestSequence = M /\ c.highestObservedSequence = K
       /\ c.bootstrapped = TRUE /\ c.inFlight = "none"
  <2>1. done.bootstrapped = TRUE  BY <1>4, <1>6, <1>8, <1>13 DEF Recovery
  <2> QED  BY <1>13, <2>1, ResolvedFacts
<1> HIDE DEF c
<1>16. tracker \in Tracker  BY <1>1 DEF ClientTyped
<1>17. /\ decision.retry \in {"no", "now", "later"} /\ decision.tracker \in Tracker
       /\ decision.tracker.highest \in {0, K}
       /\ decision.retry = "no" /\ NeedsReplay(done) =>
            ~ ReplayMadeProgress(r) /\ tracker.attempts > 0 /\ tracker.highest = K
  BY <1>14, <1>15, <1>16, DecisionFacts
<1> HIDE DEF decision
<1>18. K \in Nat /\ M \in Nat /\ L <= M
  <2>1. M \in Nat /\ K \in Nat  BY <1>8 DEF Recovery
  <2> HIDE DEF L, M, K
  <2> QED  BY <1>4, <1>8, <2>1
<1> HIDE DEF L, H, s, M, K
<1>19. M <= K /\ K <= stored
  <2>1. /\ L \in Nat /\ H \in Nat /\ M \in Nat /\ stored \in Nat /\ L <= H /\ H <= stored
        /\ L <= M /\ M <= stored /\ K \in {H, Larger(H, M)} /\ (M > L => K = Larger(H, M))
    BY <1>4, <1>8, <1>10, <1>18
  <2> QED  BY <2>1, FlushSeen
<1>20. decision.retry = "no" => K <= M
  <2> SUFFICES ASSUME decision.retry = "no", NeedsReplay(done), K > M PROVE FALSE
    BY <1>14, <1>18
  <2>1. ~ (M > s) /\ tracker.attempts > 0 /\ tracker.highest = K  BY <1>12, <1>17
  <2>2. M = L /\ s = L  BY <1>4, <1>6, <1>18, <2>1
  <2>3. K > s  BY <2>2
  <2>4. answer # <<>>  BY <1>5, <2>1, <2>3
  <2>5. m > 0  BY <1>9, <2>2, <2>4
  <2> QED  BY <1>4, <1>8, <2>2, <2>5
<1>21. /\ co' \in Recovery /\ co'.latestSequence = M /\ co'.highestObservedSequence = K
       /\ co'.bootstrapped = TRUE /\ answer' \in Seq(Nat)
       /\ \/ co'.inFlight = "replay" /\ co'.replayStart = M /\ rpc' = "asked"
          \/ co'.inFlight = "none" /\ rpc' = "none" /\ decision.retry # "now"
  <2>1. CASE decision.retry = "now"
    <3>1. StartReplay(c)  BY <1>2, <2>1
    <3> QED  BY <1>5, <1>15, <3>1, StartFacts
  <2>2. CASE decision.retry # "now"
    <3>1. co' = c /\ rpc' = "none" /\ answer' = <<>>  BY <1>2, <2>2
    <3>2. answer' \in Seq(Nat)  BY <3>1, EmptySeq
    <3> QED  BY <1>15, <2>2, <3>1, <3>2
  <2> QED  BY <2>1, <2>2
<1>22. UNCHANGED <<buffer, base, received, stage, next, out>>
  BY <1>2 DEF stream, engine, merge
<1>23. timers \in Nat /\ timers' \in Nat  BY <1>1, <1>2 DEF ClientTyped
<1>24. rpc' \in {"none", "asked"}  BY <1>21
<1>25. tracker' \in Tracker /\ tracker'.highest \in {0, K}  BY <1>2, <1>17
<1>26. ClientTyped'
  BY <1>1, <1>3, <1>8, <1>21, <1>22, <1>23, <1>24, <1>25 DEF ClientTyped
<1>27. StoreIsPrefix'
  <2>1. base + Len(applied') = M  BY <1>4, <1>8, <1>11
  <2> QED  BY <1>3, <1>8, <1>21, <1>22, <2>1 DEF StoreIsPrefix, Position
<1>28. Flight'
  <2>1. M <= M  BY <1>18
  <2> QED  BY <1>21, <2>1 DEF Flight
<1>29. SnapshotFits' /\ ReplayFits'  BY <1>24 DEF SnapshotFits, ReplayFits
<1>30. Seen'
  <2>1. tracker'.highest <= stored  BY <1>4, <1>19, <1>25
  <2> QED  BY <1>3, <1>19, <1>21, <2>1 DEF Seen
<1>31. Waits'
  <2>1. /\ \A i, j \in DOMAIN buffer: i < j => buffer[i] < buffer[j]
        /\ \A i \in DOMAIN buffer: buffer[i] > L => buffer[i] = L + 1 /\ i = Len(buffer)
    BY <1>1 DEF Waits, L
  <2>2. ASSUME NEW i \in DOMAIN buffer, buffer[i] > M
        PROVE  buffer[i] = M + 1 /\ i = Len(buffer)
    <3>1. buffer[i] \in Nat  BY <1>4
    <3>2. buffer[i] > L  BY <1>4, <1>18, <2>2, <3>1
    <3>3. buffer[i] = L + 1 /\ i = Len(buffer)  BY <2>1, <3>2
    <3> QED  BY <1>4, <1>18, <2>2, <3>3
  <2> QED  BY <1>21, <1>22, <2>1, <2>2 DEF Waits
<1>32. Ahead'  BY <1>1, <1>22 DEF Ahead
<1>33. Accounted'
  <2>1. CASE co'.inFlight = "replay"  BY <2>1 DEF Accounted
  <2>2. CASE decision.retry = "no"  BY <1>20, <1>21, <2>2 DEF Accounted
  <2>3. CASE decision.retry = "later"
    <3>1. timers' # 0  BY <1>2, <1>23, <2>3
    <3> QED  BY <3>1 DEF Accounted
  <2> QED  BY <1>17, <1>21, <2>1, <2>2, <2>3
<1>34. Moves  BY <1>3, <1>18, <1>21 DEF Moves, L
<1> QED
  BY <1>3, <1>26, <1>27, <1>28, <1>29, <1>30, <1>31, <1>32, <1>33, <1>34 DEF Inv

(* A step that only starts or ends a request: the store, what was seen and   *)
(* what waits stay, and either no answer is there or it still fits.          *)
LEMMA RequestKeeps ==
  ASSUME Inv, UNCHANGED <<stream, buffer, base, applied, received>>,
         co' \in Recovery, co'.latestSequence = co.latestSequence,
         co'.highestObservedSequence = co.highestObservedSequence,
         tracker' \in Tracker, tracker'.highest \in {0, tracker.highest},
         rpc' \in {"none", "asked", "answered"}, answer' \in Seq(Nat), timers' \in Nat,
         Flight', SnapshotFits', ReplayFits', Accounted'
  PROVE  Inv' /\ Moves
<1>1. StreamInv /\ ClientTyped /\ StoreIsPrefix /\ Seen /\ Waits /\ Ahead  BY DEF Inv
<1>2. StreamInv' /\ stored' = stored  BY <1>1, SameStream
<1>3. UNCHANGED <<stage, next, out>>  BY DEF stream, engine, merge
<1>4. stored \in Nat /\ co.latestSequence \in Nat  BY Facts
<1>5. ClientTyped'  BY <1>1, <1>2 DEF ClientTyped
<1>6. StoreIsPrefix'  BY <1>1, <1>2 DEF StoreIsPrefix, Position
<1>7. Seen'  BY <1>1, <1>2, <1>4 DEF Seen
<1>8. Waits'  BY <1>1 DEF Waits
<1>9. Ahead'  BY <1>1, <1>3 DEF Ahead
<1>10. Moves  BY <1>2, <1>4 DEF Moves
<1> QED  BY <1>2, <1>5, <1>6, <1>7, <1>8, <1>9, <1>10 DEF Inv

LEMMA TimerKeeps == ASSUME Inv, ReplayTimer PROVE Inv' /\ Moves
<1>1. ClientTyped /\ Flight /\ SnapshotFits /\ ReplayFits  BY DEF Inv
<1>2. /\ timers > 0 /\ timers' = timers - 1 /\ StartReplay(co)
      /\ UNCHANGED <<stream, tracker, buffer, base, applied, received>>
  BY DEF ReplayTimer, store
<1>3. /\ co \in Recovery /\ tracker \in Tracker /\ timers \in Nat /\ answer \in Seq(Nat)
      /\ rpc \in {"none", "asked", "answered"}
  BY <1>1 DEF ClientTyped
<1>4. co.latestSequence \in Nat  BY Facts
<1>5. timers' \in Nat  BY <1>2, <1>3
<1>6. stored' = stored  BY <1>2 DEF stream, engine
<1>7. /\ co' \in Recovery /\ co'.latestSequence = co.latestSequence
      /\ co'.highestObservedSequence = co.highestObservedSequence
      /\ co'.bootstrapped = co.bootstrapped
      /\ answer' \in Seq(Nat)
      /\ \/ /\ co.bootstrapped /\ co.inFlight = "none"
            /\ co'.inFlight = "replay" /\ co'.replayStart = co.latestSequence
            /\ rpc' = "asked"
         \/ /\ ~ (co.bootstrapped /\ co.inFlight = "none")
            /\ co'.inFlight = co.inFlight /\ co'.replayStart = co.replayStart
            /\ rpc' = rpc /\ answer' = answer
  BY <1>2, <1>3, StartFacts
<1>8. Flight'  BY <1>1, <1>4, <1>7 DEF Flight
<1>9. SnapshotFits' /\ ReplayFits'
  BY <1>1, <1>2, <1>6, <1>7 DEF SnapshotFits, ReplayFits
<1>10. Accounted'  BY <1>7 DEF Accounted
<1>11. rpc' \in {"none", "asked", "answered"}  BY <1>3, <1>7
<1>12. tracker' \in Tracker /\ tracker'.highest = tracker.highest  BY <1>2, <1>3
<1> QED  BY <1>2, <1>5, <1>7, <1>8, <1>9, <1>10, <1>11, <1>12, RequestKeeps

LEMMA FailsKeeps ==
  ASSUME Inv, SnapshotFails \/ ReplayFails \/ EnsureBootstrapped PROVE Inv' /\ Moves
<1>1. ClientTyped /\ Flight  BY DEF Inv
<1>2. /\ co \in Recovery /\ tracker \in Tracker /\ timers \in Nat /\ co.latestSequence \in Nat
      /\ co.bootstrapped \in BOOLEAN
  BY <1>1, Facts DEF ClientTyped
<1>3. /\ UNCHANGED <<stream, buffer, base, applied, received, timers>>
      /\ answer' = <<>>
  BY DEF SnapshotFails, ReplayFails, EnsureBootstrapped, Fail, store
<1>4. answer' \in Seq(Nat) /\ timers' \in Nat  BY <1>2, <1>3, EmptySeq
<1>5. NoTracker \in Tracker /\ NoTracker.highest = 0  BY DEF NoTracker, Tracker
<1>6. /\ co' \in Recovery /\ co'.latestSequence = co.latestSequence
      /\ co'.highestObservedSequence = co.highestObservedSequence
      /\ co'.bootstrapped = FALSE
      /\ \/ co'.inFlight = "snapshot" /\ rpc' = "asked"
         \/ co'.inFlight = "none" /\ rpc' = "none"
      /\ tracker' \in {tracker, NoTracker}
  <2>1. CASE SnapshotFails
    <3>1. /\ co.inFlight = "snapshot" /\ co' = SnapshotFailed(co) /\ rpc' = "none"
          /\ tracker' = tracker
      BY <2>1 DEF SnapshotFails
    <3>2. ~ co.bootstrapped  BY <1>1, <3>1 DEF Flight
    <3> QED  BY <1>2, <3>1, <3>2 DEF SnapshotFailed, Recovery
  <2>2. CASE ReplayFails
    <3> DEFINE r == ReplayFailed(co)
    <3>1. co' = Begun(r, "snapshot") /\ rpc' = "asked" /\ tracker' = NoTracker
      BY <2>2 DEF ReplayFails
    <3>2. /\ r \in Recovery /\ r.latestSequence = co.latestSequence
          /\ r.highestObservedSequence = co.highestObservedSequence
          /\ r.bootstrapped = FALSE /\ r.inFlight = "none"
      BY <1>2 DEF ReplayFailed, Recovery
    <3> HIDE DEF r
    <3>3. MayBegin(r, "snapshot")  BY <3>2 DEF MayBegin
    <3> QED  BY <3>1, <3>2, <3>3, BegunFacts
  <2>3. CASE EnsureBootstrapped
    <3>1. /\ ~ co.bootstrapped /\ co.inFlight = "none" /\ co' = Begun(co, "snapshot")
          /\ rpc' = "asked" /\ tracker' = tracker
      BY <2>3 DEF EnsureBootstrapped
    <3>2. MayBegin(co, "snapshot")  BY <3>1 DEF MayBegin
    <3> QED  BY <1>2, <3>1, <3>2, BegunFacts
  <2> QED  BY <2>1, <2>2, <2>3
<1>7. Flight'  BY <1>6 DEF Flight
<1>8. SnapshotFits' /\ ReplayFits'  BY <1>6 DEF SnapshotFits, ReplayFits
<1>9. Accounted'  BY <1>6 DEF Accounted
<1>10. tracker' \in Tracker /\ tracker'.highest \in {0, tracker.highest}
  BY <1>2, <1>5, <1>6
<1>11. rpc' \in {"none", "asked", "answered"}  BY <1>6
<1> QED  BY <1>3, <1>4, <1>6, <1>7, <1>8, <1>9, <1>10, <1>11, RequestKeeps

LEMMA ResubscribeKeeps == ASSUME Inv, Resubscribe PROVE Inv' /\ Moves
<1>1. /\ StreamInv /\ ClientTyped /\ StoreIsPrefix /\ Flight /\ SnapshotFits /\ ReplayFits
      /\ Seen /\ Waits /\ Ahead /\ Accounted
  BY DEF Inv
<1>2. /\ stage = "closed" /\ stage' = "asked"
      /\ UNCHANGED <<stored, published, next, pending, replay, live, out, breaks, tracker,
                     base, timers, received>>
  BY DEF Resubscribe, engine, merge
<1>3. StreamInv'
  <2>1. out = <<>> /\ StreamTypeOK  BY <1>1, <1>2 DEF StreamInv
  <2>2. StreamTypeOK'  BY <1>2, <2>1 DEF StreamTypeOK
  <2>3. EmitsInOrder'  BY <1>1, <1>2 DEF StreamInv, EmitsInOrder
  <2> QED  BY <1>1, <1>2, <2>1, <2>2, <2>3 DEF StreamInv
<1>4. CASE ~ received
  <2>1. UNCHANGED <<co, buffer, applied, rpc, answer>>  BY <1>4 DEF Resubscribe
  <2>2. buffer' = <<>>  BY <1>1, <1>4, <2>1 DEF Ahead
  <2>3. Waits' /\ Ahead'  BY <2>2, EmptyBuffer
  <2>4. ClientTyped' /\ StoreIsPrefix'
    BY <1>1, <1>2, <2>1 DEF ClientTyped, StoreIsPrefix, Position
  <2>5. Flight' /\ SnapshotFits' /\ ReplayFits' /\ Seen' /\ Accounted'
    BY <1>1, <1>2, <2>1 DEF Flight, SnapshotFits, ReplayFits, Seen, Accounted
  <2>6. Moves
    <3>1. stored <= stored'  BY <1>2, Facts
    <3> QED  BY <2>1, <3>1 DEF Moves
  <2> QED  BY <1>3, <2>3, <2>4, <2>5, <2>6 DEF Inv
<1>5. CASE received
  <2> DEFINE d == Flushed(co)
  <2>1. FlushBuffer /\ StartReplay(d)  BY <1>5 DEF Resubscribe
  <2>2. /\ d \in Recovery /\ d.latestSequence \in Nat
        /\ co.latestSequence <= d.latestSequence
        /\ d.latestSequence <= d.highestObservedSequence
        /\ d.highestObservedSequence <= stored
        /\ d.bootstrapped = co.bootstrapped /\ d.inFlight = co.inFlight
        /\ d.replayStart = co.replayStart
        /\ buffer' = <<>> /\ applied' \in Seq(Nat)
        /\ base + Len(applied') = d.latestSequence
        /\ \A i \in DOMAIN applied': applied'[i] = base + i
        /\ rpc = "answered" /\ co.inFlight = "snapshot" => d.latestSequence <= answer[1]
    BY <1>2, <2>1, FlushedCo
  <2> HIDE DEF d
  <2>3. answer \in Seq(Nat) /\ rpc \in {"none", "asked", "answered"}
    BY <1>1 DEF ClientTyped
  <2>4. /\ co' \in Recovery /\ co'.latestSequence = d.latestSequence
        /\ co'.highestObservedSequence = d.highestObservedSequence
        /\ co'.bootstrapped = d.bootstrapped
        /\ answer' \in Seq(Nat)
        /\ \/ /\ d.bootstrapped /\ d.inFlight = "none"
              /\ co'.inFlight = "replay" /\ co'.replayStart = d.latestSequence
              /\ rpc' = "asked"
           \/ /\ ~ (d.bootstrapped /\ d.inFlight = "none")
              /\ co'.inFlight = d.inFlight /\ co'.replayStart = d.replayStart
              /\ rpc' = rpc /\ answer' = answer
    BY <2>1, <2>2, <2>3, StartFacts
  <2>5. /\ stored \in Nat /\ co.latestSequence \in Nat /\ co.replayStart \in Nat
        /\ d.highestObservedSequence \in Nat
    BY <2>2, Facts DEF Recovery
  <2>6. ClientTyped'
    <3>1. buffer' \in Seq(1 .. stored')  BY <2>2, EmptySeq
    <3>2. rpc' \in {"none", "asked", "answered"}  BY <2>3, <2>4
    <3> QED  BY <1>1, <1>2, <2>2, <2>4, <3>1, <3>2 DEF ClientTyped
  <2>7. StoreIsPrefix'
    <3>1. d.latestSequence <= stored  BY <2>2, <2>5
    <3> QED  BY <1>2, <2>2, <2>4, <3>1 DEF StoreIsPrefix, Position
  <2>8. Flight'  BY <1>1, <2>2, <2>4, <2>5 DEF Flight
  <2>9. SnapshotFits'
    <3>1. DOMAIN buffer' = {}  BY <2>2, EmptySeq
    <3>2. CASE rpc' = "asked"  BY <3>2 DEF SnapshotFits
    <3>3. CASE /\ co'.inFlight = co.inFlight /\ rpc' = rpc /\ answer' = answer
      BY <1>1, <1>2, <2>2, <2>4, <3>1, <3>3 DEF SnapshotFits
    <3> QED  BY <2>2, <2>4, <3>2, <3>3
  <2>10. ReplayFits'
    <3>1. CASE rpc' = "asked"  BY <3>1 DEF ReplayFits
    <3>2. CASE /\ co'.inFlight = co.inFlight /\ co'.replayStart = co.replayStart
               /\ rpc' = rpc /\ answer' = answer
      BY <1>1, <1>2, <3>2 DEF ReplayFits
    <3> QED  BY <2>2, <2>4, <3>1, <3>2
  <2>11. Seen'  BY <1>1, <1>2, <2>2, <2>4 DEF Seen
  <2>12. Waits' /\ Ahead'  BY <2>2, EmptyBuffer
  <2>13. Accounted'  BY <2>4 DEF Accounted
  <2>14. Moves  BY <1>2, <2>2, <2>4 DEF Moves
  <2> QED
    BY <1>3, <2>6, <2>7, <2>8, <2>9, <2>10, <2>11, <2>12, <2>13, <2>14 DEF Inv
<1> QED  BY <1>4, <1>5

LEMMA BreaksKeep == ASSUME Inv, ConnectionBreaks PROVE Inv' /\ Moves
<1>1. /\ StreamInv /\ ClientTyped /\ StoreIsPrefix /\ Flight /\ Seen /\ Waits /\ Ahead
      /\ Accounted
  BY DEF Inv
<1>2. /\ Break /\ rpc' = IF rpc = "answered" THEN "asked" ELSE rpc
      /\ answer' = <<>>
      /\ UNCHANGED <<co, tracker, buffer, base, applied, timers, received>>
  BY DEF ConnectionBreaks, store
<1>3. StreamInv' /\ stored' = stored /\ stage' = "closed"  BY <1>1, <1>2, BreakInv DEF Break
<1>4. rpc' \in {"none", "asked"} /\ (rpc' = "none" <=> rpc = "none")
  BY <1>1, <1>2 DEF ClientTyped
<1>5. answer' \in Seq(Nat)  BY <1>2, EmptySeq
<1>6. ClientTyped'  BY <1>1, <1>2, <1>3, <1>4, <1>5 DEF ClientTyped
<1>7. StoreIsPrefix'  BY <1>1, <1>2, <1>3 DEF StoreIsPrefix, Position
<1>8. Flight' /\ SnapshotFits' /\ ReplayFits'
  BY <1>1, <1>2, <1>4 DEF Flight, SnapshotFits, ReplayFits
<1>9. Seen' /\ Waits' /\ Accounted'  BY <1>1, <1>2, <1>3 DEF Seen, Waits, Accounted
<1>10. Ahead'  BY <1>1, <1>2, <1>3 DEF Ahead
<1>11. Moves
  <2>1. stored <= stored'  BY <1>3, Facts
  <2> QED  BY <1>2, <2>1 DEF Moves
<1> QED  BY <1>3, <1>6, <1>7, <1>8, <1>9, <1>10, <1>11 DEF Inv

LEMMA StutterKeeps == ASSUME Inv, UNCHANGED vars PROVE Inv' /\ Moves
<1>1. /\ UNCHANGED <<stream, co, tracker, buffer, base, applied, rpc, answer, timers, received>>
      /\ stored' = stored
  BY DEF vars, client, store, stream, engine
<1>2. StreamInv'  BY <1>1, SameStream DEF Inv
<1>3. UNCHANGED <<stage, next, out>>  BY <1>1 DEF stream, engine, merge
<1>4. Moves
  <2>1. stored <= stored'  BY <1>1, Facts
  <2> QED  BY <1>1, <2>1 DEF Moves
<1>5. ClientTyped' /\ StoreIsPrefix' /\ Flight'
  BY <1>1 DEF Inv, ClientTyped, StoreIsPrefix, Position, Flight
<1>6. SnapshotFits' /\ ReplayFits' /\ Seen'  BY <1>1 DEF Inv, SnapshotFits, ReplayFits, Seen
<1>7. Waits' /\ Ahead' /\ Accounted'  BY <1>1, <1>3 DEF Inv, Waits, Ahead, Accounted
<1> QED  BY <1>2, <1>4, <1>5, <1>6, <1>7 DEF Inv

LEMMA StepInv == Inv /\ [Next]_vars => Inv' /\ Moves
BY StreamKeeps, DeliverKeeps, DeliverGapKeeps, FlushKeeps, RespondKeeps, SnapshotKeeps,
   ReplayKeeps, TimerKeeps, FailsKeeps, ResubscribeKeeps, BreaksKeep, StutterKeeps DEF Next

(******************************* Theorems **********************************)
(* The invariant of the recovery holds for any number of events, pages,      *)
(* broken connections, retries and failures.                                 *)
THEOREM Invariance == Spec => []Inv
BY InitInv, StepInv, PTL DEF Spec

(* Every variable keeps its type, the sequences of the client included: what *)
(* it buffers was stored by the server.                                      *)
THEOREM SyncTypeCorrect == Spec => []TypeOK
<1> DEFINE Counted == failures \in 0 .. MaxFailures
<1>1. Init => Counted  BY SyncAssumption DEF Init
<1>2. Counted /\ [Next]_vars => Counted'
  <2> SUFFICES ASSUME Counted, [Next]_vars PROVE Counted'
    OBVIOUS
  <2>1. CASE Fail  BY <2>1, SyncAssumption DEF Fail
  <2>2. CASE ~ Fail
    <3>1. failures' = failures
      BY <2>2 DEF Next, vars, client, Deliver, DeliverGap, Receive, Flush, Respond,
        SnapshotArrives, ReplayArrives, ReplayTimer, SnapshotFails, ReplayFails,
        EnsureBootstrapped, Resubscribe, ConnectionBreaks
    <3> QED  BY <3>1
  <2> QED  BY <2>1, <2>2
<1>3. Inv /\ Counted => TypeOK  BY DEF Inv, StreamInv, TypeOK
<1> QED  BY <1>1, <1>2, <1>3, Invariance, PTL DEF Spec

(* subscribeOrchestrationDomainEvents emits every event behind its fence     *)
(* once and in order, whatever the overlap of the replay and the live stream.*)
THEOREM StreamInOrder == Spec => []EmitsInOrder
<1>1. Inv => EmitsInOrder  BY DEF Inv, StreamInv
<1> QED  BY <1>1, Invariance, PTL

(* The client's store is a snapshot and every event after it once and in     *)
(* order, and latestSequence is where it stands.                             *)
THEOREM StoreFollowsServer == Spec => []StoreIsPrefix
<1>1. Inv => StoreIsPrefix  BY DEF Inv
<1> QED  BY <1>1, Invariance, PTL

(* When nothing is under way, the client has applied all it observed.        *)
THEOREM NothingForgotten == Spec => []NothingObservedIsForgotten
<1>1. Inv => NothingObservedIsForgotten
  <2> SUFFICES ASSUME Inv, co.bootstrapped, co.inFlight = "none", timers = 0, buffer = <<>>
               PROVE  co.latestSequence = co.highestObservedSequence
    BY DEF NothingObservedIsForgotten
  <2>1. DOMAIN buffer = {}  BY EmptySeq
  <2>2. co.highestObservedSequence <= co.latestSequence  BY <2>1 DEF Inv, Accounted
  <2>3. co.latestSequence <= co.highestObservedSequence  BY DEF Inv, Seen
  <2> QED  BY <2>2, <2>3, Facts
<1> QED  BY <1>1, Invariance, PTL

(* The client's copy implements the abstract replica: it reflects a prefix   *)
(* of what the server committed, and that prefix only grows.                 *)
THEOREM ReplicaImplemented == Spec => ImplementsReplica
<1>1. Init => R!Init
  <2> SUFFICES ASSUME Init PROVE stored = 0 /\ base + Len(applied) = 0
    BY DEF R!Init, Position
  <2>1. Len(applied) = 0  BY EmptySeq DEF Init
  <2> QED  BY <2>1 DEF Init, StreamInit
<1>2. Inv /\ Inv' /\ Moves => [R!Grow \/ R!CatchUp]_R!vars
  <2> SUFFICES ASSUME Inv, Inv', Moves PROVE [R!Grow \/ R!CatchUp]_R!vars
    OBVIOUS
  <2> DEFINE P == Position
  <2>1. /\ P = co.latestSequence /\ P' = co'.latestSequence
        /\ P \in Nat /\ P' \in Nat /\ P' <= stored' /\ stored \in Nat /\ stored' \in Nat
    <3>1. P = co.latestSequence /\ P' = co'.latestSequence /\ P' <= stored'
      BY DEF Inv, StoreIsPrefix
    <3>2. co \in Recovery /\ co' \in Recovery /\ stored \in Nat /\ stored' \in Nat
      BY DEF Inv, ClientTyped, StreamInv, StreamTypeOK
    <3> QED  BY <3>1, <3>2 DEF Recovery
  <2>2. \/ stored <= stored' /\ P' = P
        \/ stored = stored' /\ P <= P'
    BY <2>1 DEF Moves
  <2> HIDE DEF P
  <2>3. \/ stored' > stored /\ P' = P
        \/ P' \in (P + 1) .. stored /\ stored' = stored
        \/ stored' = stored /\ P' = P
    BY <2>1, <2>2
  <2> QED  BY <2>3 DEF P, R!Grow, R!CatchUp, R!vars
<1> QED  BY <1>1, <1>2, StepInv, Invariance, PTL DEF Spec, ImplementsReplica, R!Spec
=============================================================================
