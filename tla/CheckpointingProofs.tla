------------------------ MODULE CheckpointingProofs -------------------------
(***************************************************************************)
(* What Checkpointing promises, for any number of turns, reported diffs,   *)
(* reverts and failures.                                                   *)
(*                                                                         *)
(* The proofs go up in layers.  First the operators: what selecting from,  *)
(* upserting into and cutting a list of checkpoints returns, what an event *)
(* makes of the thread of the read model and of the SQL rows, and from     *)
(* these what a dispatch of each kind does.  Every action then keeps the   *)
(* type invariant and leaves the checkpoints as they are (Still), records  *)
(* one (Recorded) or takes those past a count away (RevertedTo).  On these *)
(* three effects stand the invariants, one for each promise:               *)
(*   Answers        a request is in the queue, being worked on or ended    *)
(*   AllRestorable  a checkpoint has its ref, unless its revert is torn    *)
(*   Numbered       the next capture takes the next number                 *)
(*   Based          what is captured follows counts that have refs         *)
(*   Told           one turn after the other, each with its checkpoint     *)
(*   FilesKept      the files are those of the last checkpoint             *)
(* All but the first two of them need that the list is never cut: the code *)
(* keeps the newest MaxCheckpoints (500) of a thread, which has at most    *)
(* one for each turn, so the hypothesis is MaxTurns <= MaxCheckpoints.     *)
(* The last two are about a user who waits until all is processed (Calm),  *)
(* and assume that the null of the model is no event (None is not in       *)
(* Seen), so that whether the ingestion holds one can be told.  On them    *)
(* rests what CheckpointMessagesProofs shows of the messages.              *)
(***************************************************************************)
EXTENDS Checkpointing, SequenceTheorems, FiniteSetTheorems, WellFoundedInduction, TLAPS

(************************ Sequences, selected from *************************)
LEMMA Least ==
  ASSUME NEW T, T \subseteq Nat, T # {} PROVE \E x \in T: \A y \in T: x <= y
<1> DEFINE Order == OpToRel(<, Nat)
<1>1. Order = {p \in Nat \X Nat: p[1] < p[2]}  BY DEF OpToRel
<1>2. IsWellFoundedOn(Order, Nat)  BY NatLessThanWellFounded
<1> HIDE DEF Order
<1>3. PICK x \in T: \A y \in T: ~ (<<y, x>> \in Order)  BY <1>2, WFMin
<1>4. ASSUME NEW y \in T PROVE x <= y
  <2>1. x \in Nat /\ y \in Nat  OBVIOUS
  <2>2. ~ (y < x)  BY <1>1, <1>3, <2>1
  <2> QED  BY <2>1, <2>2
<1> QED  BY <1>4

(* Select, one entry after the other.                                        *)
LEMMA Selecting ==
  ASSUME NEW U, NEW s \in Seq(U), NEW S
  PROVE  \E f: /\ f[0] = <<>> /\ Select(s, S) = f[Len(s)]
               /\ \A n \in 1 .. Len(s):
                    f[n] = IF s[n] \in S THEN Append(f[n - 1], s[n]) ELSE f[n - 1]
<1> DEFINE Entry(f, n) == IF n = 0 THEN <<>>
                         ELSE IF s[n] \in S THEN Append(f[n - 1], s[n]) ELSE f[n - 1]
           Is(f, k) == f = [n \in 0 .. k |-> Entry(f, n)]
           Bad == {k \in Nat: ~ \E f: Is(f, k)}
<1>1. Len(s) \in Nat  OBVIOUS
<1>2. Bad = {}
  <2> SUFFICES ASSUME Bad # {} PROVE FALSE  OBVIOUS
  <2>1. Bad \subseteq Nat  OBVIOUS
  <2>2. \E k \in Bad: \A y \in Bad: k <= y
    <3> HIDE DEF Bad
    <3> QED  BY <2>1, Least
  <2>3. PICK k \in Bad: \A y \in Bad: k <= y  BY <2>2
  <2>4. CASE k = 0
    <3>1. PICK f: f = [n \in 0 .. 0 |-> <<>>]  OBVIOUS
    <3>2. Is(f, 0)  BY <3>1
    <3> QED  BY <2>3, <2>4, <3>2
  <2>5. CASE k # 0
    <3>1. k \in Nat /\ k - 1 \in Nat /\ k - 1 \notin Bad
      <4>1. k \in Nat  BY <2>1
      <4> HIDE DEF Bad
      <4> QED  BY <2>3, <2>5, <4>1
    <3>2. PICK f: Is(f, k - 1)  BY <3>1
    <3>3. PICK g: g = [n \in 0 .. k |-> Entry(f, n)]  OBVIOUS
    <3>4. \A n \in 0 .. k - 1: g[n] = f[n]
      <4> SUFFICES ASSUME NEW n \in 0 .. k - 1 PROVE g[n] = f[n]  OBVIOUS
      <4>1. n \in 0 .. k  BY <3>1
      <4>2. g[n] = Entry(f, n)  BY <3>3, <4>1
      <4>3. f[n] = Entry(f, n)  BY <3>2
      <4> QED  BY <4>2, <4>3
    <3>5. \A n \in 0 .. k: Entry(f, n) = Entry(g, n)
      <4> SUFFICES ASSUME NEW n \in 0 .. k, n # 0 PROVE Entry(f, n) = Entry(g, n)  OBVIOUS
      <4>1. n - 1 \in 0 .. k - 1  BY <3>1
      <4>2. g[n - 1] = f[n - 1]  BY <3>4, <4>1
      <4> QED  BY <4>2
    <3>6. g = [n \in 0 .. k |-> Entry(g, n)]  BY <3>3, <3>5
    <3> QED  BY <2>3, <3>6
  <2> QED  BY <2>4, <2>5
<1>3. \E f: Is(f, Len(s))  BY <1>1, <1>2
<1> DEFINE selected == CHOOSE f: Is(f, Len(s))
<1>4. Is(selected, Len(s))  BY <1>3
<1>5. Select(s, S) = selected[Len(s)]  BY DEF Select
<1> HIDE DEF selected
<1>6. selected[0] = <<>>  BY <1>1, <1>4
<1>7. \A n \in 1 .. Len(s): selected[n] = Entry(selected, n)
  <2> SUFFICES ASSUME NEW n \in 1 .. Len(s) PROVE selected[n] = Entry(selected, n)  OBVIOUS
  <2>1. n \in 0 .. Len(s)  BY <1>1
  <2> QED  BY <1>4, <2>1
<1> QED  BY <1>5, <1>6, <1>7

LEMMA UpTo ==
  ASSUME NEW L \in Nat, NEW T, 0 \in T, \A n \in 1 .. L: n - 1 \in T => n \in T
  PROVE  \A n \in 0 .. L: n \in T
<1> DEFINE Bad == (0 .. L) \ T
<1> SUFFICES ASSUME Bad # {} PROVE FALSE  OBVIOUS
<1>1. Bad \subseteq Nat  OBVIOUS
<1>2. \E k \in Bad: \A y \in Bad: k <= y
  <2> HIDE DEF Bad
  <2> QED  BY <1>1, Least
<1>3. PICK k \in Bad: \A y \in Bad: k <= y  BY <1>2
<1>4. k \in 1 .. L  OBVIOUS
<1>5. k - 1 \in T
  <2>1. k - 1 \in 0 .. L /\ ~ (k <= k - 1)  BY <1>4
  <2>2. k - 1 \notin Bad
    <3> HIDE DEF Bad
    <3> QED  BY <1>3, <2>1
  <2> QED  BY <2>1, <2>2
<1>6. k \notin T  OBVIOUS
<1> HIDE DEF Bad
<1> QED  BY <1>4, <1>5, <1>6

LEMMA SelectTyped ==
  ASSUME NEW U, NEW s \in Seq(U), NEW S
  PROVE  Select(s, S) \in Seq(U) /\ ToSet(Select(s, S)) = ToSet(s) \intersect S
<1>1. PICK f: /\ f[0] = <<>> /\ Select(s, S) = f[Len(s)]
              /\ \A n \in 1 .. Len(s):
                   f[n] = IF s[n] \in S THEN Append(f[n - 1], s[n]) ELSE f[n - 1]
  BY Selecting
<1> DEFINE Read(n) == {s[i]: i \in 1 .. n}
           T == {n \in 0 .. Len(s): f[n] \in Seq(U) /\ ToSet(f[n]) = Read(n) \intersect S}
<1>2. Len(s) \in Nat /\ DOMAIN s = 1 .. Len(s)  OBVIOUS
<1>3. 0 \in T
  <2>1. ToSet(<<>>) = {}  BY DEF ToSet
  <2>2. f[0] \in Seq(U) /\ ToSet(f[0]) = {} /\ Read(0) = {}  BY <1>1, <2>1
  <2> QED  BY <1>2, <2>2
<1>4. ASSUME NEW n \in 1 .. Len(s), n - 1 \in T PROVE n \in T
  <2>1. f[n - 1] \in Seq(U) /\ ToSet(f[n - 1]) = Read(n - 1) \intersect S  BY <1>4
  <2>2. s[n] \in U /\ n \in Nat /\ n \in 0 .. Len(s)  BY <1>2
  <2>3. Read(n) = Read(n - 1) \union {s[n]}
    <3>1. 1 .. n = (1 .. (n - 1)) \union {n}  BY <2>2
    <3> QED  BY <3>1
  <2>4. CASE s[n] \in S
    <3>1. f[n] = Append(f[n - 1], s[n])  BY <1>1, <2>4
    <3>2. f[n] \in Seq(U)  BY <2>1, <2>2, <3>1
    <3>3. ToSet(Append(f[n - 1], s[n])) = ToSet(f[n - 1]) \union {s[n]}
      <4>1. PICK g \in Seq(U): g = f[n - 1]  BY <2>1
      <4>2. PICK x \in U: x = s[n]  BY <2>2
      <4>3. ToSet(Append(g, x)) = ToSet(g) \union {x}
        <5>1. DOMAIN Append(g, x) = (1 .. Len(g)) \union {Len(g) + 1}  OBVIOUS
        <5>2. \A i \in 1 .. Len(g): Append(g, x)[i] = g[i]  OBVIOUS
        <5>3. Append(g, x)[Len(g) + 1] = x  OBVIOUS
        <5>4. DOMAIN g = 1 .. Len(g)  OBVIOUS
        <5> QED  BY <5>1, <5>2, <5>3, <5>4 DEF ToSet
      <4> QED  BY <4>1, <4>2, <4>3
    <3> QED  BY <2>1, <2>2, <2>3, <2>4, <3>1, <3>2, <3>3
  <2>5. CASE s[n] \notin S
    <3>1. f[n] = f[n - 1]  BY <1>1, <2>5
    <3> QED  BY <2>1, <2>2, <2>3, <2>5, <3>1
  <2> QED  BY <2>4, <2>5
<1> HIDE DEF T
<1>5. \A n \in 1 .. Len(s): n - 1 \in T => n \in T  BY <1>4
<1>8. \A n \in 0 .. Len(s): n \in T  BY <1>2, <1>3, <1>5, UpTo
<1>9. Len(s) \in T  BY <1>2, <1>8
<1>6. ToSet(s) = Read(Len(s))  BY <1>2 DEF ToSet
<1> QED  BY <1>1, <1>9, <1>6 DEF T

LEMMA SelectPrefix ==
  ASSUME NEW U, NEW s \in Seq(U), NEW S, NEW k \in 0 .. Len(s),
         \A i \in 1 .. k: s[i] \in S, \A i \in k + 1 .. Len(s): s[i] \notin S
  PROVE  Select(s, S) = SubSeq(s, 1, k)
<1>1. PICK f: /\ f[0] = <<>> /\ Select(s, S) = f[Len(s)]
              /\ \A n \in 1 .. Len(s):
                   f[n] = IF s[n] \in S THEN Append(f[n - 1], s[n]) ELSE f[n - 1]
  BY Selecting
<1> DEFINE T == {n \in 0 .. Len(s): 
                         /\ n <= k => f[n] = SubSeq(s, 1, n)
                         /\ n > k => f[n] = SubSeq(s, 1, k)}
<1>2. Len(s) \in Nat /\ DOMAIN s = 1 .. Len(s) /\ k \in Nat /\ k <= Len(s)  OBVIOUS
<1>3. 0 \in T
  <2>1. SubSeq(s, 1, 0) = <<>>  BY SubSeqEmpty
  <2>2. f[0] = SubSeq(s, 1, 0) /\ ~ (0 > k) /\ 0 \in 0 .. Len(s)  BY <1>1, <1>2, <2>1
  <2> QED  BY <2>2
<1>4. ASSUME NEW n \in 1 .. Len(s), n - 1 \in T PROVE n \in T
  <2>1. /\ n - 1 <= k => f[n - 1] = SubSeq(s, 1, n - 1)
        /\ n - 1 > k => f[n - 1] = SubSeq(s, 1, k)
    BY <1>4
  <2>2. CASE n <= k
    <3>4. n - 1 <= k /\ s[n] \in S  BY <1>2, <2>2
    <3>1. f[n] = Append(SubSeq(s, 1, n - 1), s[n])  BY <1>1, <2>1, <3>4
    <3>2. Append(SubSeq(s, 1, n - 1), s[n]) = SubSeq(s, 1, n)  OBVIOUS
    <3>3. n \in 0 .. Len(s) /\ ~ (n > k)  BY <1>2, <2>2
    <3> QED  BY <2>2, <3>1, <3>2, <3>3
  <2>3. CASE ~ (n <= k)
    <3>1. f[n] = f[n - 1]  BY <1>1, <1>2, <2>3
    <3>2. f[n - 1] = SubSeq(s, 1, k)
      <4>1. CASE n - 1 = k  BY <1>2, <2>1, <4>1
      <4>2. CASE n - 1 # k  BY <1>2, <2>1, <2>3, <4>2
      <4> QED  BY <4>1, <4>2
    <3>3. n \in 0 .. Len(s)  BY <1>2
    <3> QED  BY <1>2, <2>3, <3>1, <3>2, <3>3
  <2> QED  BY <2>2, <2>3
<1> HIDE DEF T
<1>5. \A n \in 1 .. Len(s): n - 1 \in T => n \in T  BY <1>4
<1>8. \A n \in 0 .. Len(s): n \in T  BY <1>2, <1>3, <1>5, UpTo
<1>9. Len(s) \in T  BY <1>2, <1>8
<1>6. CASE Len(s) = k  BY <1>1, <1>2, <1>9, <1>6 DEF T
<1>7. CASE Len(s) # k
  <2>2. \A a, b \in Nat: a <= b /\ b # a => b > a  OBVIOUS
  <2>1. Len(s) > k  BY <1>2, <1>7, <2>2
  <2> QED  BY <1>1, <1>9, <2>1 DEF T
<1> QED  BY <1>6, <1>7

LEMMA SelectAll ==
  ASSUME NEW U, NEW s \in Seq(U), NEW S, ToSet(s) \subseteq S
  PROVE  Select(s, S) = s
<1>1. Len(s) \in Nat /\ DOMAIN s = 1 .. Len(s)  OBVIOUS
<1>2. \A i \in 1 .. Len(s): s[i] \in S  BY <1>1 DEF ToSet
<1>3. Select(s, S) = SubSeq(s, 1, Len(s))
  <2>1. Len(s) \in 0 .. Len(s) /\ \A i \in Len(s) + 1 .. Len(s): s[i] \notin S  BY <1>1
  <2> QED  BY <1>2, <2>1, SelectPrefix
<1> QED  BY <1>3

LEMMA SelectNone ==
  ASSUME NEW U, NEW s \in Seq(U), NEW S, ToSet(s) \intersect S = {}
  PROVE  Select(s, S) = <<>>
<1>1. Len(s) \in Nat /\ DOMAIN s = 1 .. Len(s)  OBVIOUS
<1>2. \A i \in 1 .. Len(s): s[i] \notin S  BY <1>1 DEF ToSet
<1>3. Select(s, S) = SubSeq(s, 1, 0)
  <2>1. 0 \in 0 .. Len(s) /\ \A i \in 1 .. 0: s[i] \in S  BY <1>1
  <2> QED  BY <1>2, <2>1, SelectPrefix
<1> QED  BY <1>3, SubSeqEmpty

LEMMA SelectInjective ==
  ASSUME NEW U, NEW s \in Seq(U), NEW S,
         \A i, j \in 1 .. Len(s): s[i] = s[j] => i = j
  PROVE  \A i, j \in 1 .. Len(Select(s, S)): Select(s, S)[i] = Select(s, S)[j] => i = j
<1>1. PICK f: /\ f[0] = <<>> /\ Select(s, S) = f[Len(s)]
              /\ \A n \in 1 .. Len(s):
                   f[n] = IF s[n] \in S THEN Append(f[n - 1], s[n]) ELSE f[n - 1]
  BY Selecting
<1> DEFINE T == {n \in 0 .. Len(s): /\ f[n] \in Seq(U)
                                    /\ \A i \in 1 .. Len(f[n]): \E m \in 1 .. n: f[n][i] = s[m]
                                    /\ \A i, j \in 1 .. Len(f[n]): f[n][i] = f[n][j] => i = j}
<1>2. Len(s) \in Nat /\ DOMAIN s = 1 .. Len(s)  OBVIOUS
<1>3. 0 \in T
  <2>1. f[0] \in Seq(U) /\ Len(f[0]) = 0  BY <1>1
  <2> QED  BY <1>2, <2>1
<1>4. ASSUME NEW n \in 1 .. Len(s), n - 1 \in T PROVE n \in T
  <2>1. PICK g \in Seq(U): g = f[n - 1]  BY <1>4
  <2>2. /\ \A i \in 1 .. Len(g): \E m \in 1 .. (n - 1): g[i] = s[m]
        /\ \A i, j \in 1 .. Len(g): g[i] = g[j] => i = j
    BY <1>4, <2>1
  <2>3. CASE s[n] \in S
    <3>1. f[n] = Append(g, s[n])  BY <1>1, <2>1, <2>3
    <3>2. s[n] \in U /\ n \in 0 .. Len(s)  BY <1>2
    <3>3. PICK h \in Seq(U): h = Append(g, s[n])
      <4>1. PICK x \in U: x = s[n]  BY <3>2
      <4>2. Append(g, x) \in Seq(U)  OBVIOUS
      <4> QED  BY <4>1, <4>2
    <3>4. Len(h) = Len(g) + 1 /\ h[Len(g) + 1] = s[n] /\ \A i \in 1 .. Len(g): h[i] = g[i]
      BY <3>2, <3>3
    <3>5. \A i \in 1 .. Len(g): g[i] # s[n]
      <4> SUFFICES ASSUME NEW i \in 1 .. Len(g), g[i] = s[n] PROVE FALSE  OBVIOUS
      <4>1. PICK m \in 1 .. (n - 1): g[i] = s[m]  BY <2>2
      <4>2. m \in 1 .. Len(s) /\ m # n /\ s[m] = s[n]  BY <1>2, <4>1
      <4> QED  BY <4>2
    <3>6. \A i \in 1 .. Len(h): \E m \in 1 .. n: h[i] = s[m]
      <4> SUFFICES ASSUME NEW i \in 1 .. Len(h) PROVE \E m \in 1 .. n: h[i] = s[m]  OBVIOUS
      <4>1. CASE i \in 1 .. Len(g)  BY <2>2, <3>4, <4>1
      <4>2. CASE i = Len(g) + 1  BY <3>4, <4>2
      <4> QED  BY <3>4, <4>1, <4>2
    <3>7. \A i, j \in 1 .. Len(h): h[i] = h[j] => i = j
      <4> SUFFICES ASSUME NEW i \in 1 .. Len(h), NEW j \in 1 .. Len(h), h[i] = h[j]
                   PROVE i = j  OBVIOUS
      <4>1. Len(g) \in Nat  OBVIOUS
      <4>2. i \in 1 .. Len(g) \/ i = Len(g) + 1  BY <3>4, <4>1
      <4>3. j \in 1 .. Len(g) \/ j = Len(g) + 1  BY <3>4, <4>1
      <4> QED  BY <2>2, <3>4, <3>5, <4>2, <4>3
    <3>8. f[n] = h  BY <3>1, <3>3
    <3>9. /\ f[n] \in Seq(U)
          /\ \A i \in 1 .. Len(f[n]): \E m \in 1 .. n: f[n][i] = s[m]
          /\ \A i, j \in 1 .. Len(f[n]): f[n][i] = f[n][j] => i = j
      BY <3>3, <3>6, <3>7, <3>8
    <3> QED  BY <3>2, <3>9
  <2>4. CASE s[n] \notin S
    <3>1. f[n] = g /\ n \in 0 .. Len(s)  BY <1>1, <1>2, <2>1, <2>4
    <3>2. \A i \in 1 .. Len(g): \E m \in 1 .. n: g[i] = s[m]
      <4>1. 1 .. (n - 1) \subseteq 1 .. n  OBVIOUS
      <4> QED  BY <2>2, <4>1
    <3> QED  BY <2>2, <3>1, <3>2
  <2> QED  BY <2>3, <2>4
<1> HIDE DEF T
<1>5. \A n \in 1 .. Len(s): n - 1 \in T => n \in T  BY <1>4
<1>8. \A n \in 0 .. Len(s): n \in T  BY <1>2, <1>3, <1>5, UpTo
<1>9. Len(s) \in T  BY <1>2, <1>8
<1> QED  BY <1>1, <1>9 DEF T

(************************ Lists of checkpoints *****************************)
LEMMA ConcatSet ==
  ASSUME NEW U, NEW s \in Seq(U), NEW t \in Seq(U)
  PROVE  ToSet(s \o t) = ToSet(s) \union ToSet(t)
<1>1. DOMAIN s = 1 .. Len(s) /\ DOMAIN t = 1 .. Len(t) /\ Len(s) \in Nat /\ Len(t) \in Nat
  OBVIOUS
<1>2. DOMAIN (s \o t) = 1 .. Len(s) + Len(t)  OBVIOUS
<1>3. \A i \in 1 .. Len(s): (s \o t)[i] = s[i]  OBVIOUS
<1>4. \A i \in 1 .. Len(t): (s \o t)[i + Len(s)] = t[i]  OBVIOUS
<1>5. \A i \in 1 .. Len(s) + Len(t): i \in 1 .. Len(s) \/ \E j \in 1 .. Len(t): i = j + Len(s)
  <2> SUFFICES ASSUME NEW i \in 1 .. Len(s) + Len(t), ~ (i \in 1 .. Len(s))
               PROVE  \E j \in 1 .. Len(t): i = j + Len(s)  OBVIOUS
  <2>1. i - Len(s) \in 1 .. Len(t)  BY <1>1
  <2>2. i = (i - Len(s)) + Len(s)  BY <1>1
  <2> QED  BY <2>1, <2>2
<1>6. ToSet(s \o t) \subseteq ToSet(s) \union ToSet(t)
  <2> SUFFICES ASSUME NEW i \in 1 .. Len(s) + Len(t)
               PROVE  (s \o t)[i] \in ToSet(s) \union ToSet(t)
    BY <1>2 DEF ToSet
  <2>1. CASE i \in 1 .. Len(s)  BY <1>1, <1>3, <2>1 DEF ToSet
  <2>2. CASE \E j \in 1 .. Len(t): i = j + Len(s)  BY <1>1, <1>4, <2>2 DEF ToSet
  <2> QED  BY <1>5, <2>1, <2>2
<1>7. ToSet(s) \subseteq ToSet(s \o t)
  <2> SUFFICES ASSUME NEW i \in 1 .. Len(s) PROVE s[i] \in ToSet(s \o t)
    BY <1>1 DEF ToSet
  <2>1. i \in 1 .. Len(s) + Len(t)  BY <1>1
  <2> QED  BY <1>2, <1>3, <2>1 DEF ToSet
<1>8. ToSet(t) \subseteq ToSet(s \o t)
  <2> SUFFICES ASSUME NEW i \in 1 .. Len(t) PROVE t[i] \in ToSet(s \o t)
    BY <1>1 DEF ToSet
  <2>1. i + Len(s) \in 1 .. Len(s) + Len(t)  BY <1>1
  <2> QED  BY <1>2, <1>4, <2>1 DEF ToSet
<1> QED  BY <1>6, <1>7, <1>8

LEMMA KeepLastTyped ==
  ASSUME NEW U, NEW s \in Seq(U), NEW n \in Nat
  PROVE  /\ KeepLast(s, n) \in Seq(U) /\ ToSet(KeepLast(s, n)) \subseteq ToSet(s)
         /\ Len(s) <= n => KeepLast(s, n) = s
<1>1. CASE Len(s) <= n  BY <1>1 DEF KeepLast
<1>2. CASE ~ (Len(s) <= n)
  <2> DEFINE m == Len(s) - n + 1
  <2>1. Len(s) \in Nat /\ m \in 1 .. Len(s) + 1 /\ DOMAIN s = 1 .. Len(s)  BY <1>2
  <2>2. KeepLast(s, n) = SubSeq(s, m, Len(s))  BY <1>2 DEF KeepLast
  <2> HIDE DEF m
  <2>3. PICK t: t = SubSeq(s, m, Len(s))  OBVIOUS
  <2>4. /\ t \in Seq(U) /\ Len(t) = Len(s) - m + 1
        /\ \A i \in 1 .. Len(s) - m + 1: t[i] = s[m + i - 1]
    <3>1. m \in Int /\ Len(s) \in Int /\ \A i \in m .. Len(s): s[i] \in U  BY <2>1
    <3>2. /\ SubSeq(s, m, Len(s)) \in Seq(U)
          /\ Len(SubSeq(s, m, Len(s))) = IF m <= Len(s) THEN Len(s) - m + 1 ELSE 0
          /\ \A i \in 1 .. Len(s) - m + 1: SubSeq(s, m, Len(s))[i] = s[m + i - 1]
      BY <3>1, SubSeqProperties
    <3>3. (IF m <= Len(s) THEN Len(s) - m + 1 ELSE 0) = Len(s) - m + 1  BY <2>1
    <3> QED  BY <2>3, <3>2, <3>3
  <2>5. ToSet(t) \subseteq ToSet(s)
    <3>1. DOMAIN t = 1 .. Len(t)  BY <2>4
    <3>2. \A i \in 1 .. Len(s) - m + 1: m + i - 1 \in 1 .. Len(s)  BY <2>1
    <3>3. \A i \in DOMAIN t: \E j \in DOMAIN s: t[i] = s[j]  BY <2>1, <2>4, <3>1, <3>2
    <3> QED  BY <3>3 DEF ToSet
  <2> QED  BY <1>2, <2>2, <2>3, <2>4, <2>5
<1> QED  BY <1>1, <1>2

LEMMA KeepLastInjective ==
  ASSUME NEW U, NEW s \in Seq(U), NEW n \in Nat,
         \A i, j \in 1 .. Len(s): s[i].turn = s[j].turn => i = j
  PROVE  \A i, j \in 1 .. Len(KeepLast(s, n)):
           KeepLast(s, n)[i].turn = KeepLast(s, n)[j].turn => i = j
<1>1. CASE Len(s) <= n  BY <1>1 DEF KeepLast
<1>2. CASE ~ (Len(s) <= n)
  <2> DEFINE m == Len(s) - n + 1
  <2>1. Len(s) \in Nat /\ m \in 1 .. Len(s) + 1 /\ DOMAIN s = 1 .. Len(s)  BY <1>2
  <2>2. KeepLast(s, n) = SubSeq(s, m, Len(s))  BY <1>2 DEF KeepLast
  <2> HIDE DEF m
  <2>3. PICK t: t = SubSeq(s, m, Len(s))  OBVIOUS
  <2>4. /\ Len(t) = Len(s) - m + 1
        /\ \A i \in 1 .. Len(s) - m + 1: t[i] = s[m + i - 1]
    <3>1. m \in Int /\ Len(s) \in Int /\ \A i \in m .. Len(s): s[i] \in U  BY <2>1
    <3>2. /\ Len(SubSeq(s, m, Len(s))) = IF m <= Len(s) THEN Len(s) - m + 1 ELSE 0
          /\ \A i \in 1 .. Len(s) - m + 1: SubSeq(s, m, Len(s))[i] = s[m + i - 1]
      BY <3>1, SubSeqProperties
    <3>3. (IF m <= Len(s) THEN Len(s) - m + 1 ELSE 0) = Len(s) - m + 1  BY <2>1
    <3> QED  BY <2>3, <3>2, <3>3
  <2>5. ASSUME NEW i \in 1 .. Len(t), NEW j \in 1 .. Len(t), t[i].turn = t[j].turn
        PROVE  i = j
    <3>1. m + i - 1 \in 1 .. Len(s) /\ m + j - 1 \in 1 .. Len(s)  BY <2>1, <2>4
    <3>2. s[m + i - 1].turn = s[m + j - 1].turn  BY <2>4, <2>5
    <3>3. m + i - 1 = m + j - 1  BY <3>1, <3>2
    <3> QED  BY <2>1, <3>3
  <2> QED  BY <2>2, <2>3, <2>5
<1> QED  BY <1>1, <1>2

Statuses == {"ready", "missing", "error"}
Checkpoint ==
  {c \in [turn: Turns, count: Nat \ {0}, ref: Nat \union {ProviderDiff},
           status: Statuses]: c.ref \in {c.count, ProviderDiff}}

(* The highest of finitely many turn counts. *)
LEMMA Highest ==
  ASSUME NEW cs \in Seq(Checkpoint)
  PROVE  /\ MaxCount(cs) \in Nat
         /\ \A c \in ToSet(cs): c.count <= MaxCount(cs)
         /\ cs = <<>> => MaxCount(cs) = 0
         /\ MaxCount(cs) = 0 \/ \E c \in ToSet(cs): c.count = MaxCount(cs)
<1> DEFINE Up(n) == {cs[i].count: i \in 1 .. n} \union {0}
           T == {n \in 0 .. Len(cs): \E m \in Up(n): \A k \in Up(n): k <= m}
<1>1. /\ Len(cs) \in Nat /\ DOMAIN cs = 1 .. Len(cs)
      /\ \A i \in 1 .. Len(cs): cs[i].count \in Nat
  <2>1. \A c \in Checkpoint: c.count \in Nat  BY DEF Checkpoint
  <2> QED  BY <2>1
<1>2. 0 \in T
  <2>1. Up(0) = {0}  OBVIOUS
  <2> QED  BY <1>1, <2>1
<1>3. ASSUME NEW n \in 1 .. Len(cs), n - 1 \in T PROVE n \in T
  <2>1. PICK m \in Up(n - 1): \A k \in Up(n - 1): k <= m  BY <1>3
  <2>2. n \in Nat /\ n \in 0 .. Len(cs) /\ cs[n].count \in Nat  BY <1>1
  <2>3. Up(n) = Up(n - 1) \union {cs[n].count}
    <3>1. 1 .. n = (1 .. (n - 1)) \union {n}  BY <2>2
    <3> QED  BY <3>1
  <2>4. Up(n - 1) \subseteq Nat
    <3>1. \A i \in 1 .. (n - 1): i \in 1 .. Len(cs)  BY <1>1, <2>2
    <3>2. \A i \in 1 .. (n - 1): cs[i].count \in Nat  BY <1>1, <3>1
    <3> QED  BY <3>2
  <2> HIDE DEF Up
  <2>5. CASE cs[n].count <= m
    <3>1. m \in Up(n) /\ \A k \in Up(n): k <= m  BY <2>1, <2>3, <2>5
    <3> QED  BY <2>2, <3>1
  <2>6. CASE ~ (cs[n].count <= m)
    <3>1. cs[n].count \in Up(n)  BY <2>3
    <3>2. \A k \in Up(n): k <= cs[n].count  BY <2>1, <2>2, <2>3, <2>4, <2>6
    <3> QED  BY <2>2, <3>1, <3>2
  <2> QED  BY <2>5, <2>6
<1> HIDE DEF T
<1>4. \A n \in 1 .. Len(cs): n - 1 \in T => n \in T  BY <1>3
<1>5. \A n \in 0 .. Len(cs): n \in T  BY <1>1, <1>2, <1>4, UpTo
<1>6. Len(cs) \in T  BY <1>1, <1>5
<1>7. {c.count: c \in ToSet(cs)} \union {0} = Up(Len(cs))  BY <1>1 DEF ToSet
<1>8. \E m \in Up(Len(cs)): \A k \in Up(Len(cs)): k <= m  BY <1>6 DEF T
<1>9. PICK top: top = CHOOSE m \in Up(Len(cs)): \A k \in Up(Len(cs)): m >= k  OBVIOUS
<1>10. MaxCount(cs) = top  BY <1>7, <1>9 DEF MaxCount, Max
<1>11. Up(Len(cs)) \subseteq Nat
  <2>1. \A i \in 1 .. Len(cs): cs[i].count \in Nat  BY <1>1
  <2> QED  BY <2>1
<1>12. top \in Up(Len(cs)) /\ \A k \in Up(Len(cs)): k <= top
  <2> HIDE DEF Up
  <2>1. \E m \in Up(Len(cs)): \A k \in Up(Len(cs)): m >= k  BY <1>8, <1>11
  <2>2. top \in Up(Len(cs)) /\ \A k \in Up(Len(cs)): top >= k  BY <1>9, <2>1
  <2> QED  BY <1>11, <2>2
<1>13. top \in Nat  BY <1>11, <1>12
<1>14. \A c \in ToSet(cs): c.count <= top  BY <1>1, <1>12 DEF ToSet
<1>15. cs = <<>> => top = 0  BY <1>12
<1>16. top = 0 \/ \E c \in ToSet(cs): c.count = top  BY <1>1, <1>12 DEF ToSet
<1> QED  BY <1>10, <1>13, <1>14, <1>15, <1>16

LEMMA Upserting ==
  ASSUME NEW cs \in Seq(Checkpoint), NEW x \in Checkpoint
  PROVE  /\ UpsertCheckpoint(cs, x) \in Seq(Checkpoint)
         /\ ToSet(UpsertCheckpoint(cs, x)) = {c \in ToSet(cs): c.turn # x.turn} \union {x}
         /\ (\A i, j \in 1 .. Len(cs): cs[i].turn = cs[j].turn => i = j)
              => \A i, j \in 1 .. Len(UpsertCheckpoint(cs, x)):
                   UpsertCheckpoint(cs, x)[i].turn = UpsertCheckpoint(cs, x)[j].turn => i = j
<1>1. PICK s: s = Select(cs, {y \in ToSet(cs): y.turn # x.turn})  OBVIOUS
<1>2. s \in Seq(Checkpoint) /\ ToSet(s) = {y \in ToSet(cs): y.turn # x.turn}
  <2>1. /\ s \in Seq(Checkpoint)
        /\ ToSet(s) = ToSet(cs) \intersect {y \in ToSet(cs): y.turn # x.turn}
    BY <1>1, SelectTyped
  <2> QED  BY <2>1
<1>3. PICK S: S = {y \in ToSet(s): y.count > x.count}  OBVIOUS
<1>4. PICK a: a = Select(s, ToSet(s) \ S)  OBVIOUS
<1>5. PICK b: b = Select(s, S)  OBVIOUS
<1>6. a \in Seq(Checkpoint) /\ ToSet(a) = ToSet(s) \ S
  <2>1. a \in Seq(Checkpoint) /\ ToSet(a) = ToSet(s) \intersect (ToSet(s) \ S)
    BY <1>2, <1>4, SelectTyped
  <2> QED  BY <2>1
<1>7. b \in Seq(Checkpoint) /\ ToSet(b) = S
  <2>1. b \in Seq(Checkpoint) /\ ToSet(b) = ToSet(s) \intersect S
    BY <1>2, <1>5, SelectTyped
  <2> QED  BY <1>3, <2>1
<1>8. UpsertCheckpoint(cs, x) = (a \o <<x>>) \o b
  <2>1. UpsertCheckpoint(cs, x)
          = Select(s, ToSet(s) \ {y \in ToSet(s): HigherCount(y, x)}) \o <<x>>
              \o Select(s, {y \in ToSet(s): HigherCount(y, x)})
    BY <1>1 DEF UpsertCheckpoint, Upsert, Insert
  <2>2. {y \in ToSet(s): HigherCount(y, x)} = S  BY <1>3 DEF HigherCount
  <2> QED  BY <1>4, <1>5, <2>1, <2>2
<1>9. /\ (a \o <<x>>) \in Seq(Checkpoint) /\ (a \o <<x>>) \o b \in Seq(Checkpoint)
      /\ <<x>> \in Seq(Checkpoint)
  BY <1>6, <1>7
<1>10. ToSet((a \o <<x>>) \o b) = {c \in ToSet(cs): c.turn # x.turn} \union {x}
  <2>1. ToSet((a \o <<x>>) \o b) = ToSet(a \o <<x>>) \union ToSet(b)
    <3>1. PICK y \in Seq(Checkpoint): y = a \o <<x>>  BY <1>9
    <3>2. ToSet(y \o b) = ToSet(y) \union ToSet(b)  BY <1>7, ConcatSet
    <3> QED  BY <3>1, <3>2
  <2>2. ToSet(a \o <<x>>) = ToSet(a) \union ToSet(<<x>>)
    <3>1. PICK y \in Seq(Checkpoint): y = <<x>>  BY <1>9
    <3>2. ToSet(a \o y) = ToSet(a) \union ToSet(y)  BY <1>6, ConcatSet
    <3> QED  BY <3>1, <3>2
  <2>3. ToSet(<<x>>) = {x}
    <3>1. DOMAIN <<x>> = {1} /\ <<x>>[1] = x  OBVIOUS
    <3> QED  BY <3>1 DEF ToSet
  <2>4. S \subseteq ToSet(s)  BY <1>3
  <2> QED  BY <1>2, <1>6, <1>7, <2>1, <2>2, <2>3, <2>4
<1>11. ASSUME \A i, j \in 1 .. Len(cs): cs[i].turn = cs[j].turn => i = j,
              NEW u, u = (a \o <<x>>) \o b,
              NEW i \in 1 .. Len(u), NEW j \in 1 .. Len(u), u[i].turn = u[j].turn
       PROVE  i = j
  <2>1. \A m, n \in 1 .. Len(cs): cs[m] = cs[n] => m = n  BY <1>11
  <2>2. \A m, n \in 1 .. Len(s): s[m] = s[n] => m = n  BY <1>1, <2>1, SelectInjective
  <2>3. \A m, n \in 1 .. Len(a): a[m] = a[n] => m = n  BY <1>2, <1>4, <2>2, SelectInjective
  <2>4. \A m, n \in 1 .. Len(b): b[m] = b[n] => m = n  BY <1>2, <1>5, <2>2, SelectInjective
  <2>5. \A c, d \in ToSet(cs): c.turn = d.turn => c = d
    <3>1. DOMAIN cs = 1 .. Len(cs)  OBVIOUS
    <3> QED  BY <1>11, <3>1 DEF ToSet
  <2>6. /\ \A m \in 1 .. Len(a): a[m] \in ToSet(cs) \ S /\ a[m].turn # x.turn
        /\ \A m \in 1 .. Len(b): b[m] \in ToSet(cs) \intersect S /\ b[m].turn # x.turn
    <3>1. DOMAIN a = 1 .. Len(a) /\ DOMAIN b = 1 .. Len(b)  BY <1>6, <1>7
    <3>2. /\ \A m \in 1 .. Len(a): a[m] \in ToSet(a)
          /\ \A m \in 1 .. Len(b): b[m] \in ToSet(b)
      BY <3>1 DEF ToSet
    <3>3. S \subseteq ToSet(s)  BY <1>3
    <3> QED  BY <1>2, <1>6, <1>7, <3>2, <3>3
  <2>7. Len(a) \in Nat /\ Len(b) \in Nat /\ Len(u) = Len(a) + 1 + Len(b)
    BY <1>6, <1>7, <1>9, <1>11
  <2>8. \A m \in 1 .. Len(u):
          \/ m \in 1 .. Len(a) /\ u[m] = a[m]
          \/ m = Len(a) + 1 /\ u[m] = x
          \/ m - (Len(a) + 1) \in 1 .. Len(b) /\ u[m] = b[m - (Len(a) + 1)]
    <3> SUFFICES ASSUME NEW m \in 1 .. Len(u)
                 PROVE  \/ m \in 1 .. Len(a) /\ u[m] = a[m]
                        \/ m = Len(a) + 1 /\ u[m] = x
                        \/ m - (Len(a) + 1) \in 1 .. Len(b) /\ u[m] = b[m - (Len(a) + 1)]
      OBVIOUS
    <3>1. PICK v: v = a \o <<x>>  OBVIOUS
    <3>2. /\ v \in Seq(Checkpoint) /\ Len(v) = Len(a) + 1 /\ v[Len(a) + 1] = x
          /\ \A n \in 1 .. Len(a): v[n] = a[n]
      BY <1>6, <3>1
    <3>3. u = v \o b  BY <1>11, <3>1
    <3>4. CASE m <= Len(a)
      <4>1. m \in 1 .. Len(a) /\ m \in 1 .. Len(v)  BY <2>7, <3>2, <3>4
      <4>2. u[m] = v[m]  BY <1>7, <3>2, <3>3, <4>1
      <4> QED  BY <3>2, <4>1, <4>2
    <3>5. CASE m = Len(a) + 1
      <4>1. m \in 1 .. Len(v)  BY <2>7, <3>2, <3>5
      <4>2. u[m] = v[m]  BY <1>7, <3>2, <3>3, <4>1
      <4> QED  BY <3>2, <3>5, <4>2
    <3>6. CASE m > Len(a) + 1
      <4>1. m - (Len(a) + 1) \in 1 .. Len(b)  BY <2>7, <3>6
      <4>2. u[m] = b[m - Len(v)]  BY <1>7, <2>7, <3>2, <3>3, <3>6
      <4> QED  BY <3>2, <4>1, <4>2
    <3> QED  BY <2>7, <3>4, <3>5, <3>6
  <2>9. \/ i \in 1 .. Len(a) /\ u[i] = a[i]
        \/ i = Len(a) + 1 /\ u[i] = x
        \/ i - (Len(a) + 1) \in 1 .. Len(b) /\ u[i] = b[i - (Len(a) + 1)]
    BY <2>8
  <2>10. \/ j \in 1 .. Len(a) /\ u[j] = a[j]
         \/ j = Len(a) + 1 /\ u[j] = x
         \/ j - (Len(a) + 1) \in 1 .. Len(b) /\ u[j] = b[j - (Len(a) + 1)]
    BY <2>8
  <2>11. u[i] = u[j]  BY <1>11, <2>5, <2>6, <2>9, <2>10
  <2>12. CASE i \in 1 .. Len(a) /\ u[i] = a[i]
    <3>1. u[i] # x /\ u[i] \notin S  BY <2>6, <2>12
    <3>2. j \in 1 .. Len(a) /\ u[j] = a[j]  BY <2>6, <2>10, <2>11, <3>1
    <3> QED  BY <2>3, <2>11, <2>12, <3>2
  <2>13. CASE i = Len(a) + 1 /\ u[i] = x
    <3>1. u[i].turn = x.turn  BY <2>13
    <3>2. j = Len(a) + 1  BY <2>6, <2>10, <2>11, <3>1
    <3> QED  BY <2>13, <3>2
  <2>14. CASE i - (Len(a) + 1) \in 1 .. Len(b) /\ u[i] = b[i - (Len(a) + 1)]
    <3>1. u[i] # x /\ u[i] \in S  BY <2>6, <2>14
    <3>2. j - (Len(a) + 1) \in 1 .. Len(b) /\ u[j] = b[j - (Len(a) + 1)]
      BY <2>6, <2>10, <2>11, <3>1
    <3>3. i - (Len(a) + 1) = j - (Len(a) + 1)  BY <2>4, <2>11, <2>14, <3>2
    <3> QED  BY <2>7, <3>3
  <2> QED  BY <2>9, <2>12, <2>13, <2>14
<1> QED  BY <1>8, <1>9, <1>10, <1>11

(* A checkpoint of a new turn with the highest count comes last. *)
LEMMA UpsertingLast ==
  ASSUME NEW cs \in Seq(Checkpoint), NEW x \in Checkpoint,
         \A c \in ToSet(cs): c.turn # x.turn /\ c.count <= x.count
  PROVE  UpsertCheckpoint(cs, x) = Append(cs, x)
<1>1. ToSet(cs) \subseteq {y \in ToSet(cs): y.turn # x.turn}  OBVIOUS
<1>2. Select(cs, {y \in ToSet(cs): y.turn # x.turn}) = cs  BY <1>1, SelectAll
<1>3. {y \in ToSet(cs): HigherCount(y, x)} = {}
  <2>1. \A c \in Checkpoint: c.count \in Nat  BY DEF Checkpoint
  <2>2. ToSet(cs) \subseteq Checkpoint
    <3>1. DOMAIN cs = 1 .. Len(cs)  OBVIOUS
    <3> QED  BY <3>1 DEF ToSet
  <2>3. \A c \in ToSet(cs): ~ (c.count > x.count)  BY <2>1, <2>2
  <2> QED  BY <2>3 DEF HigherCount
<1>4. UpsertCheckpoint(cs, x) = Select(cs, ToSet(cs) \ {}) \o <<x>> \o Select(cs, {})
  BY <1>2, <1>3 DEF UpsertCheckpoint, Upsert, Insert
<1>5. Select(cs, ToSet(cs) \ {}) = cs
  <2>1. ToSet(cs) \subseteq ToSet(cs) \ {}  OBVIOUS
  <2> QED  BY <2>1, SelectAll
<1>6. Select(cs, {}) = <<>>  
  <2>1. ToSet(cs) \intersect {} = {}  OBVIOUS
  <2> QED  BY <2>1, SelectNone
<1>7. cs \o <<x>> \o <<>> = Append(cs, x)  OBVIOUS
<1> QED  BY <1>4, <1>5, <1>6, <1>7

(* ByCount takes the checkpoint with the lowest count first. *)
LEMMA Ordering ==
  ASSUME NEW S, IsFiniteSet(S), \A x \in S: x.count \in Nat,
         \A x, y \in S: x.count = y.count => x = y
  PROVE  \E f: /\ ByCount(S) = f[S] /\ f[{}] = <<>>
               /\ \A T \in SUBSET S: T # {} =>
                    \E x \in T: /\ \A y \in T \ {x}: x.count < y.count
                                /\ f[T] = <<x>> \o f[T \ {x}]
<1> DEFINE First(T) == CHOOSE x \in T: \A y \in T \ {x}: y.count > x.count
           Step(f, T) == IF T = {} THEN <<>> ELSE <<First(T)>> \o f[T \ {First(T)}]
           Size(n) == {T \in SUBSET S: Cardinality(T) <= n}
           Is(f, n) == f = [T \in Size(n) |-> Step(f, T)]
           Good == {n \in Nat: \E f: Is(f, n)}
<1>1. \A T \in SUBSET S: IsFiniteSet(T) /\ Cardinality(T) \in Nat
                            /\ Cardinality(T) <= Cardinality(S)
  BY FS_Subset, FS_CardinalityType
<1>2. \A T \in SUBSET S: T # {} => /\ First(T) \in T
                                   /\ \A y \in T \ {First(T)}: y.count > First(T).count
  <2> SUFFICES ASSUME NEW T \in SUBSET S, T # {}
               PROVE  \E x \in T: \A y \in T \ {x}: y.count > x.count
    OBVIOUS
  <2>1. PICK C: C = {x.count: x \in T}  OBVIOUS
  <2>2. C \subseteq Nat /\ C # {}  BY <2>1
  <2>3. PICK m \in C: \A k \in C: m <= k  BY <2>2, Least
  <2>4. PICK x \in T: m = x.count  BY <2>1, <2>3
  <2>5. \A y \in T \ {x}: y.count > x.count
    <3> SUFFICES ASSUME NEW y \in T \ {x} PROVE y.count > x.count  OBVIOUS
    <3>1. y.count \in Nat /\ x.count \in Nat /\ y.count # x.count  OBVIOUS
    <3>2. y.count \in C  BY <2>1
    <3>3. x.count <= y.count  BY <2>3, <2>4, <3>2
    <3> QED  BY <3>1, <3>3
  <2> QED  BY <2>5
<1>3. 0 \in Good
  <2>1. \A T \in Size(0): T = {}  BY <1>1, FS_EmptySet
  <2>2. PICK f: f = [T \in Size(0) |-> <<>>]  OBVIOUS
  <2>3. Is(f, 0)  BY <2>1, <2>2
  <2> QED  BY <2>3
<1> HIDE DEF First
<1>4. ASSUME NEW n \in Nat, n # 0, n - 1 \in Good PROVE n \in Good
  <2>1. PICK f: Is(f, n - 1)  BY <1>4
  <2>2. PICK g: g = [T \in Size(n) |-> Step(f, T)]  OBVIOUS
  <2>3. \A T \in Size(n - 1): g[T] = f[T]
    <3> SUFFICES ASSUME NEW T \in Size(n - 1) PROVE g[T] = f[T]  OBVIOUS
    <3>1. T \in Size(n)  BY <1>1
    <3>2. g[T] = Step(f, T)  BY <2>2, <3>1
    <3>3. f[T] = Step(f, T)  BY <2>1
    <3> QED  BY <3>2, <3>3
  <2>4. \A T \in Size(n): T # {} => T \ {First(T)} \in Size(n - 1)
    <3> SUFFICES ASSUME NEW T \in Size(n), T # {} PROVE T \ {First(T)} \in Size(n - 1)
      OBVIOUS
    <3>1. T \in SUBSET S /\ First(T) \in T /\ IsFiniteSet(T)  BY <1>1, <1>2
    <3>2. Cardinality(T \ {First(T)}) = Cardinality(T) - 1  BY <3>1, FS_RemoveElement
    <3>3. Cardinality(T) \in Nat /\ Cardinality(T) <= n  BY <1>1, <3>1
    <3> QED  BY <3>1, <3>2, <3>3
  <2>5. \A T \in Size(n): Step(f, T) = Step(g, T)
    <3> SUFFICES ASSUME NEW T \in Size(n), T # {}
                 PROVE  f[T \ {First(T)}] = g[T \ {First(T)}]
      OBVIOUS
    <3> QED  BY <2>3, <2>4
  <2>6. g = [T \in Size(n) |-> Step(g, T)]  BY <2>2, <2>5
  <2> QED  BY <2>6
<1> HIDE DEF Good
<1>5. PICK n \in Nat: n = Cardinality(S)  BY <1>1
<1>6. n \in Good
  <2>1. \A k \in 1 .. n: k - 1 \in Good => k \in Good  BY <1>4
  <2>2. \A k \in 0 .. n: k \in Good  BY <1>3, <2>1, UpTo
  <2> QED  BY <2>2
<1>7. Size(n) = SUBSET S  BY <1>1, <1>5
<1>8. \E f: f = [T \in SUBSET S |-> Step(f, T)]  BY <1>6, <1>7 DEF Good
<1>9. PICK f: f = CHOOSE h: h = [T \in SUBSET S |-> Step(h, T)]  OBVIOUS
<1>10. f = [T \in SUBSET S |-> Step(f, T)]  BY <1>8, <1>9
<1>11. ByCount(S) = f[S]
  BY <1>9 DEF ByCount, InOrder, MapThenFoldSet, HigherCount, First
<1>12. f[{}] = <<>>  BY <1>10
<1>13. ASSUME NEW T \in SUBSET S, T # {}
       PROVE  \E x \in T: /\ \A y \in T \ {x}: x.count < y.count
                          /\ f[T] = <<x>> \o f[T \ {x}]
  <2>1. First(T) \in T /\ \A y \in T \ {First(T)}: y.count > First(T).count  BY <1>2, <1>13
  <2>2. f[T] = <<First(T)>> \o f[T \ {First(T)}]  BY <1>10, <1>13
  <2>3. \A y \in T \ {First(T)}: First(T).count < y.count
    <3>1. \A y \in T: y.count \in Nat  OBVIOUS
    <3> QED  BY <2>1, <3>1
  <2> QED  BY <2>1, <2>2, <2>3
<1> QED  BY <1>11, <1>12, <1>13

LEMMA ByCountTyped ==
  ASSUME NEW S, IsFiniteSet(S), \A x \in S: x.count \in Nat,
         \A x, y \in S: x.count = y.count => x = y
  PROVE  ByCount(S) \in Seq(S) /\ ToSet(ByCount(S)) = S
<1>1. PICK f: /\ ByCount(S) = f[S] /\ f[{}] = <<>>
              /\ \A T \in SUBSET S: T # {} =>
                   \E x \in T: /\ \A y \in T \ {x}: x.count < y.count
                               /\ f[T] = <<x>> \o f[T \ {x}]
  BY Ordering
<1> DEFINE Good == {n \in Nat: \A T \in SUBSET S: Cardinality(T) = n =>
                                 f[T] \in Seq(S) /\ ToSet(f[T]) = T}
<1>2. \A T \in SUBSET S: IsFiniteSet(T) /\ Cardinality(T) \in Nat
  BY FS_Subset, FS_CardinalityType
<1>3. 0 \in Good
  <2>1. \A T \in SUBSET S: Cardinality(T) = 0 => T = {}  BY <1>2, FS_EmptySet
  <2>2. <<>> \in Seq(S) /\ ToSet(<<>>) = {}  BY DEF ToSet
  <2> QED  BY <1>1, <2>1, <2>2
<1>4. ASSUME NEW n \in Nat, n # 0, n - 1 \in Good PROVE n \in Good
  <2> SUFFICES ASSUME NEW T \in SUBSET S, Cardinality(T) = n
               PROVE  f[T] \in Seq(S) /\ ToSet(f[T]) = T
    OBVIOUS
  <2>1. T # {}  BY <1>4, FS_EmptySet
  <2>2. PICK x \in T: f[T] = <<x>> \o f[T \ {x}]  BY <1>1, <2>1
  <2>3. Cardinality(T \ {x}) = n - 1 /\ T \ {x} \in SUBSET S  BY <1>2, FS_RemoveElement
  <2>4. PICK s: s = f[T \ {x}]  OBVIOUS
  <2>5. s \in Seq(S) /\ ToSet(s) = T \ {x}  BY <1>4, <2>3, <2>4
  <2>6. PICK y: y = <<x>>  OBVIOUS
  <2>7. y \in Seq(S) /\ ToSet(y) = {x}
    <3>1. DOMAIN y = {1} /\ y[1] = x /\ x \in S  BY <2>6
    <3>2. y \in Seq(S)  BY <2>6
    <3> QED  BY <3>1, <3>2 DEF ToSet
  <2>8. y \o s \in Seq(S) /\ ToSet(y \o s) = T
    <3>1. ToSet(y \o s) = ToSet(y) \union ToSet(s)  BY <2>5, <2>7, ConcatSet
    <3>2. y \o s \in Seq(S)  BY <2>5, <2>7
    <3> QED  BY <2>5, <2>7, <3>1, <3>2
  <2> QED  BY <2>2, <2>4, <2>6, <2>8
<1> HIDE DEF Good
<1>5. PICK n \in Nat: n = Cardinality(S)  BY <1>2
<1>6. n \in Good
  <2>1. \A k \in 1 .. n: k - 1 \in Good => k \in Good  BY <1>4
  <2>2. \A k \in 0 .. n: k \in Good  BY <1>3, <2>1, UpTo
  <2> QED  BY <2>2
<1> QED  BY <1>1, <1>5, <1>6 DEF Good

(* ... so that it gives back a list that is in order. *)
LEMMA ByCountInverse ==
  ASSUME NEW cs \in Seq(Checkpoint),
         \A i, j \in 1 .. Len(cs): i < j => cs[i].count < cs[j].count
  PROVE  ByCount(ToSet(cs)) = cs
<1> DEFINE L == Len(cs)
           S == ToSet(cs)
           From(n) == {cs[i]: i \in (L - n + 1) .. L}
<1>1. L \in Nat /\ DOMAIN cs = 1 .. L  OBVIOUS
<1>2. \A i \in 1 .. L: cs[i].count \in Nat
  <2>1. \A c \in Checkpoint: c.count \in Nat  BY DEF Checkpoint
  <2> QED  BY <2>1
<1>3. S = From(L)
  <2>1. (L - L + 1) .. L = 1 .. L  BY <1>1
  <2> QED  BY <1>1, <2>1 DEF ToSet
<1>4. IsFiniteSet(S)
  <2>1. PICK g: g = [i \in 1 .. L |-> cs[i]]  OBVIOUS
  <2>2. g \in Surjection(1 .. L, S)  BY <1>1, <2>1 DEF Surjection, ToSet
  <2>3. IsFiniteSet(1 .. L)  BY <1>1, FS_Interval
  <2> QED  BY <2>2, <2>3, FS_Surjection
<1>5. \A i, j \in 1 .. L: cs[i].count = cs[j].count => i = j
  <2> SUFFICES ASSUME NEW i \in 1 .. L, NEW j \in 1 .. L, cs[i].count = cs[j].count, i # j
               PROVE  FALSE
    OBVIOUS
  <2>1. i < j \/ j < i  BY <1>1
  <2>2. cs[i].count < cs[j].count \/ cs[j].count < cs[i].count  BY <2>1
  <2> QED  BY <1>2, <2>2
<1>6. /\ \A x \in S: x.count \in Nat
      /\ \A x, y \in S: x.count = y.count => x = y
  BY <1>1, <1>2, <1>5 DEF ToSet
<1>7. PICK f: /\ ByCount(S) = f[S] /\ f[{}] = <<>>
              /\ \A T \in SUBSET S: T # {} =>
                   \E x \in T: /\ \A y \in T \ {x}: x.count < y.count
                               /\ f[T] = <<x>> \o f[T \ {x}]
  <2> HIDE DEF S
  <2> QED  BY <1>4, <1>6, Ordering
<1> DEFINE Good == {n \in 0 .. L: f[From(n)] = SubSeq(cs, L - n + 1, L)}
<1>8. 0 \in Good
  <2>1. From(0) = {}  BY <1>1
  <2>2. L - 0 + 1 \in Int /\ L \in Int /\ L < L - 0 + 1  BY <1>1
  <2>3. SubSeq(cs, L - 0 + 1, L) = <<>>  BY <2>2, SubSeqEmpty
  <2>4. f[From(0)] = <<>>  BY <1>7, <2>1
  <2>5. f[From(0)] = SubSeq(cs, L - 0 + 1, L) /\ 0 \in 0 .. L  BY <1>1, <2>3, <2>4
  <2> HIDE DEF From, L
  <2> QED  BY <2>5
<1>9. ASSUME NEW n \in 1 .. L, n - 1 \in Good PROVE n \in Good
  <2>1. PICK k \in 1 .. L: k = L - n + 1
    <3>1. L - n + 1 \in 1 .. L  BY <1>1
    <3> QED  BY <3>1
  <2>2. L - (n - 1) + 1 = k + 1  BY <1>1, <2>1
  <2>3. f[From(n - 1)] = SubSeq(cs, k + 1, L)  BY <1>9, <2>2
  <2>4. From(n) = From(n - 1) \union {cs[k]}
    <3>1. k .. L = ((k + 1) .. L) \union {k}  BY <1>1
    <3>2. From(n) = {cs[i]: i \in k .. L} /\ From(n - 1) = {cs[i]: i \in (k + 1) .. L}
      BY <2>1, <2>2
    <3> QED  BY <3>1, <3>2
  <2>5. \A y \in From(n - 1): cs[k].count < y.count /\ y # cs[k]
    <3> SUFFICES ASSUME NEW i \in (k + 1) .. L PROVE cs[k].count < cs[i].count /\ cs[i] # cs[k]
      BY <2>2
    <3>1. i \in 1 .. L /\ k < i  BY <1>1
    <3>2. cs[k].count < cs[i].count  BY <3>1
    <3> QED  BY <1>2, <3>1, <3>2
  <2>6. From(n) \in SUBSET S
    <3>1. \A i \in (L - n + 1) .. L: i \in 1 .. L  BY <1>1
    <3> QED  BY <1>1, <3>1 DEF ToSet
  <2> HIDE DEF From, S
  <2>7. From(n) # {}  BY <2>4
  <2>8. PICK x \in From(n): /\ \A y \in From(n) \ {x}: x.count < y.count
                            /\ f[From(n)] = <<x>> \o f[From(n) \ {x}]
    BY <1>7, <2>6, <2>7
  <2>9. x = cs[k]
    <3> SUFFICES ASSUME x # cs[k] PROVE FALSE  OBVIOUS
    <3>1. x \in From(n - 1) /\ cs[k] \in From(n) \ {x}  BY <2>4
    <3>2. cs[k].count < x.count /\ x.count < cs[k].count  BY <2>5, <2>8, <3>1
    <3>3. x \in S /\ x.count \in Nat /\ cs[k].count \in Nat  BY <1>2, <1>6, <2>6
    <3> QED  BY <3>2, <3>3
  <2>10. From(n) \ {x} = From(n - 1)  BY <2>4, <2>5, <2>9
  <2>11. f[From(n)] = <<cs[k]>> \o SubSeq(cs, k + 1, L)  BY <2>3, <2>8, <2>9, <2>10
  <2>12. SubSeq(cs, k, L) = <<cs[k]>> \o SubSeq(cs, k + 1, L)
    <3>1. L \in k .. L  BY <1>1
    <3> QED  BY <3>1, SubSeqRecursiveFirst
  <2>13. n \in 0 .. L  BY <1>1
  <2> QED  BY <2>1, <2>11, <2>12, <2>13
<1> HIDE DEF Good
<1>10. \A n \in 1 .. L: n - 1 \in Good => n \in Good  BY <1>9
<1>11. \A n \in 0 .. L: n \in Good
  <2> HIDE DEF L
  <2> QED  BY <1>1, <1>8, <1>10, UpTo
<1>12. L \in Good  BY <1>1, <1>11
<1>13. f[From(L)] = SubSeq(cs, 1, L)
  <2>1. L - L + 1 = 1  BY <1>1
  <2> QED  BY <1>12, <2>1 DEF Good
<1> QED  BY <1>3, <1>7, <1>13

(* A thread has no more checkpoints than turns. *)
LEMMA FewCheckpoints ==
  ASSUME NEW cs \in Seq(Checkpoint),
         \A i, j \in 1 .. Len(cs): cs[i].turn = cs[j].turn => i = j
  PROVE  Len(cs) <= MaxTurns
<1> DEFINE f == [i \in 1 .. Len(cs) |-> cs[i].turn]
<1>1. \A c \in Checkpoint: c.turn \in Turns  BY DEF Checkpoint
<1>2. f \in Injection(1 .. Len(cs), Turns)
  <2>1. f \in [1 .. Len(cs) -> Turns]  BY <1>1
  <2> QED  BY <2>1 DEF Injection, IsInjective
<1>3. IsFiniteSet(1 .. Len(cs)) /\ Cardinality(1 .. Len(cs)) = Len(cs)
  <2>1. \A L \in Nat: IsFiniteSet(1 .. L) /\ Cardinality(1 .. L) = L
    <3> SUFFICES ASSUME NEW L \in Nat
                 PROVE  IsFiniteSet(1 .. L) /\ Cardinality(1 .. L) = L  OBVIOUS
    <3>1. 1 \in Int /\ L \in Int  OBVIOUS
    <3> QED  BY <3>1, FS_Interval
  <2> QED  BY <2>1
<1>4. IsFiniteSet(Turns) /\ Cardinality(Turns) = MaxTurns
  BY FS_Interval, BoundsAssumption DEF Turns
<1> HIDE DEF f
<1> QED  BY <1>2, <1>3, <1>4, FS_Injection

LEMMA FiniteCheckpoints ==
  ASSUME NEW S, S \subseteq Checkpoint, \A c, d \in S: c.turn = d.turn => c = d
  PROVE  IsFiniteSet(S)
<1> DEFINE f == [c \in S |-> c.turn]
<1>1. \A c \in Checkpoint: c.turn \in Turns  BY DEF Checkpoint
<1>2. f \in Injection(S, Turns)
  <2>1. f \in [S -> Turns]  BY <1>1
  <2> QED  BY <2>1 DEF Injection, IsInjective
<1>3. IsFiniteSet(Turns)  BY FS_Interval, BoundsAssumption DEF Turns
<1> HIDE DEF f
<1> QED  BY <1>2, <1>3, FS_Injection

(*********************** The thread of the read model **********************)
ThreadFields == {"project", "archived", "deleted", "messages", "activities", "plans",
                 "checkpoints", "session", "latestTurn"}
Session == [status: {"none", "running", "ready", "error"}, turn: Turns \union {None}]

IsThread(t) ==
  /\ t = [f \in ThreadFields |-> t[f]]
  /\ t.checkpoints \in Seq(Checkpoint)
  /\ \A i, j \in 1 .. Len(t.checkpoints):
       t.checkpoints[i].turn = t.checkpoints[j].turn => i = j
  /\ t.session \in Session

Starts   == [type: {"thread.turn-start-requested"}, id: Nat, at: Nat]
Requests == [type: {"thread.checkpoint-revert-requested"}, count: Nat]
Diffs ==
  {e \in [type: {"thread.turn-diff-completed"}, turn: Turns, count: Nat \ {0},
          ref: Nat \union {ProviderDiff}, status: Statuses, assistant: Nat, at: Nat]:
     e.ref \in {e.count, ProviderDiff}}
UserMessages ==
  [type: {"thread.message-sent"}, id: Nat, role: {"user"}, text: {<<>>}, turn: {None},
   streaming: {FALSE}, at: Nat]
AssistantMessages ==
  [type: {"thread.message-sent"}, id: Nat, role: {"assistant"}, text: {<<>>},
   turn: Turns, streaming: {FALSE}, at: Nat]
SessionSets ==
  [type: {"thread.session-set"}, status: {"running", "ready", "error"},
   turn: Turns \union {None}, at: Nat]
Reverts == [type: {"thread.reverted"}, count: Nat]

Point(e) == [turn |-> e.turn, count |-> e.count, ref |-> e.ref, status |-> e.status]

LEMMA QuietThread ==
  ASSUME NEW t, IsThread(t),
         NEW e \in Starts \union Requests \union UserMessages \union AssistantMessages
  PROVE  /\ IsThread(ProjectThread(t, e))
         /\ ProjectThread(t, e).checkpoints = t.checkpoints
         /\ ProjectThread(t, e).session = t.session
<1>1. CASE e \in Starts \union Requests
  <2>1. e.type \in {"thread.turn-start-requested", "thread.checkpoint-revert-requested"}
    BY <1>1 DEF Starts, Requests
  <2>2. ProjectThread(t, e) = t  BY <2>1 DEF ProjectThread
  <2> QED  BY <2>2
<1>2. CASE e \in UserMessages \union AssistantMessages
  <2>1. e.type = "thread.message-sent"  BY <1>2 DEF UserMessages, AssistantMessages
  <2>2. ProjectThread(t, e) = MessageSent(t, e)  BY <2>1 DEF ProjectThread
  <2>3. PICK m: MessageSent(t, e) = [t EXCEPT !.messages = m]  BY DEF MessageSent
  <2>4. PICK u: u = [t EXCEPT !.messages = m]  OBVIOUS
  <2>5. u = [f \in ThreadFields |-> u[f]] /\ u.checkpoints = t.checkpoints
          /\ u.session = t.session
    BY <2>4 DEF IsThread, ThreadFields
  <2> QED  BY <2>2, <2>3, <2>4, <2>5 DEF IsThread
<1> QED  BY <1>1, <1>2

LEMMA SessionThread ==
  ASSUME NEW t, IsThread(t), NEW e \in SessionSets
  PROVE  /\ IsThread(ProjectThread(t, e))
         /\ ProjectThread(t, e).checkpoints = t.checkpoints
         /\ ProjectThread(t, e).session = [status |-> e.status, turn |-> e.turn]
<1>1. e.type = "thread.session-set"  BY DEF SessionSets
<1>2. ProjectThread(t, e) = SessionSet(t, e)  BY <1>1 DEF ProjectThread
<1>3. PICK l: SessionSet(t, e) = [t EXCEPT !.session = [status |-> e.status,
                                                       turn |-> e.turn],
                                           !.latestTurn = l]
  BY DEF SessionSet
<1>4. PICK s: s = [status |-> e.status, turn |-> e.turn]  OBVIOUS
<1>5. s \in Session  BY <1>4 DEF Session, SessionSets
<1>6. PICK u: u = [t EXCEPT !.session = s, !.latestTurn = l]  OBVIOUS
<1>7. u = [f \in ThreadFields |-> u[f]] /\ u.checkpoints = t.checkpoints
        /\ u.session = s
  BY <1>6 DEF IsThread, ThreadFields
<1> QED  BY <1>2, <1>3, <1>4, <1>5, <1>6, <1>7 DEF IsThread

(* A placeholder of a captured turn changes nothing. *)
LEMMA DiffThread ==
  ASSUME NEW t, IsThread(t), NEW e \in Diffs
  PROVE  /\ IsThread(ProjectThread(t, e))
         /\ ProjectThread(t, e).session = t.session
         /\ \/ /\ e.status = "missing" /\ Captured(t.checkpoints, e.turn)
               /\ ProjectThread(t, e).checkpoints = t.checkpoints
            \/ /\ ~ (e.status = "missing" /\ Captured(t.checkpoints, e.turn))
               /\ ProjectThread(t, e).checkpoints
                    = KeepLast(UpsertCheckpoint(t.checkpoints, Point(e)), MaxCheckpoints)
<1>1. e.type = "thread.turn-diff-completed"  BY DEF Diffs
<1>2. ProjectThread(t, e) = TurnDiffCompleted(t, e)  BY <1>1 DEF ProjectThread
<1>3. (\E i \in DOMAIN t.checkpoints:
         t.checkpoints[i].turn = e.turn /\ t.checkpoints[i].status # "missing")
        <=> Captured(t.checkpoints, e.turn)
  <2>1. DOMAIN t.checkpoints = 1 .. Len(t.checkpoints)  BY DEF IsThread
  <2> QED  BY <2>1 DEF Captured, ToSet
<1>4. CASE e.status = "missing" /\ Captured(t.checkpoints, e.turn)
  <2>1. TurnDiffCompleted(t, e) = t  BY <1>3, <1>4 DEF TurnDiffCompleted
  <2> QED  BY <1>2, <1>4, <2>1
<1>5. CASE ~ (e.status = "missing" /\ Captured(t.checkpoints, e.turn))
  <2>1. PICK c: c = Point(e)  OBVIOUS
  <2>2. c \in Checkpoint  BY <2>1 DEF Checkpoint, Diffs, Point
  <2>3. PICK l: TurnDiffCompleted(t, e)
                 = [t EXCEPT !.checkpoints = KeepLast(UpsertCheckpoint(@, c), MaxCheckpoints),
                             !.latestTurn = l]
    BY <1>3, <1>5, <2>1 DEF TurnDiffCompleted, Point
  <2>4. PICK cs: cs = UpsertCheckpoint(t.checkpoints, c)  OBVIOUS
  <2>5. cs \in Seq(Checkpoint)
          /\ \A i, j \in 1 .. Len(cs): cs[i].turn = cs[j].turn => i = j
    BY <2>2, <2>4, Upserting DEF IsThread
  <2>6. MaxCheckpoints \in Nat  BY BoundsAssumption
  <2>7. PICK ks: ks = KeepLast(cs, MaxCheckpoints)  OBVIOUS
  <2>8. ks \in Seq(Checkpoint)
          /\ \A i, j \in 1 .. Len(ks): ks[i].turn = ks[j].turn => i = j
    <3>1. ks \in Seq(Checkpoint)  BY <2>5, <2>6, <2>7, KeepLastTyped
    <3>2. \A i, j \in 1 .. Len(KeepLast(cs, MaxCheckpoints)):
            KeepLast(cs, MaxCheckpoints)[i].turn = KeepLast(cs, MaxCheckpoints)[j].turn
              => i = j
      BY <2>5, <2>6, KeepLastInjective
    <3> QED  BY <2>7, <3>1, <3>2
  <2>9. PICK u: u = [t EXCEPT !.checkpoints = ks, !.latestTurn = l]  OBVIOUS
  <2>10. u = [f \in ThreadFields |-> u[f]] /\ u.checkpoints = ks /\ u.session = t.session
    BY <2>9 DEF IsThread, ThreadFields
  <2>11. ProjectThread(t, e) = u  BY <1>2, <2>3, <2>4, <2>7, <2>9
  <2>12. IsThread(u)  BY <2>8, <2>10 DEF IsThread
  <2> QED  BY <1>5, <2>1, <2>4, <2>7, <2>10, <2>11, <2>12
<1> QED  BY <1>4, <1>5

LEMMA RevertThread ==
  ASSUME NEW t, IsThread(t), NEW e \in Reverts
  PROVE  /\ IsThread(ProjectThread(t, e))
         /\ ProjectThread(t, e).session = t.session
         /\ ProjectThread(t, e).checkpoints
              = KeepLast(Select(t.checkpoints,
                                {c \in ToSet(t.checkpoints): c.count <= e.count}),
                         MaxCheckpoints)
<1>1. e.type = "thread.reverted"  BY DEF Reverts
<1>2. ProjectThread(t, e) = Reverted(t, e)  BY <1>1 DEF ProjectThread
<1>3. PICK S: S = {c \in ToSet(t.checkpoints): c.count <= e.count}  OBVIOUS
<1>4. PICK cs: cs = Select(t.checkpoints, S)  OBVIOUS
<1>5. PICK ks: ks = KeepLast(cs, MaxCheckpoints)  OBVIOUS
<1>6. PICK m, p, a, l:
         Reverted(t, e) = [t EXCEPT !.checkpoints = ks, !.messages = m, !.plans = p,
                                    !.activities = a, !.latestTurn = l]
  BY <1>3, <1>4, <1>5 DEF Reverted
<1>7. PICK u: u = [t EXCEPT !.checkpoints = ks, !.messages = m, !.plans = p,
                            !.activities = a, !.latestTurn = l]  OBVIOUS
<1>8. u = [f \in ThreadFields |-> u[f]] /\ u.checkpoints = ks /\ u.session = t.session
  BY <1>7 DEF IsThread, ThreadFields
<1>9. cs \in Seq(Checkpoint) /\ MaxCheckpoints \in Nat
  BY <1>4, SelectTyped, BoundsAssumption DEF IsThread
<1>10. \A i, j \in 1 .. Len(cs): cs[i].turn = cs[j].turn => i = j
  <2>1. \A i, j \in 1 .. Len(t.checkpoints):
          t.checkpoints[i] = t.checkpoints[j] => i = j
    BY DEF IsThread
  <2>2. PICK x: x = t.checkpoints  OBVIOUS
  <2>3. x \in Seq(Checkpoint)  BY <2>2 DEF IsThread
  <2>4. \A i, j \in 1 .. Len(Select(x, S)): Select(x, S)[i] = Select(x, S)[j] => i = j
    BY <2>1, <2>2, <2>3, SelectInjective
  <2>5. \A i \in 1 .. Len(cs): cs[i] \in ToSet(x)
    <3>1. ToSet(Select(x, S)) = ToSet(x) \intersect S  BY <2>3, SelectTyped
    <3>2. DOMAIN cs = 1 .. Len(cs)  BY <1>9
    <3>3. \A i \in 1 .. Len(cs): cs[i] \in ToSet(cs)  BY <3>2 DEF ToSet
    <3> QED  BY <1>4, <2>2, <3>1, <3>3
  <2>6. \A c, d \in ToSet(x): c.turn = d.turn => c = d
    <3>1. DOMAIN x = 1 .. Len(x)  BY <2>3
    <3>2. \A i, j \in 1 .. Len(x): x[i].turn = x[j].turn => i = j  BY <2>2 DEF IsThread
    <3> QED  BY <3>1, <3>2 DEF ToSet
  <2> QED  BY <1>4, <2>2, <2>4, <2>5, <2>6
<1>11. ks \in Seq(Checkpoint)  BY <1>5, <1>9, KeepLastTyped
<1>12. \A i, j \in 1 .. Len(ks): ks[i].turn = ks[j].turn => i = j
  <2>1. \A i, j \in 1 .. Len(KeepLast(cs, MaxCheckpoints)):
          KeepLast(cs, MaxCheckpoints)[i].turn = KeepLast(cs, MaxCheckpoints)[j].turn
            => i = j
    BY <1>9, <1>10, KeepLastInjective
  <2> QED  BY <1>5, <2>1
<1>13. IsThread(u)  BY <1>8, <1>11, <1>12 DEF IsThread
<1>14. ProjectThread(t, e) = u  BY <1>2, <1>6, <1>7
<1> QED  BY <1>3, <1>4, <1>5, <1>8, <1>13, <1>14

(******************************** The SQL rows *****************************)
RowFields == {"messages", "plans", "activities", "session", "turns", "pending"}
TurnRecord ==
  [turn: Turns, message: Nat \union {None}, assistant: Nat \union {None},
   state: {"running", "completed", "error"}, requested: Nat, count: Nat \union {None},
   ref: Nat \union {ProviderDiff, None}, status: Statuses \union {None}]

AreTurns(turns) ==
  /\ turns \subseteq TurnRecord
  /\ CheckpointRows(turns) \subseteq Checkpoint
  /\ \A r, q \in turns: r.turn = q.turn => r = q
  /\ \A r, q \in turns: r.count # None /\ r.count = q.count => r = q

IsRows(r) ==
  /\ r = [f \in RowFields |-> r[f]]
  /\ AreTurns(r.turns)
  /\ r.pending \in [message: Nat \union {None}, at: Nat]
  /\ r.session \in Session

LEMMA PointsAreRows ==
  ASSUME NEW turns, NEW c
  PROVE  c \in CheckpointRows(turns) <=> \E r \in turns: r.count # None /\ c = Point(r)
BY DEF CheckpointRows, Point

(* The checkpoints of the rows can be told by their turns and by their counts. *)
LEMMA RowKeys ==
  ASSUME NEW turns, AreTurns(turns)
  PROVE  /\ \A c, d \in CheckpointRows(turns): c.turn = d.turn => c = d
         /\ \A c, d \in CheckpointRows(turns): c.count = d.count => c = d
         /\ IsFiniteSet(CheckpointRows(turns))
<1>1. \A c \in CheckpointRows(turns): \E r \in turns:
        r.count # None /\ c = Point(r) /\ c.turn = r.turn /\ c.count = r.count
  BY PointsAreRows DEF Point
<1>2. \A c, d \in CheckpointRows(turns): c.turn = d.turn => c = d
  BY <1>1 DEF AreTurns
<1>3. \A c, d \in CheckpointRows(turns): c.count = d.count => c = d
  BY <1>1 DEF AreTurns
<1>4. IsFiniteSet(CheckpointRows(turns))  BY <1>2, FiniteCheckpoints DEF AreTurns
<1> QED  BY <1>2, <1>3, <1>4

(* What the server loads when it starts. *)
LEMMA LoadedCheckpoints ==
  ASSUME IsRows(rows)
  PROVE  /\ Loaded.checkpoints = ByCount(CheckpointRows(rows.turns))
         /\ Loaded.session = rows.session
         /\ ToSet(Loaded.checkpoints) = CheckpointRows(rows.turns)
<1>1. Loaded.checkpoints = ByCount(CheckpointRows(rows.turns))
  BY DEF Loaded, HydrateThread, EmptyThread
<1>2. Loaded.session = rows.session  BY DEF Loaded, HydrateThread, EmptyThread
<1>3. PICK S: S = CheckpointRows(rows.turns)  OBVIOUS
<1>4. IsFiniteSet(S) /\ \A x, y \in S: x.count = y.count => x = y
  BY <1>3, RowKeys DEF IsRows
<1>5. \A x \in S: x.count \in Nat  BY <1>3 DEF IsRows, AreTurns, Checkpoint
<1>6. ToSet(ByCount(S)) = S  BY <1>4, <1>5, ByCountTyped
<1> QED  BY <1>1, <1>2, <1>3, <1>6

(* A row replaced: what is left of the checkpoints, and the row's own. *)
LEMMA UpsertingTurn ==
  ASSUME NEW turns, AreTurns(turns), NEW q \in TurnRecord,
         q.count # None => Point(q) \in Checkpoint,
         \A r \in turns: r.count # None /\ r.count = q.count => r.turn = q.turn
  PROVE  /\ AreTurns(UpsertTurn(turns, q))
         /\ \A c: c \in CheckpointRows(UpsertTurn(turns, q)) <=>
                    \/ c \in CheckpointRows(turns) /\ c.turn # q.turn
                    \/ q.count # None /\ c = Point(q)
<1>1. \A r: r \in UpsertTurn(turns, q) <=> (r \in turns /\ r.turn # q.turn) \/ r = q
  BY DEF UpsertTurn
<1>2. ASSUME NEW c
      PROVE  c \in CheckpointRows(UpsertTurn(turns, q)) <=>
                    \/ c \in CheckpointRows(turns) /\ c.turn # q.turn
                    \/ q.count # None /\ c = Point(q)
  <2>1. \A r: Point(r).turn = r.turn  BY DEF Point
  <2>2. c \in CheckpointRows(UpsertTurn(turns, q)) <=>
          \E r \in UpsertTurn(turns, q): r.count # None /\ c = Point(r)
    BY PointsAreRows
  <2>3. c \in CheckpointRows(turns) <=> \E r \in turns: r.count # None /\ c = Point(r)
    BY PointsAreRows
  <2> QED  BY <1>1, <2>1, <2>2, <2>3
<1>3. UpsertTurn(turns, q) \subseteq TurnRecord  BY <1>1 DEF AreTurns
<1>4. CheckpointRows(UpsertTurn(turns, q)) \subseteq Checkpoint
  BY <1>2 DEF AreTurns
<1>5. \A r, p \in UpsertTurn(turns, q): r.turn = p.turn => r = p
  BY <1>1 DEF AreTurns
<1>6. \A r, p \in UpsertTurn(turns, q): r.count # None /\ r.count = p.count => r = p
  BY <1>1 DEF AreTurns
<1> QED  BY <1>2, <1>3, <1>4, <1>5, <1>6 DEF AreTurns

(* The row of a turn, found or made, keeps the count and ref it has. *)
LEMMA TurnRowTyped ==
  ASSUME NEW r, IsRows(r), NEW t \in Turns, NEW at \in Nat
  PROVE  /\ TurnRow(r, t, at) \in TurnRecord
         /\ TurnRow(r, t, at).turn = t
         /\ \/ TurnRow(r, t, at) \in r.turns
            \/ /\ TurnRow(r, t, at).count = None
               /\ \A x \in r.turns: x.turn # t
<1>1. CASE \E x \in r.turns: x.turn = t
  <2>1. PICK x: x = CHOOSE y \in r.turns: y.turn = t  OBVIOUS
  <2>2. x \in r.turns /\ x.turn = t  BY <1>1, <2>1
  <2>3. TurnRow(r, t, at) = x  BY <1>1, <2>1 DEF TurnRow
  <2> QED  BY <2>2, <2>3 DEF IsRows, AreTurns
<1>2. CASE ~ \E x \in r.turns: x.turn = t
  <2>1. PICK x: x = [turn |-> t, message |-> None, assistant |-> None,
                     state |-> "running", requested |-> at, count |-> None,
                     ref |-> None, status |-> None]  OBVIOUS
  <2>2. TurnRow(r, t, at) = x  BY <1>2, <2>1 DEF TurnRow
  <2>3. x \in TurnRecord  BY <2>1 DEF TurnRecord
  <2> QED  BY <1>2, <2>1, <2>2, <2>3
<1> QED  BY <1>1, <1>2

(* A row rewritten without touching its checkpoint. *)
LEMMA RewritingTurn ==
  ASSUME NEW r, IsRows(r), NEW t \in Turns, NEW at \in Nat, NEW o, o = TurnRow(r, t, at),
         NEW q \in TurnRecord, q.turn = o.turn, q.count = o.count, Point(q) = Point(o)
  PROVE  /\ AreTurns(UpsertTurn(r.turns, q))
         /\ CheckpointRows(UpsertTurn(r.turns, q)) = CheckpointRows(r.turns)
<1>1. /\ o \in TurnRecord /\ o.turn = t
      /\ o \in r.turns \/ (o.count = None /\ \A x \in r.turns: x.turn # t)
  BY TurnRowTyped
<1>2. AreTurns(r.turns)  BY DEF IsRows
<1>3. q.count # None => Point(q) \in Checkpoint
  BY <1>1, <1>2, PointsAreRows DEF AreTurns
<1>4. \A x \in r.turns: x.count # None /\ x.count = q.count => x.turn = q.turn
  BY <1>1, <1>2 DEF AreTurns
<1>5. /\ AreTurns(UpsertTurn(r.turns, q))
      /\ \A c: c \in CheckpointRows(UpsertTurn(r.turns, q)) <=>
                    \/ c \in CheckpointRows(r.turns) /\ c.turn # q.turn
                    \/ q.count # None /\ c = Point(q)
  BY <1>2, <1>3, <1>4, UpsertingTurn
<1>6. ASSUME NEW c
      PROVE  (c \in CheckpointRows(r.turns) /\ c.turn # q.turn)
               \/ (q.count # None /\ c = Point(q)) <=> c \in CheckpointRows(r.turns)
  <2>1. c \in CheckpointRows(r.turns) <=> \E x \in r.turns: x.count # None /\ c = Point(x)
    BY PointsAreRows
  <2>2. \A x: Point(x).turn = x.turn  BY DEF Point
  <2> QED  BY <1>1, <1>2, <2>1, <2>2 DEF AreTurns
<1> QED  BY <1>5, <1>6

LEMMA QuietRows ==
  ASSUME NEW r, IsRows(r), NEW e \in Starts \union Requests \union UserMessages
  PROVE  /\ IsRows(ProjectRows(r, e))
         /\ ProjectRows(r, e).turns = r.turns
         /\ ProjectRows(r, e).session = r.session
<1>1. CASE e \in Requests
  <2>1. e.type = "thread.checkpoint-revert-requested"  BY <1>1 DEF Requests
  <2>2. ProjectRows(r, e) = r  BY <2>1 DEF ProjectRows
  <2> QED  BY <2>2
<1>2. CASE e \in Starts
  <2>1. e.type = "thread.turn-start-requested" /\ e.id \in Nat /\ e.at \in Nat
    BY <1>2 DEF Starts
  <2>2. PICK p: p = [message |-> e.id, at |-> e.at]  OBVIOUS
  <2>3. p \in [message: Nat \union {None}, at: Nat]  BY <2>1, <2>2
  <2>4. PICK u: u = [r EXCEPT !.pending = p]  OBVIOUS
  <2>5. ProjectRows(r, e) = u  BY <2>1, <2>2, <2>4 DEF ProjectRows
  <2>6. u = [f \in RowFields |-> u[f]] /\ u.turns = r.turns /\ u.session = r.session
          /\ u.pending = p
    BY <2>4 DEF IsRows, RowFields
  <2> QED  BY <2>3, <2>5, <2>6 DEF IsRows
<1>3. CASE e \in UserMessages
  <2>1. e.type = "thread.message-sent" /\ e.role = "user"  BY <1>3 DEF UserMessages
  <2>2. PICK m: m = UpsertRow(r.messages, MessageRow(r, e))  OBVIOUS
  <2>3. PICK u: u = [r EXCEPT !.messages = m, !.turns = r.turns]  OBVIOUS
  <2>4. ProjectRows(r, e) = u  BY <2>1, <2>2, <2>3 DEF ProjectRows, ProjectMessage
  <2>5. u = [f \in RowFields |-> u[f]] /\ u.turns = r.turns /\ u.session = r.session
          /\ u.pending = r.pending
    BY <2>3 DEF IsRows, RowFields
  <2> QED  BY <2>4, <2>5 DEF IsRows
<1> QED  BY <1>1, <1>2, <1>3

LEMMA AssistantRows ==
  ASSUME NEW r, IsRows(r), NEW e \in AssistantMessages
  PROVE  /\ IsRows(ProjectRows(r, e))
         /\ CheckpointRows(ProjectRows(r, e).turns) = CheckpointRows(r.turns)
         /\ ProjectRows(r, e).session = r.session
<1>1. /\ e.type = "thread.message-sent" /\ e.role = "assistant"
      /\ e.turn \in Turns /\ e.at \in Nat /\ e.id \in Nat /\ e.streaming = FALSE
  BY DEF AssistantMessages
<1>2. e.turn # None  BY <1>1, ValuesAssumption DEF Turns
<1>3. PICK o: o = TurnRow(r, e.turn, e.at)  OBVIOUS
<1>4. o \in TurnRecord  BY <1>1, <1>3, TurnRowTyped
<1>5. PICK st: st = IF o.state \in {"interrupted", "error"} THEN o.state ELSE "completed"
  OBVIOUS
<1>6. st \in {"running", "completed", "error"}  BY <1>4, <1>5 DEF TurnRecord
<1>7. PICK q: q = [o EXCEPT !.assistant = e.id, !.state = st]  OBVIOUS
<1>8. MessageTurn(r, e) = q  BY <1>1, <1>3, <1>5, <1>7 DEF MessageTurn
<1>9. /\ q \in TurnRecord /\ q.turn = o.turn /\ q.count = o.count /\ q.ref = o.ref
      /\ q.status = o.status
  BY <1>1, <1>4, <1>6, <1>7 DEF TurnRecord
<1>10. Point(q) = Point(o)  BY <1>9 DEF Point
<1>11. PICK ts: ts = UpsertTurn(r.turns, q)  OBVIOUS
<1>12. AreTurns(ts) /\ CheckpointRows(ts) = CheckpointRows(r.turns)
  BY <1>1, <1>3, <1>9, <1>10, <1>11, RewritingTurn
<1>13. PICK m: m = UpsertRow(r.messages, MessageRow(r, e))  OBVIOUS
<1>14. PICK u: u = [r EXCEPT !.messages = m, !.turns = ts]  OBVIOUS
<1>15. ProjectRows(r, e) = u
  BY <1>1, <1>2, <1>8, <1>11, <1>13, <1>14 DEF ProjectRows, ProjectMessage
<1>16. u = [f \in RowFields |-> u[f]] /\ u.turns = ts /\ u.session = r.session
         /\ u.pending = r.pending
  BY <1>14 DEF IsRows, RowFields
<1> QED  BY <1>12, <1>15, <1>16 DEF IsRows

LEMMA SessionRows ==
  ASSUME NEW r, IsRows(r), NEW e \in SessionSets
  PROVE  /\ IsRows(ProjectRows(r, e))
         /\ CheckpointRows(ProjectRows(r, e).turns) = CheckpointRows(r.turns)
         /\ ProjectRows(r, e).session = [status |-> e.status, turn |-> e.turn]
<1>1. /\ e.type = "thread.session-set" /\ e.at \in Nat
      /\ e.turn \in Turns \union {None} /\ e.status \in {"running", "ready", "error"}
  BY DEF SessionSets
<1>2. PICK s: s = [status |-> e.status, turn |-> e.turn]  OBVIOUS
<1>3. s \in Session  BY <1>1, <1>2 DEF Session
<1>4. CASE ~ (e.status = "running" /\ e.turn # None)
  <2>1. PICK u: u = [r EXCEPT !.session = s, !.turns = r.turns, !.pending = r.pending]
    OBVIOUS
  <2>2. ProjectRows(r, e) = u
    BY <1>1, <1>2, <1>4, <2>1 DEF ProjectRows, ProjectSession
  <2>3. u = [f \in RowFields |-> u[f]] /\ u.turns = r.turns /\ u.session = s
          /\ u.pending = r.pending
    BY <2>1 DEF IsRows, RowFields
  <2> QED  BY <1>2, <1>3, <2>2, <2>3 DEF IsRows
<1>5. CASE e.status = "running" /\ e.turn # None
  <2>1. PICK at: at = IF r.pending = NoPending THEN e.at ELSE r.pending.at  OBVIOUS
  <2>2. at \in Nat /\ e.turn \in Turns /\ r.pending.message \in Nat \union {None}
    BY <1>1, <1>5, <2>1 DEF IsRows
  <2>3. PICK o: o = TurnRow(r, e.turn, at)  OBVIOUS
  <2>4. o \in TurnRecord  BY <2>2, <2>3, TurnRowTyped
  <2>5. PICK ms: ms = IF o.message = None THEN r.pending.message ELSE o.message  OBVIOUS
  <2>6. PICK st: st = IF o.state \in {"completed", "error"} THEN o.state ELSE "running"
    OBVIOUS
  <2>7. ms \in Nat \union {None} /\ st \in {"running", "completed", "error"}
    BY <2>2, <2>4, <2>5, <2>6 DEF TurnRecord
  <2>8. PICK q: q = [o EXCEPT !.message = ms, !.state = st]  OBVIOUS
  <2>9. RunningTurn(r, e) = q  BY <2>1, <2>3, <2>5, <2>6, <2>8 DEF RunningTurn
  <2>10. /\ q \in TurnRecord /\ q.turn = o.turn /\ q.count = o.count /\ q.ref = o.ref
         /\ q.status = o.status
    BY <2>4, <2>7, <2>8 DEF TurnRecord
  <2>11. Point(q) = Point(o)  BY <2>10 DEF Point
  <2>12. PICK ts: ts = UpsertTurn(r.turns, q)  OBVIOUS
  <2>13. AreTurns(ts) /\ CheckpointRows(ts) = CheckpointRows(r.turns)
    BY <2>2, <2>3, <2>10, <2>11, <2>12, RewritingTurn
  <2>14. PICK u: u = [r EXCEPT !.session = s, !.turns = ts, !.pending = NoPending]
    OBVIOUS
  <2>15. ProjectRows(r, e) = u
    BY <1>1, <1>2, <1>5, <2>9, <2>12, <2>14 DEF ProjectRows, ProjectSession
  <2>16. u = [f \in RowFields |-> u[f]] /\ u.turns = ts /\ u.session = s
           /\ u.pending = NoPending
    BY <2>14 DEF IsRows, RowFields
  <2>17. NoPending \in [message: Nat \union {None}, at: Nat]  BY DEF NoPending
  <2> QED  BY <1>2, <1>3, <2>13, <2>15, <2>16, <2>17 DEF IsRows
<1> QED  BY <1>4, <1>5

(* What a count loses when another turn takes it over. *)
LEMMA ClearingConflict ==
  ASSUME NEW turns, AreTurns(turns), NEW t \in Turns, NEW n \in Nat \ {0}
  PROVE  /\ AreTurns(ClearConflict(turns, t, n))
         /\ \A r \in ClearConflict(turns, t, n): r.count = n => r.turn = t
         /\ \A c: c \in CheckpointRows(ClearConflict(turns, t, n)) <=>
                    c \in CheckpointRows(turns) /\ (c.count # n \/ c.turn = t)
<1> DEFINE Cleared(r) == [r EXCEPT !.count = None, !.ref = None, !.status = None]
           Hit(r) == r.count = n /\ r.turn # t
<1>1. \A r: r \in ClearConflict(turns, t, n) <=>
        \E x \in turns: (Hit(x) /\ r = Cleared(x)) \/ (~Hit(x) /\ r = x)
  BY DEF ClearConflict
<1>2. \A x \in TurnRecord: /\ Cleared(x) \in TurnRecord /\ Cleared(x).turn = x.turn
                           /\ Cleared(x).count = None
  BY DEF TurnRecord
<1>3. turns \subseteq TurnRecord /\ None # n  BY ValuesAssumption DEF AreTurns
<1> HIDE DEF Cleared
<1>4. \A r \in ClearConflict(turns, t, n): r.count = n => r.turn = t
  BY <1>1, <1>2, <1>3
<1>5. ASSUME NEW c
      PROVE  c \in CheckpointRows(ClearConflict(turns, t, n)) <=>
                    c \in CheckpointRows(turns) /\ (c.count # n \/ c.turn = t)
  <2>1. \A r: Point(r).turn = r.turn /\ Point(r).count = r.count  BY DEF Point
  <2>2. c \in CheckpointRows(ClearConflict(turns, t, n)) <=>
          \E r \in ClearConflict(turns, t, n): r.count # None /\ c = Point(r)
    BY PointsAreRows
  <2>3. c \in CheckpointRows(turns) <=> \E r \in turns: r.count # None /\ c = Point(r)
    BY PointsAreRows
  <2> QED  BY <1>1, <1>2, <1>3, <2>1, <2>2, <2>3
<1>6. ClearConflict(turns, t, n) \subseteq TurnRecord  BY <1>1, <1>2, <1>3
<1>7. CheckpointRows(ClearConflict(turns, t, n)) \subseteq Checkpoint
  BY <1>5 DEF AreTurns
<1>8. ASSUME NEW r \in ClearConflict(turns, t, n), NEW p \in ClearConflict(turns, t, n)
      PROVE  /\ r.turn = p.turn => r = p
             /\ r.count # None /\ r.count = p.count => r = p
  <2>1. PICK x \in turns: (Hit(x) /\ r = Cleared(x)) \/ (~Hit(x) /\ r = x)  BY <1>1
  <2>2. PICK y \in turns: (Hit(y) /\ p = Cleared(y)) \/ (~Hit(y) /\ p = y)  BY <1>1
  <2>3. r.turn = x.turn /\ p.turn = y.turn  BY <1>2, <1>3, <2>1, <2>2
  <2>4. r.turn = p.turn => r = p
    <3>1. r.turn = p.turn => x = y  BY <2>3 DEF AreTurns
    <3> QED  BY <2>1, <2>2, <3>1
  <2>5. r.count # None /\ r.count = p.count => r = p
    <3>1. r.count # None => ~Hit(x) /\ r = x  BY <1>2, <1>3, <2>1
    <3>2. p.count # None => ~Hit(y) /\ p = y  BY <1>2, <1>3, <2>2
    <3> QED  BY <3>1, <3>2 DEF AreTurns
  <2> QED  BY <2>4, <2>5
<1>9. (\A r, p \in ClearConflict(turns, t, n): r.turn = p.turn => r = p)
        /\ (\A r, p \in ClearConflict(turns, t, n):
              r.count # None /\ r.count = p.count => r = p)
  BY <1>8
<1>10. AreTurns(ClearConflict(turns, t, n))  BY <1>6, <1>7, <1>9 DEF AreTurns
<1> QED  BY <1>4, <1>5, <1>10

LEMMA DiffRows ==
  ASSUME NEW r, IsRows(r), NEW e \in Diffs
  PROVE  /\ IsRows(ProjectRows(r, e))
         /\ ProjectRows(r, e).session = r.session
         /\ \A c: c \in CheckpointRows(ProjectRows(r, e).turns) <=>
                    \/ c \in CheckpointRows(r.turns) /\ c.turn # e.turn /\ c.count # e.count
                    \/ c = Point(e)
<1>1. /\ e.type = "thread.turn-diff-completed" /\ e.turn \in Turns /\ e.at \in Nat
      /\ e.count \in Nat \ {0} /\ e.ref \in Nat \union {ProviderDiff}
      /\ e.status \in Statuses /\ e.assistant \in Nat
      /\ e.ref \in {e.count, ProviderDiff}
  BY DEF Diffs
<1>2. PICK o: o = TurnRow(r, e.turn, e.at)  OBVIOUS
<1>3. o \in TurnRecord /\ o.turn = e.turn  BY <1>1, <1>2, TurnRowTyped
<1>4. PICK st: st = IF e.status = "error" THEN "error" ELSE "completed"  OBVIOUS
<1>5. st \in {"running", "completed", "error"}  BY <1>4
<1>6. PICK q: q = [o EXCEPT !.assistant = e.assistant, !.state = st, !.count = e.count,
                            !.ref = e.ref, !.status = e.status]  OBVIOUS
<1>7. DiffTurn(r, e) = q  BY <1>2, <1>4, <1>6 DEF DiffTurn
<1>8. /\ q \in TurnRecord /\ q.turn = e.turn /\ q.count = e.count /\ q.ref = e.ref
      /\ q.status = e.status
  BY <1>1, <1>3, <1>5, <1>6 DEF TurnRecord
<1>9. Point(q) = Point(e) /\ Point(q) \in Checkpoint
  BY <1>1, <1>8 DEF Point, Checkpoint
<1>10. PICK cl: cl = ClearConflict(r.turns, e.turn, e.count)  OBVIOUS
<1>11. /\ AreTurns(cl)
       /\ \A x \in cl: x.count = e.count => x.turn = e.turn
       /\ \A c: c \in CheckpointRows(cl) <=>
                    c \in CheckpointRows(r.turns) /\ (c.count # e.count \/ c.turn = e.turn)
  BY <1>1, <1>10, ClearingConflict DEF IsRows
<1>12. PICK ts: ts = UpsertTurn(cl, q)  OBVIOUS
<1>13. \A x \in cl: x.count # None /\ x.count = q.count => x.turn = q.turn
  BY <1>8, <1>11
<1>14. /\ AreTurns(ts)
       /\ \A c: c \in CheckpointRows(ts) <=>
                    \/ c \in CheckpointRows(cl) /\ c.turn # q.turn
                    \/ q.count # None /\ c = Point(q)
  BY <1>8, <1>9, <1>11, <1>12, <1>13, UpsertingTurn
<1>15. q.count # None  BY <1>1, <1>8, ValuesAssumption
<1>16. PICK u: u = [r EXCEPT !.turns = ts]  OBVIOUS
<1>17. ProjectRows(r, e) = u
  BY <1>1, <1>7, <1>10, <1>12, <1>16 DEF ProjectRows, ProjectDiff
<1>18. u = [f \in RowFields |-> u[f]] /\ u.turns = ts /\ u.session = r.session
         /\ u.pending = r.pending
  BY <1>16 DEF IsRows, RowFields
<1>19. IsRows(u)  BY <1>14, <1>18 DEF IsRows
<1>20. \A c: c \in CheckpointRows(ts) <=>
                    \/ c \in CheckpointRows(r.turns) /\ c.turn # e.turn /\ c.count # e.count
                    \/ c = Point(e)
  BY <1>8, <1>9, <1>11, <1>14, <1>15
<1> QED  BY <1>17, <1>18, <1>19, <1>20

LEMMA RevertRows ==
  ASSUME NEW r, IsRows(r), NEW e \in Reverts
  PROVE  /\ IsRows(ProjectRows(r, e))
         /\ ProjectRows(r, e).session = r.session
         /\ \A c: c \in CheckpointRows(ProjectRows(r, e).turns) <=>
                    c \in CheckpointRows(r.turns) /\ c.count <= e.count
<1>1. e.type = "thread.reverted"  BY DEF Reverts
<1>2. PICK ts: ts = KeptTurns(r, e.count)  OBVIOUS
<1>3. \A x: x \in ts <=> x \in r.turns /\ x.count # None /\ x.count <= e.count
  BY <1>2 DEF KeptTurns
<1>4. PICK m, p, a: ProjectRevert(r, e)
        = [r EXCEPT !.messages = m, !.plans = p, !.activities = a, !.turns = ts,
                    !.pending = NoPending]
  BY <1>2 DEF ProjectRevert
<1>5. PICK u: u = [r EXCEPT !.messages = m, !.plans = p, !.activities = a, !.turns = ts,
                            !.pending = NoPending]
  OBVIOUS
<1>6. ProjectRows(r, e) = u  BY <1>1, <1>4, <1>5 DEF ProjectRows
<1>7. u = [f \in RowFields |-> u[f]] /\ u.turns = ts /\ u.session = r.session
        /\ u.pending = NoPending
  BY <1>5 DEF IsRows, RowFields
<1>8. ASSUME NEW c
      PROVE  c \in CheckpointRows(ts) <=> c \in CheckpointRows(r.turns) /\ c.count <= e.count
  <2>1. \A x: Point(x).count = x.count  BY DEF Point
  <2>2. c \in CheckpointRows(ts) <=> \E x \in ts: x.count # None /\ c = Point(x)
    BY PointsAreRows
  <2>3. c \in CheckpointRows(r.turns) <=> \E x \in r.turns: x.count # None /\ c = Point(x)
    BY PointsAreRows
  <2> QED  BY <1>3, <2>1, <2>2, <2>3
<1>9. AreTurns(ts)  BY <1>3, <1>8 DEF IsRows, AreTurns
<1>10. NoPending \in [message: Nat \union {None}, at: Nat]  BY DEF NoPending
<1>11. IsRows(u)  BY <1>7, <1>9, <1>10 DEF IsRows
<1> QED  BY <1>6, <1>7, <1>8, <1>11

(****************************** The type invariant *************************)
Reports == [type: {"turn.diff.updated"}, turn: Turns]
Bounds  == [type: {"turn.started"}, turn: Turns]
             \union [type: {"turn.completed"}, turn: Turns, state: TurnEnd, at: Nat]
Seen == [event: Reports \union Bounds, active: Turns \union {None},
         checkpoints: Seq(Checkpoint)]
Queued == Starts \union Requests \union Diffs

Capturing == job.step \in {"capture", "record"}
Reverting == job.step \in {"restore", "rollback", "delete", "complete"}
Job ==
  [step: {"idle", "baseline", "capture", "record", "restore", "rollback", "delete",
          "complete"},
   turn: Turns \union {None}, count: Nat, status: Statuses \union {"none"},
   ref: Nat \union {ProviderDiff, None}, current: Nat,
   stale: SUBSET (Nat \union {ProviderDiff})]

EngineTyped == IsThread(th) /\ IsRows(rows) /\ rows.session = th.session

WorldTyped ==
  /\ sent \in 0 .. MaxTurns /\ provider \in [turn: 0 .. MaxTurns, running: BOOLEAN]
  /\ provider.turn <= sent /\ (provider.running => provider.turn # 0)
  /\ edits \in Nat /\ workspace \in 0 .. edits /\ clock \in Nat
  /\ asked \in Nat /\ answered \in Nat /\ untold \in Nat /\ diffs \in Nat
  /\ failures \in 0 .. MaxFailures

QueuesTyped ==
  /\ ingest \in Seq(Reports \union Bounds) /\ runtimeIn \in Seq(Bounds)
  /\ domainIn \in Seq(Queued)
  /\ seen = None \/ seen \in Seen

JobTyped ==
  /\ job \in Job
  /\ Capturing => job.turn # None /\ job.count # 0 /\ job.status # "none"
  /\ job.step = "idle" => job = NoJob
  /\ \A r \in job.stale: r = ProviderDiff \/ r > job.count

RefsTyped ==
  /\ refs = [n \in DOMAIN refs |-> refs[n]] /\ DOMAIN refs \subseteq Nat
  /\ \A n \in DOMAIN refs: refs[n] \in 0 .. edits
  /\ torn \subseteq Nat \union {ProviderDiff}

Typed == EngineTyped /\ WorldTyped /\ QueuesTyped /\ JobTyped /\ RefsTyped

(************************ What a dispatch does *****************************)
LEMMA SelectOne ==
  ASSUME NEW e, NEW S
  PROVE  Select(<<e>>, S) = IF e \in S THEN <<e>> ELSE <<>>
<1>1. PICK s: s = <<e>>  OBVIOUS
<1>0. PICK U: U = {e}  OBVIOUS
<1>2. s \in Seq(U) /\ Len(s) = 1 /\ s[1] = e  BY <1>0, <1>1
<1>3. PICK f: /\ f[0] = <<>> /\ Select(s, S) = f[Len(s)]
              /\ \A n \in 1 .. Len(s):
                   f[n] = IF s[n] \in S THEN Append(f[n - 1], s[n]) ELSE f[n - 1]
  <2>1. s \in Seq(U)  BY <1>2
  <2> QED  BY <2>1, Selecting
<1>4. f[1] = IF e \in S THEN Append(f[0], e) ELSE f[0]
  <2>1. 1 \in 1 .. Len(s) /\ 1 - 1 = 0  BY <1>2
  <2>2. f[1] = IF s[1] \in S THEN Append(f[1 - 1], s[1]) ELSE f[1 - 1]  BY <1>3, <2>1
  <2> QED  BY <1>2, <2>1, <2>2
<1>5. Append(<<>>, e) = <<e>>  OBVIOUS
<1> QED  BY <1>1, <1>2, <1>3, <1>4, <1>5

LEMMA SelectTwo ==
  ASSUME NEW d, NEW e, NEW S, d \notin S
  PROVE  Select(<<d, e>>, S) = IF e \in S THEN <<e>> ELSE <<>>
<1>1. PICK s: s = <<d, e>>  OBVIOUS
<1>0. PICK U: U = {d, e}  OBVIOUS
<1>2. s \in Seq(U) /\ Len(s) = 2 /\ s[1] = d /\ s[2] = e  BY <1>0, <1>1
<1>3. PICK f: /\ f[0] = <<>> /\ Select(s, S) = f[Len(s)]
              /\ \A n \in 1 .. Len(s):
                   f[n] = IF s[n] \in S THEN Append(f[n - 1], s[n]) ELSE f[n - 1]
  <2>1. s \in Seq(U)  BY <1>2
  <2> QED  BY <2>1, Selecting
<1>4. f[1] = f[0]
  <2>1. 1 \in 1 .. Len(s) /\ 1 - 1 = 0  BY <1>2
  <2>2. f[1] = IF s[1] \in S THEN Append(f[1 - 1], s[1]) ELSE f[1 - 1]  BY <1>3, <2>1
  <2> QED  BY <1>2, <2>1, <2>2
<1>5. f[2] = IF e \in S THEN Append(f[1], e) ELSE f[1]
  <2>1. 2 \in 1 .. Len(s) /\ 2 - 1 = 1  BY <1>2
  <2>2. f[2] = IF s[2] \in S THEN Append(f[2 - 1], s[2]) ELSE f[2 - 1]  BY <1>3, <2>1
  <2> QED  BY <1>2, <2>1, <2>2
<1>6. Append(<<>>, e) = <<e>>  OBVIOUS
<1> QED  BY <1>1, <1>2, <1>3, <1>4, <1>5, <1>6

LEMMA DispatchNone ==
  ASSUME domainIn \in Seq(Queued), Dispatch(<<>>)
  PROVE  th' = th /\ rows' = rows /\ domainIn' = domainIn
<1>1. Len(<<>>) = 0  OBVIOUS
<1>2. th' = th /\ rows' = rows  BY <1>1 DEF Dispatch, Projected
<1>3. PICK es: es = <<>>  OBVIOUS
<1>4. PICK S: S = {e \in ToSet(es): Watched(e)}  OBVIOUS
<1>5. domainIn' = domainIn \o Select(es, S)  BY <1>3, <1>4 DEF Dispatch
<1>6. es \in Seq(Queued) /\ ToSet(es) \intersect S = {}
  <2>1. es \in Seq(Queued) /\ Len(es) = 0  BY <1>3
  <2>2. DOMAIN es = {}  BY <1>3
  <2> QED  BY <1>4, <2>1, <2>2 DEF ToSet
<1>7. Select(es, S) = <<>>  BY <1>6, SelectNone
<1>8. domainIn \o <<>> = domainIn  OBVIOUS
<1> QED  BY <1>2, <1>5, <1>7, <1>8

LEMMA DispatchOne ==
  ASSUME domainIn \in Seq(Queued), NEW e, Dispatch(<<e>>)
  PROVE  /\ th' = ProjectThread(th, e) /\ rows' = ProjectRows(rows, e)
         /\ Watched(e) => domainIn' = Append(domainIn, e)
         /\ ~Watched(e) => domainIn' = domainIn
<1>1. Len(<<e>>) = 1 /\ <<e>>[1] = e  OBVIOUS
<1>2. th' = ProjectThread(th, e) /\ rows' = ProjectRows(rows, e)
  BY <1>1 DEF Dispatch, Projected
<1>3. PICK S: S = {x \in ToSet(<<e>>): Watched(x)}  OBVIOUS
<1>4. domainIn' = domainIn \o Select(<<e>>, S)  BY <1>3 DEF Dispatch
<1>5. e \in S <=> Watched(e)
  <2>1. DOMAIN <<e>> = {1}  OBVIOUS
  <2>2. e \in ToSet(<<e>>)  BY <1>1, <2>1 DEF ToSet
  <2> QED  BY <1>3, <2>2
<1>6. domainIn' = domainIn \o (IF Watched(e) THEN <<e>> ELSE <<>>)
  BY <1>4, <1>5, SelectOne
<1>7. CASE Watched(e)
  <2>1. domainIn' = domainIn \o <<e>>  BY <1>6, <1>7
  <2>2. domainIn \o <<e>> = Append(domainIn, e)  OBVIOUS
  <2> QED  BY <1>2, <1>7, <2>1, <2>2
<1>8. CASE ~Watched(e)
  <2>1. domainIn' = domainIn \o <<>>  BY <1>6, <1>8
  <2>2. domainIn \o <<>> = domainIn  OBVIOUS
  <2> QED  BY <1>2, <1>8, <2>1, <2>2
<1> QED  BY <1>7, <1>8

(* Of two events the reactor may watch the second. *)
LEMMA DispatchTwo ==
  ASSUME domainIn \in Seq(Queued), NEW d, NEW e, ~Watched(d), Dispatch(<<d, e>>)
  PROVE  /\ th' = ProjectThread(ProjectThread(th, d), e)
         /\ rows' = ProjectRows(ProjectRows(rows, d), e)
         /\ Watched(e) => domainIn' = Append(domainIn, e)
         /\ ~Watched(e) => domainIn' = domainIn
<1>1. Len(<<d, e>>) = 2 /\ <<d, e>>[1] = d /\ <<d, e>>[2] = e  OBVIOUS
<1>2. /\ th' = ProjectThread(ProjectThread(th, d), e)
      /\ rows' = ProjectRows(ProjectRows(rows, d), e)
  BY <1>1 DEF Dispatch, Projected
<1>3. PICK S: S = {x \in ToSet(<<d, e>>): Watched(x)}  OBVIOUS
<1>4. domainIn' = domainIn \o Select(<<d, e>>, S)  BY <1>3 DEF Dispatch
<1>5. d \notin S /\ (e \in S <=> Watched(e))
  <2>1. DOMAIN <<d, e>> = {1, 2}  OBVIOUS
  <2>2. e \in ToSet(<<d, e>>)  BY <1>1, <2>1 DEF ToSet
  <2> QED  BY <1>3, <2>2
<1>6. domainIn' = domainIn \o (IF Watched(e) THEN <<e>> ELSE <<>>)
  BY <1>4, <1>5, SelectTwo
<1>7. CASE Watched(e)
  <2>1. domainIn' = domainIn \o <<e>>  BY <1>6, <1>7
  <2>2. domainIn \o <<e>> = Append(domainIn, e)  OBVIOUS
  <2> QED  BY <1>2, <1>7, <2>1, <2>2
<1>8. CASE ~Watched(e)
  <2>1. domainIn' = domainIn \o <<>>  BY <1>6, <1>8
  <2>2. domainIn \o <<>> = domainIn  OBVIOUS
  <2> QED  BY <1>2, <1>8, <2>1, <2>2
<1> QED  BY <1>7, <1>8

(* The checkpoints stay, in the read model and in the rows; ... *)
Still ==
  /\ th'.checkpoints = th.checkpoints
  /\ CheckpointRows(rows'.turns) = CheckpointRows(rows.turns)

(* ... one is recorded, unless it is a placeholder of a captured turn; ... *)
Recorded(e) ==
  /\ \/ /\ e.status = "missing" /\ Captured(th.checkpoints, e.turn)
        /\ th'.checkpoints = th.checkpoints
     \/ /\ ~ (e.status = "missing" /\ Captured(th.checkpoints, e.turn))
        /\ th'.checkpoints
             = KeepLast(UpsertCheckpoint(th.checkpoints, Point(e)), MaxCheckpoints)
  /\ \A c: c \in CheckpointRows(rows'.turns) <=>
             \/ /\ c \in CheckpointRows(rows.turns)
                /\ c.turn # e.turn /\ c.count # e.count
             \/ c = Point(e)
  /\ domainIn' = Append(domainIn, e)

(* ... or those past a count go. *)
RevertedTo(n) ==
  /\ th'.checkpoints
       = KeepLast(Select(th.checkpoints, {c \in ToSet(th.checkpoints): c.count <= n}),
                  MaxCheckpoints)
  /\ \A c: c \in CheckpointRows(rows'.turns) <=>
             c \in CheckpointRows(rows.turns) /\ c.count <= n
  /\ domainIn' = domainIn

LEMMA EngineStarts ==
  ASSUME EngineTyped, domainIn \in Seq(Queued),
         NEW m \in UserMessages, NEW e \in Starts, Dispatch(<<m, e>>)
  PROVE  /\ EngineTyped' /\ Still /\ th'.session = th.session
         /\ domainIn' = Append(domainIn, e)
<1>1. ~Watched(m) /\ Watched(e)  BY DEF Watched, UserMessages, Starts
<1>2. /\ th' = ProjectThread(ProjectThread(th, m), e)
      /\ rows' = ProjectRows(ProjectRows(rows, m), e)
      /\ domainIn' = Append(domainIn, e)
  BY <1>1, DispatchTwo
<1>3. PICK t: t = ProjectThread(th, m)  OBVIOUS
<1>4. IsThread(t) /\ t.checkpoints = th.checkpoints /\ t.session = th.session
  BY <1>3, QuietThread DEF EngineTyped
<1>5. IsThread(th') /\ th'.checkpoints = th.checkpoints /\ th'.session = th.session
  BY <1>2, <1>3, <1>4, QuietThread
<1>6. PICK r: r = ProjectRows(rows, m)  OBVIOUS
<1>7. IsRows(r) /\ r.turns = rows.turns /\ r.session = rows.session
  BY <1>6, QuietRows DEF EngineTyped
<1>8. IsRows(rows') /\ rows'.turns = rows.turns /\ rows'.session = rows.session
  BY <1>2, <1>6, <1>7, QuietRows
<1> QED  BY <1>2, <1>5, <1>8 DEF EngineTyped, Still

LEMMA EngineAsks ==
  ASSUME EngineTyped, domainIn \in Seq(Queued), NEW e \in Requests, Dispatch(<<e>>)
  PROVE  /\ EngineTyped' /\ Still /\ th'.session = th.session
         /\ domainIn' = Append(domainIn, e)
<1>1. Watched(e)  BY DEF Watched, Requests
<1>2. /\ th' = ProjectThread(th, e) /\ rows' = ProjectRows(rows, e)
      /\ domainIn' = Append(domainIn, e)
  BY <1>1, DispatchOne
<1>3. IsThread(th') /\ th'.checkpoints = th.checkpoints /\ th'.session = th.session
  BY <1>2, QuietThread DEF EngineTyped
<1>4. IsRows(rows') /\ rows'.turns = rows.turns /\ rows'.session = rows.session
  BY <1>2, QuietRows DEF EngineTyped
<1> QED  BY <1>2, <1>3, <1>4 DEF EngineTyped, Still

LEMMA EngineSets ==
  ASSUME EngineTyped, domainIn \in Seq(Queued), NEW e \in SessionSets, Dispatch(<<e>>)
  PROVE  /\ EngineTyped' /\ Still /\ domainIn' = domainIn
         /\ th'.session = [status |-> e.status, turn |-> e.turn]
<1>1. ~Watched(e)  BY DEF Watched, SessionSets
<1>2. /\ th' = ProjectThread(th, e) /\ rows' = ProjectRows(rows, e)
      /\ domainIn' = domainIn
  BY <1>1, DispatchOne
<1>3. /\ IsThread(th') /\ th'.checkpoints = th.checkpoints
      /\ th'.session = [status |-> e.status, turn |-> e.turn]
  BY <1>2, SessionThread DEF EngineTyped
<1>4. /\ IsRows(rows') /\ CheckpointRows(rows'.turns) = CheckpointRows(rows.turns)
      /\ rows'.session = [status |-> e.status, turn |-> e.turn]
  BY <1>2, SessionRows DEF EngineTyped
<1> QED  BY <1>2, <1>3, <1>4 DEF EngineTyped, Still

LEMMA EngineSays ==
  ASSUME EngineTyped, domainIn \in Seq(Queued), NEW m \in AssistantMessages,
         Dispatch(<<m>>)
  PROVE  EngineTyped' /\ Still /\ domainIn' = domainIn /\ th'.session = th.session
<1>1. ~Watched(m)  BY DEF Watched, AssistantMessages
<1>2. /\ th' = ProjectThread(th, m) /\ rows' = ProjectRows(rows, m)
      /\ domainIn' = domainIn
  BY <1>1, DispatchOne
<1>3. IsThread(th') /\ th'.checkpoints = th.checkpoints /\ th'.session = th.session
  BY <1>2, QuietThread DEF EngineTyped
<1>4. /\ IsRows(rows') /\ CheckpointRows(rows'.turns) = CheckpointRows(rows.turns)
      /\ rows'.session = rows.session
  BY <1>2, AssistantRows DEF EngineTyped
<1> QED  BY <1>2, <1>3, <1>4 DEF EngineTyped, Still

LEMMA EngineSetsAndSays ==
  ASSUME EngineTyped, domainIn \in Seq(Queued), NEW e \in SessionSets,
         NEW m \in AssistantMessages, Dispatch(<<e, m>>)
  PROVE  /\ EngineTyped' /\ Still /\ domainIn' = domainIn
         /\ th'.session = [status |-> e.status, turn |-> e.turn]
<1>1. ~Watched(e) /\ ~Watched(m)  BY DEF Watched, SessionSets, AssistantMessages
<1>2. /\ th' = ProjectThread(ProjectThread(th, e), m)
      /\ rows' = ProjectRows(ProjectRows(rows, e), m)
      /\ domainIn' = domainIn
  BY <1>1, DispatchTwo
<1>3. PICK t: t = ProjectThread(th, e)  OBVIOUS
<1>4. /\ IsThread(t) /\ t.checkpoints = th.checkpoints
      /\ t.session = [status |-> e.status, turn |-> e.turn]
  BY <1>3, SessionThread DEF EngineTyped
<1>5. IsThread(th') /\ th'.checkpoints = t.checkpoints /\ th'.session = t.session
  BY <1>2, <1>3, <1>4, QuietThread
<1>6. PICK r: r = ProjectRows(rows, e)  OBVIOUS
<1>7. /\ IsRows(r) /\ CheckpointRows(r.turns) = CheckpointRows(rows.turns)
      /\ r.session = [status |-> e.status, turn |-> e.turn]
  BY <1>6, SessionRows DEF EngineTyped
<1>8. /\ IsRows(rows') /\ CheckpointRows(rows'.turns) = CheckpointRows(r.turns)
      /\ rows'.session = r.session
  BY <1>2, <1>6, <1>7, AssistantRows
<1> QED  BY <1>2, <1>4, <1>5, <1>7, <1>8 DEF EngineTyped, Still

LEMMA EngineRecords ==
  ASSUME EngineTyped, domainIn \in Seq(Queued), NEW e \in Diffs, Dispatch(<<e>>)
  PROVE  EngineTyped' /\ Recorded(e) /\ th'.session = th.session
<1>1. Watched(e)  BY DEF Watched, Diffs
<1>2. /\ th' = ProjectThread(th, e) /\ rows' = ProjectRows(rows, e)
      /\ domainIn' = Append(domainIn, e)
  BY <1>1, DispatchOne
<1>3. /\ IsThread(th') /\ th'.session = th.session
      /\ \/ /\ e.status = "missing" /\ Captured(th.checkpoints, e.turn)
            /\ th'.checkpoints = th.checkpoints
         \/ /\ ~ (e.status = "missing" /\ Captured(th.checkpoints, e.turn))
            /\ th'.checkpoints
                 = KeepLast(UpsertCheckpoint(th.checkpoints, Point(e)), MaxCheckpoints)
  <2>1. PICK t: t = th  OBVIOUS
  <2>2. /\ IsThread(ProjectThread(t, e))
        /\ ProjectThread(t, e).session = t.session
        /\ \/ /\ e.status = "missing" /\ Captured(t.checkpoints, e.turn)
              /\ ProjectThread(t, e).checkpoints = t.checkpoints
           \/ /\ ~ (e.status = "missing" /\ Captured(t.checkpoints, e.turn))
              /\ ProjectThread(t, e).checkpoints
                   = KeepLast(UpsertCheckpoint(t.checkpoints, Point(e)), MaxCheckpoints)
    BY <2>1, DiffThread DEF EngineTyped
  <2> QED  BY <1>2, <2>1, <2>2
<1>4. /\ IsRows(rows') /\ rows'.session = rows.session
      /\ \A c: c \in CheckpointRows(rows'.turns) <=>
             \/ /\ c \in CheckpointRows(rows.turns)
                /\ c.turn # e.turn /\ c.count # e.count
             \/ c = Point(e)
  <2>1. PICK r: r = rows  OBVIOUS
  <2>2. IsRows(r)  BY <2>1 DEF EngineTyped
  <2>3. /\ IsRows(ProjectRows(r, e)) /\ ProjectRows(r, e).session = r.session
        /\ \A c: c \in CheckpointRows(ProjectRows(r, e).turns) <=>
               \/ /\ c \in CheckpointRows(r.turns)
                  /\ c.turn # e.turn /\ c.count # e.count
               \/ c = Point(e)
    BY <2>2, DiffRows
  <2> QED  BY <1>2, <2>1, <2>3
<1> QED  BY <1>2, <1>3, <1>4 DEF EngineTyped, Recorded

LEMMA EngineReverts ==
  ASSUME EngineTyped, domainIn \in Seq(Queued), NEW e \in Reverts, Dispatch(<<e>>)
  PROVE  EngineTyped' /\ RevertedTo(e.count) /\ th'.session = th.session
<1>1. ~Watched(e)  BY DEF Watched, Reverts
<1>2. /\ th' = ProjectThread(th, e) /\ rows' = ProjectRows(rows, e)
      /\ domainIn' = domainIn
  BY <1>1, DispatchOne
<1>3. /\ IsThread(th') /\ th'.session = th.session
      /\ th'.checkpoints
              = KeepLast(Select(th.checkpoints,
                                {c \in ToSet(th.checkpoints): c.count <= e.count}),
                         MaxCheckpoints)
  BY <1>2, RevertThread DEF EngineTyped
<1>4. /\ IsRows(rows') /\ rows'.session = rows.session
      /\ \A c: c \in CheckpointRows(rows'.turns) <=>
                    c \in CheckpointRows(rows.turns) /\ c.count <= e.count
  BY <1>2, RevertRows DEF EngineTyped
<1> QED  BY <1>2, <1>3, <1>4 DEF EngineTyped, RevertedTo

(* What the ingestion makes of an event. *)
LEMMA IngestedCommands ==
  ASSUME Typed, seen # None
  PROVE  \/ /\ IngestCommands = <<>>
            /\ AppliesLifecycle => seen.event.type = "turn.diff.updated"
         \/ \E s \in SessionSets:
              /\ IngestCommands = <<s>> /\ s.turn = seen.event.turn
              /\ seen.event.type = "turn.started"
         \/ \E m \in AssistantMessages: IngestCommands = <<m>> /\ ~AppliesLifecycle
         \/ \E s \in SessionSets, m \in AssistantMessages:
              /\ IngestCommands = <<s, m>> /\ s.turn = None
              /\ seen.event.type = "turn.completed"
         \/ /\ seen.event.type = "turn.diff.updated"
            /\ ~ \E c \in ToSet(seen.checkpoints): c.turn = seen.event.turn
            /\ \E e \in Diffs: /\ IngestCommands = <<e>> /\ e.status = "missing"
                               /\ e.turn = seen.event.turn /\ e.ref = ProviderDiff
                               /\ e.count = MaxCount(seen.checkpoints) + 1
<1>1. /\ seen \in Seen /\ clock \in Nat  BY DEF Typed, QueuesTyped, WorldTyped
<1>2. PICK ev: ev = seen.event  OBVIOUS
<1>3. PICK t: t = ev.turn  OBVIOUS
<1>4. t \in Turns /\ ev \in Reports \union Bounds  BY <1>1, <1>2, <1>3 DEF Seen, Reports, Bounds
<1>5. CASE ev.type = "turn.started"
  <2>1. PICK s: s = [type |-> "thread.session-set", status |-> "running", turn |-> t,
                     at |-> clock]  OBVIOUS
  <2>2. s \in SessionSets  BY <1>1, <1>4, <2>1 DEF SessionSets
  <2>3. IngestCommands = IF AppliesLifecycle THEN <<s>> ELSE <<>>
    BY <1>2, <1>3, <1>5, <2>1 DEF IngestCommands, SessionEvent
  <2>4. s.turn = seen.event.turn /\ seen.event.type = "turn.started"
    BY <1>2, <1>3, <1>5, <2>1
  <2> QED  BY <2>2, <2>3, <2>4
<1>6. CASE ev.type = "turn.completed"
  <2>1. ev.at \in Nat  BY <1>4, <1>6 DEF Reports, Bounds
  <2>2. PICK st: st = IF ev.state = "failed" THEN "error" ELSE "ready"  OBVIOUS
  <2>3. PICK s: s = [type |-> "thread.session-set", status |-> st, turn |-> None,
                     at |-> clock]  OBVIOUS
  <2>4. s \in SessionSets  BY <1>1, <2>2, <2>3 DEF SessionSets
  <2>5. PICK m: m = [type |-> "thread.message-sent", id |-> AssistantMessageOf(t),
                     role |-> "assistant", text |-> <<>>, turn |-> t,
                     streaming |-> FALSE, at |-> ev.at]  OBVIOUS
  <2>6. AssistantMessageOf(t) \in Nat
    BY <1>4, BoundsAssumption DEF AssistantMessageOf, Turns
  <2>7. m \in AssistantMessages  BY <1>4, <2>1, <2>5, <2>6 DEF AssistantMessages
  <2>8. IngestCommands = (IF AppliesLifecycle THEN <<s>> ELSE <<>>) \o <<m>>
    BY <1>2, <1>3, <1>6, <2>2, <2>3, <2>5 DEF IngestCommands, SessionEvent
  <2>9. <<s>> \o <<m>> = <<s, m>> /\ <<>> \o <<m>> = <<m>>
    <3>1. PICK U: U = {s, m}  OBVIOUS
    <3>2. <<s>> \in Seq(U) /\ <<m>> \in Seq(U)  BY <3>1
    <3>3. <<s>> \o <<m>> = <<s, m>>
      <4>1. PICK a: a = <<s>> \o <<m>>  OBVIOUS
      <4>2. PICK b: b = <<s, m>>  OBVIOUS
      <4>3. a \in Seq(U) /\ Len(a) = 2 /\ a[1] = s /\ a[2] = m  BY <3>2, <4>1
      <4>4. b \in Seq(U) /\ Len(b) = 2 /\ b[1] = s /\ b[2] = m  BY <3>1, <4>2
      <4>5. \A i \in 1 .. Len(a): a[i] = b[i]
        <5>1. 1 .. Len(a) = {1, 2}  BY <4>3
        <5> QED  BY <4>3, <4>4, <5>1
      <4>6. a = b  BY <4>3, <4>4, <4>5, SeqEqual
      <4> QED  BY <4>1, <4>2, <4>6
    <3>4. <<>> \o <<m>> = <<m>>
      <4>1. <<m>> \in Seq(U) /\ <<>> \in Seq(U)  BY <3>2
      <4> QED  BY <4>1
    <3> QED  BY <3>3, <3>4
  <2>10. CASE AppliesLifecycle
    <3>1. IngestCommands = <<s, m>>  BY <2>8, <2>9, <2>10
    <3>2. s.turn = None /\ seen.event.type = "turn.completed"  BY <1>2, <1>6, <2>3
    <3> QED  BY <2>4, <2>7, <3>1, <3>2
  <2>11. CASE ~AppliesLifecycle
    <3>1. IngestCommands = <<m>>  BY <2>8, <2>9, <2>11
    <3> QED  BY <2>7, <2>11, <3>1
  <2> QED  BY <2>10, <2>11
<1>7. CASE ev.type = "turn.diff.updated"
  <2>1. PICK cs: cs = seen.checkpoints  OBVIOUS
  <2>2. cs \in Seq(Checkpoint)  BY <1>1, <2>1 DEF Seen
  <2>3. PICK n: n = MaxCount(cs) + 1  OBVIOUS
  <2>4. n \in Nat \ {0}
    <3>1. MaxCount(cs) \in Nat  BY <2>2, Highest
    <3> QED  BY <2>3, <3>1
  <2>5. PICK e: e = [type |-> "thread.turn-diff-completed", turn |-> t, count |-> n,
                     ref |-> ProviderDiff, status |-> "missing",
                     assistant |-> AssistantMessageOf(t), at |-> clock]  OBVIOUS
  <2>6. AssistantMessageOf(t) \in Nat
    BY <1>4, BoundsAssumption DEF AssistantMessageOf, Turns
  <2>7. e \in Diffs  BY <1>1, <1>4, <2>4, <2>5, <2>6 DEF Diffs, Statuses
  <2>8. IngestCommands = IF \E c \in ToSet(cs): c.turn = t THEN <<>> ELSE <<e>>
    BY <1>2, <1>3, <1>7, <2>1, <2>3, <2>5 DEF IngestCommands, DiffEvent
  <2>9. /\ e.status = "missing" /\ e.turn = t /\ e.ref = ProviderDiff /\ e.count = n
    BY <2>5
  <2> QED  BY <1>2, <1>3, <1>7, <2>1, <2>3, <2>7, <2>8, <2>9
<1>8. ev.type \in {"turn.started", "turn.completed", "turn.diff.updated"}
  BY <1>4 DEF Reports, Bounds
<1> QED  BY <1>5, <1>6, <1>7, <1>8

(******************************** The steps ********************************)
(* The capture of a turn that the reactor records. *)
Recording == DiffEvent(job.turn, job.count, job.count, job.status)

Places(e) ==
  /\ seen # None /\ seen.event.type = "turn.diff.updated"
  /\ ~ \E c \in ToSet(seen.checkpoints): c.turn = seen.event.turn
  /\ e.status = "missing" /\ e.ref = ProviderDiff /\ e.turn = seen.event.turn
  /\ e.count = MaxCount(seen.checkpoints) + 1

Effect ==
  \/ Still
  \/ \E e \in Diffs: IngestDispatch /\ Places(e) /\ Recorded(e)
  \/ RecordCheckpoint /\ Recording \in Diffs /\ Recorded(Recording)
  \/ RecordRevert /\ RevertedTo(job.count)

LEMMA NoJobTyped == NoJob \in Job
BY DEF NoJob, Job

LEMMA BaselineTyped ==
  ASSUME Typed, EnsureBaseline
  PROVE  JobTyped' /\ (job'.step = "baseline" => job'.count = MaxCount(th.checkpoints))
           /\ job'.step \in {"idle", "baseline"}
           /\ (job'.step = "idle" => HasRef(MaxCount(th.checkpoints)))
<1>1. MaxCount(th.checkpoints) \in Nat
  <2>1. th.checkpoints \in Seq(Checkpoint)  BY DEF Typed, EngineTyped, IsThread
  <2> QED  BY <2>1, Highest
<1>2. PICK n: n = MaxCount(th.checkpoints)  OBVIOUS
<1>3. PICK b: b = [NoJob EXCEPT !.step = "baseline", !.count = n]  OBVIOUS
<1>4. job' = IF HasRef(n) THEN NoJob ELSE b  BY <1>2, <1>3 DEF EnsureBaseline
<1>5. b \in Job /\ b.step = "baseline" /\ b.stale = {} /\ b.count = n
  BY <1>1, <1>2, <1>3 DEF NoJob, Job
<1>6. NoJob \in Job /\ NoJob.step = "idle" /\ NoJob.stale = {}  BY NoJobTyped DEF NoJob
<1> QED  BY <1>2, <1>4, <1>5, <1>6 DEF JobTyped, Capturing

LEMMA CaptureTyped ==
  ASSUME NEW t \in Turns, NEW n \in Nat \ {0}, NEW st \in Statuses,
         job' = CaptureJob(t, n, st)
  PROVE  JobTyped'
<1>1. PICK b: b = CaptureJob(t, n, st)  OBVIOUS
<1>2. /\ b \in Job /\ b.step = "capture" /\ b.stale = {} /\ b.count = n /\ b.turn = t
      /\ b.status = st
  BY <1>1 DEF CaptureJob, NoJob, Job
<1>3. t # None /\ st # "none"  BY ValuesAssumption DEF Turns, Statuses
<1> QED  BY <1>1, <1>2, <1>3 DEF JobTyped, Capturing

LEMMA IdleTyped ==
  ASSUME job' = NoJob  PROVE  JobTyped'
<1>1. NoJob \in Job /\ NoJob.step = "idle" /\ NoJob.stale = {}  BY NoJobTyped DEF NoJob
<1> QED  BY <1>1 DEF JobTyped, Capturing

LEMMA PlaceholderTyped ==
  ASSUME NEW e \in Diffs, CapturePlaceholder(e)
  PROVE  JobTyped'
<1>1. e.turn \in Turns /\ e.count \in Nat \ {0}  BY DEF Diffs
<1>2. CASE job' = NoJob  BY <1>2, IdleTyped
<1>3. CASE job' = CaptureJob(e.turn, e.count, "ready")
  <2>1. PICK t, n, st: t = e.turn /\ n = e.count /\ st = "ready"  OBVIOUS
  <2>2. t \in Turns /\ n \in Nat \ {0} /\ st \in Statuses  BY <1>1, <2>1 DEF Statuses
  <2>3. job' = CaptureJob(t, n, st)  BY <1>3, <2>1
  <2> QED  BY <2>2, <2>3, CaptureTyped
<1> QED  BY <1>2, <1>3 DEF CapturePlaceholder

(* The turn, the count and the status of the capture at the end of a turn. *)
LEMMA CompletionJob ==
  ASSUME Typed, NEW e \in Bounds, e.type = "turn.completed", CaptureCompletion(e)
  PROVE  \/ job' = NoJob
         \/ \E n \in Nat \ {0}, st \in Statuses:
              /\ job' = CaptureJob(e.turn, n, st)
              /\ st = StatusFromRuntime(e.state)
              /\ ~Captured(th.checkpoints, e.turn)
              /\ \/ \E c \in ToSet(th.checkpoints): c.turn = e.turn /\ c.count = n
                 \/ /\ ~ \E c \in ToSet(th.checkpoints): c.turn = e.turn
                    /\ n = MaxCount(th.checkpoints) + 1
<1>1. PICK cs: cs = th.checkpoints  OBVIOUS
<1>2. cs \in Seq(Checkpoint)  BY <1>1 DEF Typed, EngineTyped, IsThread
<1>3. MaxCount(cs) \in Nat  BY <1>2, Highest
<1>4. PICK own: own = {c \in ToSet(cs): c.turn = e.turn}  OBVIOUS
<1>5. PICK n: n = IF own = {} THEN MaxCount(cs) + 1 ELSE (CHOOSE c \in own: TRUE).count
  OBVIOUS
<1>6. /\ n \in Nat \ {0}
      /\ \/ \E c \in ToSet(cs): c.turn = e.turn /\ c.count = n
         \/ /\ ~ \E c \in ToSet(cs): c.turn = e.turn
            /\ n = MaxCount(cs) + 1
  <2>1. CASE own = {}  BY <1>3, <1>4, <1>5, <2>1
  <2>2. CASE own # {}
    <3>1. PICK c: c = CHOOSE d \in own: TRUE  OBVIOUS
    <3>2. c \in own  BY <2>2, <3>1
    <3>3. c \in Checkpoint
      <4>1. DOMAIN cs = 1 .. Len(cs)  BY <1>2
      <4> QED  BY <1>2, <1>4, <3>2, <4>1 DEF ToSet
    <3> QED  BY <1>4, <1>5, <2>2, <3>1, <3>2, <3>3 DEF Checkpoint
  <2> QED  BY <2>1, <2>2
<1>7. PICK st: st = StatusFromRuntime(e.state)  OBVIOUS
<1>8. st \in Statuses  BY <1>7 DEF StatusFromRuntime, Statuses
<1>9. \/ job' = NoJob
      \/ ~Captured(cs, e.turn) /\ job' = CaptureJob(e.turn, n, st)
  BY <1>1, <1>4, <1>5, <1>7 DEF CaptureCompletion
<1> QED  BY <1>1, <1>6, <1>7, <1>8, <1>9

LEMMA CompletionTyped ==
  ASSUME Typed, NEW e \in Bounds, e.type = "turn.completed", CaptureCompletion(e)
  PROVE  JobTyped'
<1>1. CASE job' = NoJob  BY <1>1, IdleTyped
<1>2. CASE job' # NoJob
  <2>1. PICK n \in Nat \ {0}, st \in Statuses: job' = CaptureJob(e.turn, n, st)
    BY <1>2, CompletionJob
  <2>2. PICK t: t = e.turn  OBVIOUS
  <2>3. t \in Turns /\ job' = CaptureJob(t, n, st)  BY <2>1, <2>2 DEF Bounds
  <2> QED  BY <2>3, CaptureTyped
<1> QED  BY <1>1, <1>2

(* A request that is not carried out ends, told or not, within the bound. *)
LEMMA RequestEnds ==
  ASSUME Typed, NEW failed \in 0 .. 1, NEW dispatches \in 1 .. 2,
         NotReverted(failed, dispatches)
  PROVE  /\ failures' \in 0 .. MaxFailures /\ failures' >= failures + failed
         /\ answered' \in Nat /\ untold' \in Nat
         /\ answered' + untold' = answered + untold + 1
<1>1. /\ failures \in Nat /\ MaxFailures \in Nat /\ answered \in Nat /\ untold \in Nat
  BY BoundsAssumption DEF Typed, WorldTyped
<1>2. PICK lost \in 0 .. dispatches:
        /\ failures' = failures + failed + lost /\ failures' <= MaxFailures
        /\ \/ answered' = answered + 1 /\ untold' = untold
           \/ untold' = untold + 1 /\ answered' = answered
  BY DEF NotReverted
<1> QED  BY <1>1, <1>2

LEMMA RevertTyped ==
  ASSUME Typed, NEW n \in Nat, BeginRevert(n)
  PROVE  /\ JobTyped'
         /\ \/ job' = NoJob /\ NotReverted(0, 1)
            \/ /\ job'.step = "restore" /\ GoesOn
               /\ job'.count = n /\ n <= MaxCount(th.checkpoints)
               /\ job'.current = MaxCount(th.checkpoints)
               /\ job'.ref = RevertTarget(n) /\ job'.ref # None
<1>1. PICK cs: cs = th.checkpoints  OBVIOUS
<1>2. cs \in Seq(Checkpoint)  BY <1>1 DEF Typed, EngineTyped, IsThread
<1>3. PICK top: top = MaxCount(cs)  OBVIOUS
<1>4. top \in Nat  BY <1>2, <1>3, Highest
<1>5. \A c \in ToSet(cs): c.count \in Nat /\ c.ref \in {c.count, ProviderDiff}
  <2>1. DOMAIN cs = 1 .. Len(cs)  BY <1>2
  <2>2. \A c \in ToSet(cs): c \in Checkpoint  BY <1>2, <2>1 DEF ToSet
  <2> QED  BY <2>2 DEF Checkpoint
<1>6. PICK stale: stale = {c.ref: c \in {x \in ToSet(cs): x.count > n}}  OBVIOUS
<1>7. /\ \A r \in stale: r = ProviderDiff \/ (r \in Nat /\ r > n)
      /\ stale \subseteq Nat \union {ProviderDiff}
  BY <1>5, <1>6
<1>8. PICK ref: ref = RevertTarget(n)  OBVIOUS
<1>9. ref \in Nat \union {ProviderDiff, None}
  <2>1. PICK of: of = Select(cs, {c \in ToSet(cs): c.count = n})  OBVIOUS
  <2>2. of \in Seq(Checkpoint)  BY <1>2, <2>1, SelectTyped
  <2>3. ref = IF n = 0 THEN 0 ELSE IF of = <<>> THEN None ELSE Head(of).ref
    BY <1>1, <1>8, <2>1 DEF RevertTarget
  <2>4. of # <<>> => Head(of) \in Checkpoint  BY <2>2
  <2>5. \A c \in Checkpoint: c.ref \in Nat \union {ProviderDiff}  BY DEF Checkpoint
  <2> QED  BY <2>3, <2>4, <2>5
<1>10. PICK b: b = [NoJob EXCEPT !.step = "restore", !.count = n, !.current = top,
                                 !.ref = ref, !.stale = stale]  OBVIOUS
<1>11. /\ b \in Job /\ b.step = "restore" /\ b.count = n /\ b.stale = stale
       /\ b.current = top /\ b.ref = ref
  BY <1>4, <1>7, <1>9, <1>10 DEF NoJob, Job
<1>12. \/ job' = NoJob /\ NotReverted(0, 1)
       \/ job' = b /\ GoesOn /\ n <= top /\ ref # None
  <2>1. CASE n > top \/ ref = None
    BY <1>1, <1>3, <1>6, <1>8, <1>10, <2>1 DEF BeginRevert
  <2>2. CASE ~ (n > top \/ ref = None)
    BY <1>1, <1>3, <1>4, <1>6, <1>8, <1>10, <2>2 DEF BeginRevert
  <2> QED  BY <2>1, <2>2
<1>13. CASE job' = NoJob /\ NotReverted(0, 1)  BY <1>13, IdleTyped
<1>14. CASE job' = b /\ GoesOn /\ n <= top /\ ref # None
  BY <1>1, <1>3, <1>7, <1>8, <1>11, <1>14 DEF JobTyped, Capturing
<1> QED  BY <1>12, <1>13, <1>14

LEMMA TypedInit ==
  Init => Typed
<1> SUFFICES ASSUME Init PROVE Typed  OBVIOUS
<1>1. EngineTyped
  <2>1. IsThread(EmptyThread("p"))
    BY DEF IsThread, EmptyThread, ThreadFields, NoSession, Session
  <2>2. IsRows(EmptyRows)
    <3>1. EmptyRows = [f \in RowFields |-> EmptyRows[f]]  BY DEF EmptyRows, RowFields
    <3>2. AreTurns({})
      <4>1. CheckpointRows({}) = {}  BY DEF CheckpointRows
      <4> QED  BY <4>1 DEF AreTurns
    <3>3. NoPending \in [message: Nat \union {None}, at: Nat]  BY DEF NoPending
    <3>4. NoSession \in Session  BY DEF NoSession, Session
    <3>5. EmptyRows.turns = {} /\ EmptyRows.pending = NoPending
            /\ EmptyRows.session = NoSession
      BY DEF EmptyRows
    <3> QED  BY <3>1, <3>2, <3>3, <3>4, <3>5 DEF IsRows
  <2>3. EmptyRows.session = EmptyThread("p").session  BY DEF EmptyRows, EmptyThread
  <2> QED  BY <2>1, <2>2, <2>3 DEF Init, EngineTyped
<1>2. WorldTyped  BY BoundsAssumption DEF Init, WorldTyped
<1>3. QueuesTyped  BY DEF Init, QueuesTyped
<1>4. JobTyped
  <2>1. NoJob \in Job /\ NoJob.step = "idle" /\ NoJob.stale = {}  BY NoJobTyped DEF NoJob
  <2> QED  BY <2>1 DEF Init, JobTyped, Capturing
<1>5. RefsTyped  BY DEF Init, RefsTyped
<1> QED  BY <1>1, <1>2, <1>3, <1>4, <1>5 DEF Typed

LEMMA EngineSame ==
  ASSUME Typed, UNCHANGED engine  PROVE EngineTyped' /\ Still
BY DEF Typed, EngineTyped, Still, engine

LEMMA RefsSame ==
  ASSUME Typed, refs' = refs, torn' = torn, edits' \in Nat, edits' >= edits
  PROVE  RefsTyped'
BY DEF Typed, RefsTyped, WorldTyped

LEMMA JobSame ==
  ASSUME Typed, job' = job  PROVE JobTyped'
BY DEF Typed, JobTyped, Capturing

LEMMA StepSendMessage ==
  ASSUME Typed, SendMessage
  PROVE  /\ Typed' /\ Still /\ th'.session = th.session
         /\ \E e \in Starts: domainIn' = Append(domainIn, e)
<1>1. sent' \in 0 .. MaxTurns /\ sent' = sent + 1 /\ clock' \in Nat /\ sent \in Nat
  BY BoundsAssumption DEF Typed, WorldTyped, SendMessage
<1>2. PICK i: i = UserMessageOf(sent')  OBVIOUS
<1>3. i \in Nat  BY <1>1, <1>2, BoundsAssumption DEF UserMessageOf
<1>4. PICK m: m = [type |-> "thread.message-sent", id |-> i, role |-> "user",
                   text |-> <<>>, turn |-> None, streaming |-> FALSE, at |-> clock']
  OBVIOUS
<1>5. PICK e: e = [type |-> "thread.turn-start-requested", id |-> i, at |-> clock']
  OBVIOUS
<1>6. m \in UserMessages /\ e \in Starts
  BY <1>1, <1>3, <1>4, <1>5 DEF UserMessages, Starts
<1>7. Dispatch(<<m, e>>)  BY <1>2, <1>4, <1>5 DEF SendMessage
<1>8. EngineTyped' /\ Still /\ th'.session = th.session /\ domainIn' = Append(domainIn, e)
  BY <1>6, <1>7, EngineStarts DEF Typed, QueuesTyped
<1>9. WorldTyped'  BY <1>1 DEF SendMessage, Typed, WorldTyped, reactor
<1>10. QueuesTyped'
  <2>1. domainIn' \in Seq(Queued)  BY <1>6, <1>8 DEF Typed, QueuesTyped, Queued
  <2> QED  BY <2>1 DEF Typed, QueuesTyped, SendMessage
<1>11. JobTyped'  BY JobSame DEF SendMessage, reactor
<1>12. RefsTyped'  BY RefsSame DEF SendMessage, reactor, Typed, WorldTyped
<1> QED  BY <1>6, <1>8, <1>9, <1>10, <1>11, <1>12 DEF Typed

LEMMA StepAskRevert ==
  ASSUME Typed, AskRevert
  PROVE  /\ Typed' /\ Still /\ th'.session = th.session
         /\ \E n \in 0 .. MaxCount(th.checkpoints), e \in Requests:
              e.count = n /\ domainIn' = Append(domainIn, e)
<1>1. PICK n \in 0 .. MaxCount(th.checkpoints):
        Dispatch(<<[type |-> "thread.checkpoint-revert-requested", count |-> n]>>)
  BY DEF AskRevert
<1>2. n \in Nat
  <2>1. th.checkpoints \in Seq(Checkpoint)  BY DEF Typed, EngineTyped, IsThread
  <2>2. MaxCount(th.checkpoints) \in Nat  BY <2>1, Highest
  <2> QED  BY <2>2
<1>3. PICK e: e = [type |-> "thread.checkpoint-revert-requested", count |-> n]  OBVIOUS
<1>4. e \in Requests /\ e.count = n  BY <1>2, <1>3 DEF Requests
<1>5. Dispatch(<<e>>)  BY <1>1, <1>3
<1>6. EngineTyped' /\ Still /\ th'.session = th.session /\ domainIn' = Append(domainIn, e)
  BY <1>4, <1>5, EngineAsks DEF Typed, QueuesTyped
<1>7. WorldTyped'  BY DEF AskRevert, Typed, WorldTyped, reactor, world
<1>8. QueuesTyped'
  <2>1. domainIn' \in Seq(Queued)  BY <1>4, <1>6 DEF Typed, QueuesTyped, Queued
  <2> QED  BY <2>1 DEF Typed, QueuesTyped, AskRevert
<1>9. JobTyped'  BY JobSame DEF AskRevert, reactor
<1>10. RefsTyped'  BY RefsSame DEF AskRevert, reactor, world, Typed, WorldTyped
<1> QED  BY <1>4, <1>6, <1>7, <1>8, <1>9, <1>10 DEF Typed

LEMMA StepStartTurn ==
  ASSUME Typed, StartTurn  PROVE Typed' /\ Still
<1>1. /\ provider.turn \in 0 .. MaxTurns /\ sent \in 0 .. MaxTurns
      /\ provider.turn < sent
  BY DEF StartTurn, Typed, WorldTyped
<1>2. PICK t: t = provider.turn + 1  OBVIOUS
<1>3. t \in Turns /\ t \in 0 .. MaxTurns /\ t <= sent /\ t # 0
  BY <1>1, <1>2, BoundsAssumption DEF Turns
<1>4. PICK e: e = [type |-> "turn.started", turn |-> t]  OBVIOUS
<1>5. e \in Bounds /\ e.type = "turn.started"  BY <1>3, <1>4 DEF Bounds
<1>6. Emit(e)  BY <1>2, <1>4 DEF StartTurn
<1>7. ingest' = Append(ingest, e) /\ runtimeIn' = Append(runtimeIn, e)
  BY <1>5, <1>6 DEF Emit
<1>8. EngineTyped' /\ Still  BY EngineSame DEF StartTurn
<1>9. WorldTyped'
  BY <1>2, <1>3 DEF StartTurn, Typed, WorldTyped, reactor
<1>10. QueuesTyped'
  <2>1. ingest' \in Seq(Reports \union Bounds) /\ runtimeIn' \in Seq(Bounds)
    BY <1>5, <1>7 DEF Typed, QueuesTyped
  <2> QED  BY <2>1 DEF Typed, QueuesTyped, StartTurn
<1>11. JobTyped'  BY JobSame DEF StartTurn, reactor
<1>12. RefsTyped'  BY RefsSame DEF StartTurn, reactor, Typed, WorldTyped
<1> QED  BY <1>8, <1>9, <1>10, <1>11, <1>12 DEF Typed

LEMMA StepEditFiles ==
  ASSUME Typed, EditFiles  PROVE Typed' /\ Still
<1>1. PICK e: e = [type |-> "turn.diff.updated", turn |-> provider.turn]  OBVIOUS
<1>2. e \in Reports /\ e.type = "turn.diff.updated"
  BY <1>1, BoundsAssumption DEF EditFiles, Typed, WorldTyped, Reports, Turns
<1>3. Emit(e)  BY <1>1 DEF EditFiles
<1>4. ingest' = Append(ingest, e) /\ runtimeIn' = runtimeIn  BY <1>2, <1>3 DEF Emit
<1>5. EngineTyped' /\ Still  BY EngineSame DEF EditFiles
<1>6. WorldTyped'  BY DEF EditFiles, Typed, WorldTyped, reactor
<1>7. QueuesTyped'
  <2>1. ingest' \in Seq(Reports \union Bounds)  BY <1>2, <1>4 DEF Typed, QueuesTyped
  <2> QED  BY <1>4, <2>1 DEF Typed, QueuesTyped, EditFiles
<1>8. JobTyped'  BY JobSame DEF EditFiles, reactor
<1>9. RefsTyped'  BY RefsSame DEF EditFiles, reactor, Typed, WorldTyped
<1> QED  BY <1>5, <1>6, <1>7, <1>8, <1>9 DEF Typed

LEMMA StepEndTurn ==
  ASSUME Typed, EndTurn  PROVE Typed' /\ Still
<1>1. PICK st \in TurnEnd: Emit([type |-> "turn.completed", turn |-> provider.turn,
                                 state |-> st, at |-> clock'])
  BY DEF EndTurn
<1>2. PICK e: e = [type |-> "turn.completed", turn |-> provider.turn, state |-> st,
                   at |-> clock']  OBVIOUS
<1>3. e \in Bounds /\ e.type = "turn.completed"
  <2>1. provider.turn \in Turns /\ clock' \in Nat
    BY BoundsAssumption DEF EndTurn, Typed, WorldTyped, Turns
  <2> QED  BY <1>2, <2>1 DEF Bounds
<1>4. Emit(e)  BY <1>1, <1>2
<1>5. ingest' = Append(ingest, e) /\ runtimeIn' = Append(runtimeIn, e)
  BY <1>3, <1>4 DEF Emit
<1>6. EngineTyped' /\ Still  BY EngineSame DEF EndTurn
<1>7. WorldTyped'
  <2>1. WorldTyped  BY DEF Typed
  <2>2. /\ provider' = [provider EXCEPT !.running = FALSE]
        /\ provider \in [turn: 0 .. MaxTurns, running: BOOLEAN]
    BY <2>1 DEF EndTurn, WorldTyped
  <2>3. /\ provider' \in [turn: 0 .. MaxTurns, running: BOOLEAN]
        /\ provider'.turn = provider.turn /\ provider'.running = FALSE
    BY <2>2
  <2>4. edits' \in Nat /\ workspace' \in 0 .. edits' /\ clock' \in Nat
    BY <2>1 DEF EndTurn, WorldTyped
  <2> QED  BY <2>1, <2>3, <2>4 DEF EndTurn, WorldTyped, reactor
<1>8. QueuesTyped'
  <2>1. ingest' \in Seq(Reports \union Bounds) /\ runtimeIn' \in Seq(Bounds)
    BY <1>3, <1>5 DEF Typed, QueuesTyped
  <2> QED  BY <2>1 DEF Typed, QueuesTyped, EndTurn
<1>9. JobTyped'  BY JobSame DEF EndTurn, reactor
<1>10. RefsTyped'  BY RefsSame DEF EndTurn, reactor, Typed, WorldTyped
<1> QED  BY <1>6, <1>7, <1>8, <1>9, <1>10 DEF Typed

LEMMA StepIngest ==
  ASSUME Typed, Ingest  PROVE Typed' /\ Still /\ seen' \in Seen
<1>1. EngineTyped' /\ Still  BY EngineSame DEF Ingest
<1>2. WorldTyped'  BY DEF Ingest, Typed, WorldTyped, world, reactor
<1>3. QueuesTyped' /\ seen' \in Seen
  <2>1. /\ Head(ingest) \in Reports \union Bounds
        /\ Tail(ingest) \in Seq(Reports \union Bounds)
    BY DEF Ingest, Typed, QueuesTyped
  <2>2. th.session.turn \in Turns \union {None} /\ th.checkpoints \in Seq(Checkpoint)
    BY DEF Typed, EngineTyped, IsThread, Session
  <2>3. seen' \in Seen  BY <2>1, <2>2 DEF Ingest, Seen
  <2> QED  BY <2>1, <2>3 DEF Ingest, Typed, QueuesTyped
<1>4. JobTyped'  BY JobSame DEF Ingest, reactor
<1>5. RefsTyped'  BY RefsSame DEF Ingest, reactor, world, Typed, WorldTyped
<1> QED  BY <1>1, <1>2, <1>3, <1>4, <1>5 DEF Typed

(* The turn of the session, after an event of the active turn. *)
SessionHears ==
  th'.session.turn = CASE seen.event.type = "turn.started"   -> seen.event.turn
                       [] seen.event.type = "turn.completed" -> None
                       [] OTHER                              -> th.session.turn

LEMMA StepIngestDispatch ==
  ASSUME Typed, IngestDispatch
  PROVE  /\ Typed'
         /\ \/ /\ Still /\ domainIn' = domainIn
               /\ failures' = failures /\ AppliesLifecycle => SessionHears
            \/ \E e \in Diffs: Places(e) /\ Recorded(e) /\ th'.session = th.session
<1>1. WorldTyped' /\ JobTyped' /\ RefsTyped'
  <2>1. WorldTyped'
    <3>1. failures' \in 0 .. MaxFailures
      BY BoundsAssumption DEF IngestDispatch, Typed, WorldTyped
    <3> QED  BY <3>1 DEF IngestDispatch, Typed, WorldTyped, world, reactor
  <2>2. JobTyped'  BY JobSame DEF IngestDispatch, reactor
  <2>3. RefsTyped'  BY RefsSame DEF IngestDispatch, reactor, world, Typed, WorldTyped
  <2> QED  BY <2>1, <2>2, <2>3
<1>2. domainIn \in Seq(Queued) /\ EngineTyped  BY DEF Typed, QueuesTyped
<1>3. /\ EngineTyped'
      /\ \/ /\ Still /\ domainIn' = domainIn
            /\ failures' = failures /\ AppliesLifecycle => SessionHears
         \/ \E e \in Diffs: Places(e) /\ Recorded(e) /\ th'.session = th.session
  <2>1. CASE UNCHANGED <<engine, domainIn>> /\ failures' = failures + 1
    <3>1. failures' # failures  BY <2>1 DEF Typed, WorldTyped
    <3> QED  BY <2>1, <3>1, EngineSame
  <2>2. CASE Dispatch(IngestCommands)
    <3>1. CASE /\ IngestCommands = <<>>
               /\ AppliesLifecycle => seen.event.type = "turn.diff.updated"
      <4>1. Dispatch(<<>>)  BY <2>2, <3>1
      <4>2. th' = th /\ rows' = rows /\ domainIn' = domainIn  BY <1>2, <4>1, DispatchNone
      <4>3. AppliesLifecycle => SessionHears  BY <3>1, <4>2 DEF SessionHears
      <4> QED  BY <4>2, <4>3, EngineSame DEF engine
    <3>2. ASSUME NEW s \in SessionSets, IngestCommands = <<s>>,
                 s.turn = seen.event.turn, seen.event.type = "turn.started"
          PROVE  EngineTyped' /\ Still /\ domainIn' = domainIn /\ SessionHears
      <4>1. Dispatch(<<s>>)  BY <2>2, <3>2
      <4>2. /\ EngineTyped' /\ Still /\ domainIn' = domainIn
            /\ th'.session = [status |-> s.status, turn |-> s.turn]
        BY <1>2, <4>1, EngineSets
      <4> QED  BY <3>2, <4>2 DEF SessionHears
    <3>3. ASSUME NEW m \in AssistantMessages, IngestCommands = <<m>>
          PROVE  EngineTyped' /\ Still /\ domainIn' = domainIn
      <4>1. Dispatch(<<m>>)  BY <2>2, <3>3
      <4> QED  BY <1>2, <4>1, EngineSays
    <3>4. ASSUME NEW s \in SessionSets, NEW m \in AssistantMessages,
                 IngestCommands = <<s, m>>, s.turn = None,
                 seen.event.type = "turn.completed"
          PROVE  EngineTyped' /\ Still /\ domainIn' = domainIn /\ SessionHears
      <4>1. Dispatch(<<s, m>>)  BY <2>2, <3>4
      <4>2. /\ EngineTyped' /\ Still /\ domainIn' = domainIn
            /\ th'.session = [status |-> s.status, turn |-> s.turn]
        BY <1>2, <4>1, EngineSetsAndSays
      <4> QED  BY <3>4, <4>2 DEF SessionHears
    <3>5. ASSUME NEW e \in Diffs, IngestCommands = <<e>>
          PROVE  EngineTyped' /\ Recorded(e) /\ th'.session = th.session
      <4>1. Dispatch(<<e>>)  BY <2>2, <3>5
      <4> QED  BY <1>2, <4>1, EngineRecords
    <3>6. seen # None  BY DEF IngestDispatch
    <3> QED  BY <3>1, <3>2, <3>3, <3>4, <3>5, <3>6, IngestedCommands DEF Places
  <2> QED  BY <2>1, <2>2 DEF IngestDispatch
<1>4. domainIn' \in Seq(Queued)
  <2>1. CASE domainIn' = domainIn  BY <1>2, <2>1
  <2>2. ASSUME NEW e \in Diffs, Recorded(e) PROVE domainIn' \in Seq(Queued)
    BY <1>2, <2>2 DEF Recorded, Queued
  <2> QED  BY <1>3, <2>1, <2>2
<1>5. QueuesTyped'  BY <1>4 DEF IngestDispatch, Typed, QueuesTyped
<1> QED  BY <1>1, <1>3, <1>5 DEF Typed

LEMMA StepTakeDomain ==
  ASSUME Typed, TakeDomain  PROVE Typed' /\ Still
<1>1. PICK e: e = Head(domainIn)  OBVIOUS
<1>2. e \in Queued /\ Tail(domainIn) \in Seq(Queued)
  BY <1>1 DEF TakeDomain, Typed, QueuesTyped
<1>3. EngineTyped' /\ Still  BY EngineSame DEF TakeDomain
<1>4. RefsTyped'
  BY RefsSame DEF TakeDomain, Unjobbed, world, Typed, WorldTyped
<1>5. QueuesTyped'  BY <1>2 DEF TakeDomain, Typed, QueuesTyped
<1>6. JobTyped' /\ (GoesOn \/ NotReverted(0, 1))
  <2>1. CASE e \in Starts
    <3>1. e.type = "thread.turn-start-requested"  BY <2>1 DEF Starts
    <3>2. EnsureBaseline /\ GoesOn  BY <1>1, <3>1 DEF TakeDomain
    <3> QED  BY <3>2, BaselineTyped
  <2>2. CASE e \in Diffs
    <3>1. e.type = "thread.turn-diff-completed"  BY <2>2 DEF Diffs
    <3>2. CapturePlaceholder(e) /\ GoesOn  BY <1>1, <3>1 DEF TakeDomain
    <3> QED  BY <2>2, <3>2, PlaceholderTyped
  <2>3. CASE e \in Requests
    <3>1. e.type = "thread.checkpoint-revert-requested" /\ e.count \in Nat
      BY <2>3 DEF Requests
    <3>2. PICK n: n = e.count  OBVIOUS
    <3>3. n \in Nat /\ BeginRevert(n)  BY <1>1, <3>1, <3>2 DEF TakeDomain
    <3> QED  BY <3>3, RevertTyped
  <2> QED  BY <1>2, <2>1, <2>2, <2>3 DEF Queued
<1>7. WorldTyped'
  <2>1. /\ failures' \in 0 .. MaxFailures /\ answered' \in Nat /\ untold' \in Nat
    <3>1. CASE GoesOn  BY <3>1 DEF GoesOn, Typed, WorldTyped
    <3>2. CASE NotReverted(0, 1)  BY <3>2, RequestEnds
    <3> QED  BY <1>6, <3>1, <3>2
  <2> QED  BY <2>1 DEF TakeDomain, Typed, WorldTyped, world
<1> QED  BY <1>3, <1>4, <1>5, <1>6, <1>7 DEF Typed

LEMMA StepTakeRuntime ==
  ASSUME Typed, TakeRuntime  PROVE Typed' /\ Still
<1>1. PICK e: e = Head(runtimeIn)  OBVIOUS
<1>2. e \in Bounds /\ Tail(runtimeIn) \in Seq(Bounds)
  BY <1>1 DEF TakeRuntime, Typed, QueuesTyped
<1>3. EngineTyped' /\ Still  BY EngineSame DEF TakeRuntime
<1>4. RefsTyped'
  BY RefsSame DEF TakeRuntime, Unjobbed, world, Typed, WorldTyped
<1>5. QueuesTyped'  BY <1>2 DEF TakeRuntime, Typed, QueuesTyped
<1>6. JobTyped'
  <2>1. CASE e.type = "turn.started"
    <3>1. EnsureBaseline  BY <1>1, <2>1 DEF TakeRuntime
    <3> QED  BY <3>1, BaselineTyped
  <2>2. CASE e.type # "turn.started"
    <3>1. e.type = "turn.completed" /\ CaptureCompletion(e)
      BY <1>1, <1>2, <2>2 DEF TakeRuntime, Bounds
    <3> QED  BY <1>2, <3>1, CompletionTyped
  <2> QED  BY <2>1, <2>2
<1>7. WorldTyped'  BY DEF TakeRuntime, GoesOn, Typed, WorldTyped, world
<1> QED  BY <1>3, <1>4, <1>5, <1>6, <1>7 DEF Typed

LEMMA StepRefuseRevert ==
  ASSUME Typed, RefuseRevert  PROVE Typed' /\ Still
<1>1. Tail(domainIn) \in Seq(Queued)  BY DEF RefuseRevert, Typed, QueuesTyped
<1>2. EngineTyped' /\ Still  BY EngineSame DEF RefuseRevert
<1>3. RefsTyped'
  BY RefsSame DEF RefuseRevert, Outside, world, Typed, WorldTyped
<1>4. QueuesTyped'  BY <1>1 DEF RefuseRevert, Outside, Typed, QueuesTyped
<1>5. JobTyped'  BY JobSame DEF RefuseRevert
<1>6. failures' \in 0 .. MaxFailures /\ answered' \in Nat /\ untold' \in Nat
  BY RequestEnds DEF RefuseRevert
<1>7. WorldTyped'  BY <1>6 DEF RefuseRevert, Outside, Typed, WorldTyped, world
<1> QED  BY <1>2, <1>3, <1>4, <1>5, <1>7 DEF Typed

LEMMA CaptureWrites ==
  ASSUME Typed, Capture
  PROVE  /\ refs' = [n \in DOMAIN refs' |-> refs'[n]]
         /\ DOMAIN refs' = DOMAIN refs \union {job.count}
         /\ job.count \in Nat
         /\ \A n \in DOMAIN refs': refs'[n] \in 0 .. edits
         /\ \A n \in DOMAIN refs: n # job.count => refs'[n] = refs[n]
         /\ refs'[job.count] = workspace
<1>1. PICK D: D = DOMAIN refs \union {job.count}  OBVIOUS
<1>2. refs' = [n \in D |-> IF n = job.count THEN workspace ELSE refs[n]]
  BY <1>1 DEF Capture
<1>3. job.count \in Nat  BY DEF Typed, JobTyped, Job
<1>4. workspace \in 0 .. edits /\ \A n \in DOMAIN refs: refs[n] \in 0 .. edits
  BY DEF Typed, WorldTyped, RefsTyped
<1> QED  BY <1>1, <1>2, <1>3, <1>4

LEMMA StepCaptureBaseline ==
  ASSUME Typed, CaptureBaseline  PROVE Typed' /\ Still
<1>1. EngineTyped' /\ Still  BY EngineSame DEF CaptureBaseline
<1>2. RefsTyped'
  BY CaptureWrites DEF CaptureBaseline, Outside, world, Typed, RefsTyped
<1>3. QueuesTyped'  BY DEF CaptureBaseline, Outside, Typed, QueuesTyped
<1>4. JobTyped'  BY IdleTyped DEF CaptureBaseline
<1>5. WorldTyped'  BY DEF CaptureBaseline, GoesOn, Outside, Typed, WorldTyped, world
<1> QED  BY <1>1, <1>2, <1>3, <1>4, <1>5 DEF Typed

(* A step of a job keeps what the job is about. *)
LEMMA JobAdvances ==
  ASSUME Typed, NEW s \in {"record", "rollback", "delete", "complete"},
         s = "record" => Capturing,
         job' = [job EXCEPT !.step = s]
  PROVE  /\ JobTyped' /\ job'.step = s /\ job'.count = job.count
         /\ job'.stale = job.stale /\ job'.turn = job.turn /\ job'.status = job.status
         /\ job'.current = job.current /\ job'.ref = job.ref
<1>1. job \in Job  BY DEF Typed, JobTyped
<1>2. /\ job' \in Job /\ job'.step = s /\ job'.count = job.count
      /\ job'.stale = job.stale /\ job'.turn = job.turn /\ job'.status = job.status
      /\ job'.current = job.current /\ job'.ref = job.ref
  BY <1>1 DEF Job
<1> QED  BY <1>2 DEF Typed, JobTyped, Capturing

LEMMA StepCaptureRef ==
  ASSUME Typed, CaptureRef  PROVE Typed' /\ Still
<1>1. EngineTyped' /\ Still  BY EngineSame DEF CaptureRef
<1>2. RefsTyped'
  BY CaptureWrites DEF CaptureRef, Outside, world, Typed, RefsTyped
<1>3. QueuesTyped'  BY DEF CaptureRef, Outside, Typed, QueuesTyped
<1>4. JobTyped'
  <2>1. PICK s: s = "record"  OBVIOUS
  <2>2. s \in {"record", "rollback", "delete", "complete"} /\ Capturing
          /\ job' = [job EXCEPT !.step = s]
    BY <2>1 DEF CaptureRef, Capturing
  <2> QED  BY <2>2, JobAdvances
<1>5. WorldTyped'  BY DEF CaptureRef, GoesOn, Outside, Typed, WorldTyped, world
<1> QED  BY <1>1, <1>2, <1>3, <1>4, <1>5 DEF Typed

LEMMA RecordingTyped ==
  ASSUME Typed, job.step = "record"
  PROVE  /\ Recording \in Diffs /\ Recording.turn = job.turn
         /\ Recording.count = job.count /\ Recording.ref = job.count
         /\ Recording.status = job.status
<1>1. /\ job.turn \in Turns /\ job.count \in Nat \ {0} /\ job.status \in Statuses
      /\ clock \in Nat
  BY DEF Typed, JobTyped, Capturing, Job, WorldTyped
<1>2. PICK i: i = AssistantMessageOf(job.turn)  OBVIOUS
<1>3. i \in Nat  BY <1>1, <1>2, BoundsAssumption DEF AssistantMessageOf, Turns
<1>4. PICK e: e = Recording  OBVIOUS
<1>5. e = [type |-> "thread.turn-diff-completed", turn |-> job.turn, count |-> job.count,
           ref |-> job.count, status |-> job.status, assistant |-> i, at |-> clock]
  BY <1>2, <1>4 DEF Recording, DiffEvent
<1> QED  BY <1>1, <1>3, <1>4, <1>5 DEF Diffs

LEMMA StepRecordCheckpoint ==
  ASSUME Typed, RecordCheckpoint
  PROVE  Typed' /\ Recorded(Recording) /\ th'.session = th.session
<1>1. job.step = "record" /\ Dispatch(<<Recording>>)
  BY DEF RecordCheckpoint, Recording
<1>2. PICK e: e = Recording  OBVIOUS
<1>3. e \in Diffs /\ Dispatch(<<e>>)  BY <1>1, <1>2, RecordingTyped
<1>4. EngineTyped' /\ Recorded(e) /\ th'.session = th.session
  BY <1>3, EngineRecords DEF Typed, QueuesTyped
<1>5. domainIn' \in Seq(Queued)  BY <1>3, <1>4 DEF Recorded, Typed, QueuesTyped, Queued
<1>6. RefsTyped'
  BY RefsSame DEF RecordCheckpoint, Outside, world, Typed, WorldTyped
<1>7. QueuesTyped'  BY <1>5 DEF RecordCheckpoint, Outside, Typed, QueuesTyped
<1>8. JobTyped'  BY IdleTyped DEF RecordCheckpoint
<1>9. WorldTyped'  BY DEF RecordCheckpoint, GoesOn, Outside, Typed, WorldTyped, world
<1>10. Recorded(Recording)  BY <1>2, <1>4
<1> QED  BY <1>4, <1>6, <1>7, <1>8, <1>9, <1>10 DEF Typed

LEMMA StepCaptureFails ==
  ASSUME Typed, CaptureFails  PROVE Typed' /\ Still
<1>1. EngineTyped' /\ Still  BY EngineSame DEF CaptureFails
<1>2. RefsTyped'
  BY RefsSame DEF CaptureFails, Outside, world, Typed, WorldTyped
<1>3. QueuesTyped'  BY DEF CaptureFails, Outside, Typed, QueuesTyped
<1>4. JobTyped'  BY IdleTyped DEF CaptureFails
<1>5. failures' \in 0 .. MaxFailures
  BY BoundsAssumption DEF CaptureFails, Typed, WorldTyped
<1>6. WorldTyped'  BY <1>5 DEF CaptureFails, Outside, Typed, WorldTyped, world
<1> QED  BY <1>1, <1>2, <1>3, <1>4, <1>6 DEF Typed

LEMMA StepRestoreFiles ==
  ASSUME Typed, RestoreFiles  PROVE Typed' /\ Still
<1>1. EngineTyped' /\ Still  BY EngineSame DEF RestoreFiles
<1>2. RefsTyped'  BY RefsSame DEF RestoreFiles, Typed, WorldTyped
<1>3. QueuesTyped'  BY DEF RestoreFiles, Typed, QueuesTyped
<1>4. CASE ~ (IsGitRef(job.ref) /\ (HasRef(job.ref) \/ job.count = 0))
  <2>1. job' = NoJob /\ NotReverted(0, 1) /\ workspace' = workspace
    BY <1>4 DEF RestoreFiles
  <2>2. JobTyped'  BY <2>1, IdleTyped
  <2>3. WorldTyped'  BY <2>1, RequestEnds DEF RestoreFiles, Typed, WorldTyped
  <2> QED  BY <1>1, <1>2, <1>3, <2>2, <2>3 DEF Typed
<1>5. CASE IsGitRef(job.ref) /\ (HasRef(job.ref) \/ job.count = 0)
  <2>1. /\ job' = [job EXCEPT !.step = "rollback"] /\ GoesOn
        /\ workspace' = IF HasRef(job.ref) THEN refs[job.ref] ELSE HeadVersion
    BY <1>5 DEF RestoreFiles
  <2>2. JobTyped'
    <3>1. PICK s: s = "rollback"  OBVIOUS
    <3>2. s \in {"record", "rollback", "delete", "complete"} /\ s # "record"
            /\ job' = [job EXCEPT !.step = s]
      BY <2>1, <3>1
    <3> QED  BY <3>2, JobAdvances
  <2>3. workspace' \in 0 .. edits
    BY <2>1 DEF HasRef, HeadVersion, Typed, RefsTyped, WorldTyped
  <2>4. WorldTyped'  BY <2>1, <2>3 DEF RestoreFiles, GoesOn, Typed, WorldTyped
  <2> QED  BY <1>1, <1>2, <1>3, <2>2, <2>4 DEF Typed
<1> QED  BY <1>4, <1>5

LEMMA StepRollbackConversation ==
  ASSUME Typed, RollbackConversation  PROVE Typed' /\ Still
<1>1. EngineTyped' /\ Still  BY EngineSame DEF RollbackConversation
<1>2. RefsTyped'  BY RefsSame DEF RollbackConversation, Typed, WorldTyped
<1>3. QueuesTyped'  BY DEF RollbackConversation, Typed, QueuesTyped
<1>4. JobTyped'
  <2>1. PICK s: s = "delete"  OBVIOUS
  <2>2. s \in {"record", "rollback", "delete", "complete"} /\ s # "record"
          /\ job' = [job EXCEPT !.step = s]
    BY <2>1 DEF RollbackConversation
  <2> QED  BY <2>2, JobAdvances
<1>5. WorldTyped'  BY DEF RollbackConversation, GoesOn, Typed, WorldTyped
<1> QED  BY <1>1, <1>2, <1>3, <1>4, <1>5 DEF Typed

LEMMA StepDeleteStaleRefs ==
  ASSUME Typed, DeleteStaleRefs  PROVE Typed' /\ Still
<1>1. EngineTyped' /\ Still  BY EngineSame DEF DeleteStaleRefs
<1>2. RefsTyped'
  <2>1. PICK D: D = DOMAIN refs \ job.stale  OBVIOUS
  <2>2. refs' = [n \in D |-> refs[n]]  BY <2>1 DEF DeleteStaleRefs
  <2> QED
    BY <2>1, <2>2 DEF DeleteStaleRefs, Outside, world, Typed, RefsTyped
<1>3. QueuesTyped'  BY DEF DeleteStaleRefs, Outside, Typed, QueuesTyped
<1>4. JobTyped'
  <2>1. PICK s: s = "complete"  OBVIOUS
  <2>2. s \in {"record", "rollback", "delete", "complete"} /\ s # "record"
          /\ job' = [job EXCEPT !.step = s]
    BY <2>1 DEF DeleteStaleRefs
  <2> QED  BY <2>2, JobAdvances
<1>5. WorldTyped'  BY DEF DeleteStaleRefs, GoesOn, Outside, Typed, WorldTyped, world
<1> QED  BY <1>1, <1>2, <1>3, <1>4, <1>5 DEF Typed

LEMMA StepRecordRevert ==
  ASSUME Typed, RecordRevert
  PROVE  Typed' /\ RevertedTo(job.count) /\ th'.session = th.session
<1>1. job.count \in Nat  BY DEF Typed, JobTyped, Job
<1>2. PICK e: e = [type |-> "thread.reverted", count |-> job.count]  OBVIOUS
<1>3. e \in Reverts /\ e.count = job.count /\ Dispatch(<<e>>)
  BY <1>1, <1>2 DEF Reverts, RecordRevert
<1>4. EngineTyped' /\ RevertedTo(e.count) /\ th'.session = th.session
  BY <1>3, EngineReverts DEF Typed, QueuesTyped
<1>5. domainIn' = domainIn  BY <1>4 DEF RevertedTo
<1>6. RefsTyped'
  BY RefsSame DEF RecordRevert, Outside, world, Typed, WorldTyped
<1>7. QueuesTyped'  BY <1>5 DEF RecordRevert, Outside, Typed, QueuesTyped
<1>8. JobTyped'  BY IdleTyped DEF RecordRevert
<1>9. WorldTyped'  BY DEF RecordRevert, Outside, Typed, WorldTyped, world
<1>10. RevertedTo(job.count)  BY <1>3, <1>4
<1> QED  BY <1>4, <1>6, <1>7, <1>8, <1>9, <1>10 DEF Typed

LEMMA StepRevertFails ==
  ASSUME Typed, RevertFails  PROVE Typed' /\ Still
<1>1. EngineTyped' /\ Still  BY EngineSame DEF RevertFails
<1>2. torn' \subseteq Nat \union {ProviderDiff}
  <2>1. job.stale \subseteq Nat \union {ProviderDiff}  BY DEF Typed, JobTyped, Job
  <2> QED  BY <2>1 DEF RevertFails, Typed, RefsTyped
<1>3. RefsTyped'
  BY <1>2 DEF RevertFails, Outside, world, Typed, RefsTyped
<1>4. QueuesTyped'  BY DEF RevertFails, Outside, Typed, QueuesTyped
<1>5. JobTyped'  BY IdleTyped DEF RevertFails
<1>6. failures' \in 0 .. MaxFailures /\ answered' \in Nat /\ untold' \in Nat
  <2>1. PICK n \in 1 .. 2: NotReverted(1, n)  BY DEF RevertFails
  <2> QED  BY <2>1, RequestEnds
<1>7. WorldTyped'  BY <1>6 DEF RevertFails, Outside, Typed, WorldTyped, world
<1> QED  BY <1>1, <1>3, <1>4, <1>5, <1>7 DEF Typed

LEMMA TypedStep ==
  ASSUME Typed, [Next]_vars  PROVE Typed' /\ Effect
<1>1. ASSUME UNCHANGED vars PROVE Typed' /\ Still
  <2>1. EngineTyped' /\ Still  BY <1>1, EngineSame DEF vars
  <2>2. WorldTyped' /\ QueuesTyped' /\ JobTyped' /\ RefsTyped'
    <3>1. WorldTyped'  BY <1>1 DEF vars, world, reactor, Typed, WorldTyped
    <3>2. QueuesTyped'  BY <1>1 DEF vars, Typed, QueuesTyped
    <3>3. JobTyped'  BY <1>1, JobSame DEF vars, reactor
    <3>4. RefsTyped'  BY <1>1, RefsSame DEF vars, reactor, world, Typed, WorldTyped
    <3> QED  BY <3>1, <3>2, <3>3, <3>4
  <2> QED  BY <2>1, <2>2 DEF Typed
<1>2. ASSUME ReactorStep PROVE Typed' /\ Effect
  <2>1. ASSUME RecordCheckpoint PROVE Typed' /\ Effect
    <3>1. Recording \in Diffs  BY <2>1, RecordingTyped DEF RecordCheckpoint
    <3> QED  BY <2>1, <3>1, StepRecordCheckpoint DEF Effect
  <2>2. ASSUME RecordRevert PROVE Typed' /\ Effect
    BY <2>2, StepRecordRevert DEF Effect
  <2> QED
    BY <1>2, <2>1, <2>2, StepTakeDomain, StepTakeRuntime, StepRefuseRevert,
       StepCaptureBaseline, StepCaptureRef, StepCaptureFails, StepRestoreFiles,
       StepRollbackConversation, StepDeleteStaleRefs, StepRevertFails
       DEF ReactorStep, Effect
<1>3. ASSUME IngestDispatch PROVE Typed' /\ Effect
  BY <1>3, StepIngestDispatch DEF Effect
<1> QED
  BY <1>1, <1>2, <1>3, StepSendMessage, StepAskRevert, StepStartTurn, StepEditFiles,
     StepEndTurn, StepIngest DEF Next, Effect

(************************ Every request, one answer ************************)
Pending(q) == {i \in DOMAIN q: q[i].type = "thread.checkpoint-revert-requested"}

(* Failures are only ever added to, and by the steps that fail. *)
LEMMA FailuresAdd ==
  ASSUME Typed, [Next]_vars
  PROVE  /\ failures' >= failures
         /\ CaptureFails \/ RevertFails \/ RefuseRevert => failures' > failures
<1>1. failures \in Nat  BY DEF Typed, WorldTyped
<1>2. CaptureFails => failures' > failures  BY <1>1 DEF CaptureFails
<1>3. RevertFails => failures' > failures
  <2>1. ASSUME RevertFails PROVE \E n \in 1 .. 2: NotReverted(1, n)
    BY <2>1 DEF RevertFails
  <2> QED  BY <1>1, <2>1, RequestEnds
<1>4. RefuseRevert => failures' > failures  BY <1>1, RequestEnds DEF RefuseRevert
<1>5. TakeDomain => failures' >= failures
  <2> SUFFICES ASSUME TakeDomain PROVE failures' >= failures  OBVIOUS
  <2>1. GoesOn \/ \E n \in Nat: BeginRevert(n)
    <3>1. Head(domainIn) \in Queued  BY DEF TakeDomain, Typed, QueuesTyped
    <3> QED  BY <3>1 DEF TakeDomain, Queued, Starts, Diffs, Requests
  <2>2. ASSUME NEW n \in Nat, BeginRevert(n) PROVE GoesOn \/ NotReverted(0, 1)
    BY <2>2, RevertTyped
  <2> QED  BY <1>1, <2>1, <2>2, RequestEnds DEF GoesOn
<1>6. RestoreFiles => failures' >= failures
  <2> SUFFICES ASSUME RestoreFiles PROVE failures' >= failures  OBVIOUS
  <2>1. GoesOn \/ NotReverted(0, 1)  BY DEF RestoreFiles
  <2>2. CASE GoesOn  BY <1>1, <2>2 DEF GoesOn
  <2>3. CASE NotReverted(0, 1)  BY <1>1, <2>3, RequestEnds
  <2> QED  BY <2>1, <2>2, <2>3
<1>7. ASSUME ~CaptureFails, ~RevertFails, ~RefuseRevert, ~TakeDomain, ~RestoreFiles
      PROVE  failures' >= failures
  <2>1. failures' \in {failures, failures + 1}
    BY <1>7 DEF Next, ReactorStep, vars, SendMessage, AskRevert, StartTurn, EditFiles,
                EndTurn, Ingest, IngestDispatch, TakeRuntime, CaptureBaseline, CaptureRef,
                RecordCheckpoint, RollbackConversation, DeleteStaleRefs, RecordRevert, GoesOn
  <2> QED  BY <1>1, <2>1
<1>8. failures' \in Int
  <2>1. failures' \in 0 .. MaxFailures  BY TypedStep DEF Typed, WorldTyped
  <2> QED  BY <2>1
<1> QED  BY <1>1, <1>2, <1>3, <1>4, <1>5, <1>6, <1>7, <1>8

(* The requests that ended, well or not, told or not. *)
Ended == answered + untold

(* A request ended, is in the queue, or is being worked on. *)
Answers ==
  asked = Ended + Cardinality(Pending(domainIn)) + (IF Reverting THEN 1 ELSE 0)

LEMMA PendingFinite ==
  ASSUME NEW q \in Seq(Queued)
  PROVE  IsFiniteSet(Pending(q)) /\ Cardinality(Pending(q)) \in Nat
<1>1. PICK L: L = Len(q)  OBVIOUS
<1>2. L \in Int /\ 1 \in Int  BY <1>1
<1>3. IsFiniteSet(1 .. L)  BY <1>2, FS_Interval
<1>4. PICK S: S = 1 .. L  OBVIOUS
<1>5. Pending(q) \in SUBSET S  BY <1>1, <1>4 DEF Pending
<1>6. IsFiniteSet(Pending(q))  BY <1>3, <1>4, <1>5, FS_Subset
<1> QED  BY <1>6, FS_CardinalityType

LEMMA PendingAppend ==
  ASSUME NEW q \in Seq(Queued), NEW e \in Queued
  PROVE  /\ e \in Requests
              => Cardinality(Pending(Append(q, e))) = Cardinality(Pending(q)) + 1
         /\ e \notin Requests
              => Cardinality(Pending(Append(q, e))) = Cardinality(Pending(q))
<1>1. PICK p: p = Append(q, e)  OBVIOUS
<1>2. /\ p \in Seq(Queued) /\ Len(p) = Len(q) + 1 /\ p[Len(q) + 1] = e
      /\ \A i \in 1 .. Len(q): p[i] = q[i]
  BY <1>1
<1>3. DOMAIN p = DOMAIN q \union {Len(q) + 1} /\ Len(q) + 1 \notin DOMAIN q
        /\ DOMAIN q = 1 .. Len(q)
  BY <1>2
<1>4. e \in Requests <=> e.type = "thread.checkpoint-revert-requested"
  BY DEF Queued, Starts, Requests, Diffs
<1>5. IsFiniteSet(Pending(q)) /\ Cardinality(Pending(q)) \in Nat  BY PendingFinite
<1>6. ASSUME e \in Requests
      PROVE  Cardinality(Pending(p)) = Cardinality(Pending(q)) + 1
  <2>1. PICK n: n = Len(q) + 1  OBVIOUS
  <2>2. Pending(p) = Pending(q) \union {n} /\ n \notin Pending(q)
    BY <1>2, <1>3, <1>4, <1>6, <2>1 DEF Pending
  <2> QED  BY <1>5, <2>2, FS_AddElement
<1>7. ASSUME e \notin Requests
      PROVE  Cardinality(Pending(p)) = Cardinality(Pending(q))
  <2>1. Pending(p) = Pending(q)  BY <1>2, <1>3, <1>4, <1>7 DEF Pending
  <2> QED  BY <2>1
<1> QED  BY <1>1, <1>6, <1>7

LEMMA PendingTail ==
  ASSUME NEW q \in Seq(Queued), q # <<>>
  PROVE  /\ Head(q) \in Requests
              => Cardinality(Pending(q)) = Cardinality(Pending(Tail(q))) + 1
         /\ Head(q) \notin Requests
              => Cardinality(Pending(q)) = Cardinality(Pending(Tail(q)))
<1>1. PICK p: p = Tail(q)  OBVIOUS
<1>2. /\ p \in Seq(Queued) /\ Len(p) = Len(q) - 1 /\ Len(q) \in Nat \ {0}
      /\ \A i \in 1 .. Len(p): p[i] = q[i + 1]
  BY <1>1
<1>3. DOMAIN p = 1 .. Len(p) /\ DOMAIN q = 1 .. Len(q)  BY <1>2
<1>4. Head(q) \in Requests <=> q[1].type = "thread.checkpoint-revert-requested"
  <2>1. Head(q) = q[1] /\ q[1] \in Queued  BY <1>2
  <2> QED  BY <2>1 DEF Queued, Starts, Requests, Diffs
<1>5. PICK A: A = Pending(q) \ {1}  OBVIOUS
<1>6. PICK B: B = Pending(p)  OBVIOUS
<1>7. IsFiniteSet(B) /\ IsFiniteSet(Pending(q)) /\ Cardinality(Pending(q)) \in Nat
        /\ Cardinality(B) \in Nat
  BY <1>2, <1>6, PendingFinite
<1>8. Cardinality(A) = Cardinality(B) /\ IsFiniteSet(A)
  <2> DEFINE f == [i \in B |-> i + 1]
  <2>1. f \in [B -> A]
    <3> SUFFICES ASSUME NEW i \in B PROVE i + 1 \in A  OBVIOUS
    <3>1. i \in 1 .. Len(p) /\ p[i].type = "thread.checkpoint-revert-requested"
      BY <1>3, <1>6 DEF Pending
    <3>2. i + 1 \in 1 .. Len(q) /\ i + 1 # 1  BY <1>2, <3>1
    <3>3. q[i + 1].type = "thread.checkpoint-revert-requested"  BY <1>2, <3>1
    <3> QED  BY <1>3, <1>5, <3>2, <3>3 DEF Pending
  <2>2. \A i, j \in B: f[i] = f[j] => i = j
    <3>1. \A i \in B: i \in Int  BY <1>3, <1>6 DEF Pending
    <3> QED  BY <3>1
  <2>3. \A j \in A: \E i \in B: f[i] = j
    <3> SUFFICES ASSUME NEW j \in A PROVE \E i \in B: i + 1 = j  OBVIOUS
    <3>1. /\ j \in 1 .. Len(q) /\ j # 1
          /\ q[j].type = "thread.checkpoint-revert-requested"
      BY <1>3, <1>5 DEF Pending
    <3>2. j - 1 \in 1 .. Len(p) /\ (j - 1) + 1 = j  BY <1>2, <3>1
    <3>3. p[j - 1] = q[(j - 1) + 1]  BY <1>2, <3>2
    <3>4. j - 1 \in B  BY <1>3, <1>6, <3>1, <3>2, <3>3 DEF Pending
    <3> QED  BY <3>2, <3>4
  <2>4. f \in Bijection(B, A)
    BY <2>1, <2>2, <2>3 DEF Bijection, Injection, Surjection, IsInjective
  <2> HIDE DEF f
  <2>5. ExistsBijection(B, A)  BY <2>4 DEF ExistsBijection
  <2> QED  BY <1>7, <2>5, FS_Bijection
<1>9. Cardinality(A) = IF 1 \in Pending(q) THEN Cardinality(Pending(q)) - 1
                       ELSE Cardinality(Pending(q))
  BY <1>5, <1>7, FS_RemoveElement
<1>10. 1 \in Pending(q) <=> Head(q) \in Requests
  BY <1>2, <1>3, <1>4 DEF Pending
<1> QED  BY <1>1, <1>6, <1>7, <1>8, <1>9, <1>10

LEMMA AnswersSame ==
  ASSUME Answers, asked' = asked, Ended' = Ended, domainIn' = domainIn,
         Reverting' <=> Reverting
  PROVE  Answers'
BY DEF Answers

LEMMA AnswersStep ==
  ASSUME Typed, Answers, [Next]_vars  PROVE Answers'
<1>1. domainIn \in Seq(Queued) /\ Cardinality(Pending(domainIn)) \in Nat
        /\ Ended \in Nat /\ asked \in Nat
  BY PendingFinite DEF Typed, QueuesTyped, WorldTyped, Ended
<1>2. ASSUME NEW e \in Queued, domainIn' = Append(domainIn, e), e \notin Requests,
             asked' = asked, Ended' = Ended, Reverting' <=> Reverting
      PROVE  Answers'
  <2>1. Cardinality(Pending(domainIn')) = Cardinality(Pending(domainIn))
    BY <1>1, <1>2, PendingAppend
  <2> QED  BY <1>2, <2>1 DEF Answers
<1>3. CASE UNCHANGED vars
  BY <1>3, AnswersSame DEF vars, reactor, Ended, Reverting
<1>4. CASE SendMessage
  <2>1. PICK d: d = [type |-> "thread.message-sent", id |-> UserMessageOf(sent'),
                     role |-> "user", text |-> <<>>, turn |-> None,
                     streaming |-> FALSE, at |-> clock']  OBVIOUS
  <2>2. PICK e: e = [type |-> "thread.turn-start-requested",
                     id |-> UserMessageOf(sent'), at |-> clock']  OBVIOUS
  <2>3. Dispatch(<<d, e>>) /\ d.type = "thread.message-sent"
          /\ e.type = "thread.turn-start-requested"
    BY <1>4, <2>1, <2>2 DEF SendMessage
  <2>4. domainIn' = Append(domainIn, e)  BY <1>1, <2>3, DispatchTwo DEF Watched
  <2>5. e \notin Requests  BY <2>3 DEF Requests
  <2>6. domainIn' \in Seq(Queued)  BY <1>4, StepSendMessage DEF Typed, QueuesTyped
  <2>7. e \in Queued
    <3>1. Len(domainIn') = Len(domainIn) + 1 /\ domainIn'[Len(domainIn) + 1] = e
            /\ Len(domainIn) \in Nat
      BY <1>1, <2>4
    <3> QED  BY <2>6, <3>1
  <2> QED  BY <1>2, <1>4, <2>4, <2>5, <2>7 DEF SendMessage, reactor, Ended, Reverting
<1>5. CASE AskRevert
  <2>1. PICK e \in Requests: domainIn' = Append(domainIn, e)
    BY <1>5, StepAskRevert
  <2>2. Cardinality(Pending(domainIn')) = Cardinality(Pending(domainIn)) + 1
    BY <1>1, <2>1, PendingAppend DEF Queued
  <2> QED  BY <1>1, <1>5, <2>2 DEF AskRevert, reactor, Ended, Reverting, Answers
<1>6. CASE StartTurn \/ EditFiles \/ EndTurn
  BY <1>6, AnswersSame DEF StartTurn, EditFiles, EndTurn, reactor, Ended, Reverting
<1>7. CASE Ingest  BY <1>7, AnswersSame DEF Ingest, reactor, Ended, Reverting
<1>8. CASE IngestDispatch
  <2>1. CASE domainIn' = domainIn
    BY <1>8, <2>1, AnswersSame DEF IngestDispatch, reactor, Ended, Reverting
  <2>2. CASE \E e \in Diffs: Recorded(e)
    <3>1. PICK e \in Diffs: domainIn' = Append(domainIn, e)  BY <2>2 DEF Recorded
    <3>2. e \in Queued /\ e \notin Requests  BY DEF Queued, Diffs, Requests
    <3> QED  BY <1>2, <1>8, <3>1, <3>2 DEF IngestDispatch, reactor, Ended, Reverting
  <2> QED  BY <1>8, <2>1, <2>2, StepIngestDispatch
<1>9. CASE TakeDomain
  <2>1. PICK e: e = Head(domainIn)  OBVIOUS
  <2>2. e \in Queued /\ domainIn # <<>>  BY <1>1, <1>9, <2>1 DEF TakeDomain
  <2>3. ~Reverting  BY <1>9 DEF TakeDomain, Idle, Reverting
  <2>4. CASE e \in Requests
    <3>1. e.type = "thread.checkpoint-revert-requested" /\ e.count \in Nat
      BY <2>4 DEF Requests
    <3>2. PICK n: n = e.count  OBVIOUS
    <3>3. n \in Nat /\ BeginRevert(n)  BY <1>9, <2>1, <3>1, <3>2 DEF TakeDomain
    <3>4. \/ job' = NoJob /\ Ended' = Ended + 1
          \/ job'.step = "restore" /\ Ended' = Ended
      BY <3>3, RevertTyped, RequestEnds DEF GoesOn, Ended
    <3>5. Reverting' <=> Ended' = Ended
      BY <1>1, <3>4 DEF Reverting, NoJob
    <3>6. Cardinality(Pending(domainIn)) = Cardinality(Pending(domainIn')) + 1
      BY <1>1, <1>9, <2>1, <2>2, <2>4, PendingTail DEF TakeDomain
    <3>7. Cardinality(Pending(domainIn')) \in Nat
      <4>1. domainIn' \in Seq(Queued)  BY <1>9, StepTakeDomain DEF Typed, QueuesTyped
      <4> QED  BY <4>1, PendingFinite
    <3>8. asked' = asked  BY <1>9 DEF TakeDomain
    <3>9. Ended' \in {Ended, Ended + 1}  BY <3>4
    <3> QED  BY <1>1, <2>3, <3>5, <3>6, <3>7, <3>8, <3>9 DEF Answers
  <2>5. CASE e \notin Requests
    <3>1. Cardinality(Pending(domainIn)) = Cardinality(Pending(domainIn'))
      BY <1>1, <1>9, <2>1, <2>2, <2>5, PendingTail DEF TakeDomain
    <3>2. Ended' = Ended /\ ~Reverting'
      <4>1. CASE e \in Starts
        <5>1. e.type = "thread.turn-start-requested"  BY <4>1 DEF Starts
        <5>2. EnsureBaseline /\ GoesOn  BY <1>9, <2>1, <5>1 DEF TakeDomain
        <5> QED  BY <5>2, BaselineTyped DEF GoesOn, Ended, Reverting
      <4>2. CASE e \in Diffs
        <5>1. e.type = "thread.turn-diff-completed"  BY <4>2 DEF Diffs
        <5>2. CapturePlaceholder(e) /\ GoesOn
          BY <1>9, <2>1, <5>1 DEF TakeDomain
        <5> QED  BY <5>2 DEF CapturePlaceholder, GoesOn, Ended, CaptureJob, NoJob, Reverting
      <4> QED  BY <2>2, <2>5, <4>1, <4>2 DEF Queued
    <3> QED  BY <1>9, <2>3, <3>1, <3>2 DEF TakeDomain, Answers
  <2> QED  BY <2>4, <2>5
<1>10. CASE TakeRuntime
  <2>1. PICK e: e = Head(runtimeIn)  OBVIOUS
  <2>2. ~Reverting  BY <1>10 DEF TakeRuntime, Idle, Reverting
  <2>3. ~Reverting'
    <3>1. CASE EnsureBaseline
      BY <3>1, BaselineTyped DEF Reverting
    <3>2. CASE CaptureCompletion(e)
      BY <3>2 DEF CaptureCompletion, CaptureJob, NoJob, Reverting
    <3> QED  BY <1>10, <2>1, <3>1, <3>2 DEF TakeRuntime
  <2> QED  BY <1>10, <2>2, <2>3, AnswersSame DEF TakeRuntime, GoesOn, Ended
<1>11. CASE RefuseRevert
  <2>1. Head(domainIn) \in Requests
    <3>1. Head(domainIn) \in Queued  BY <1>1, <1>11 DEF RefuseRevert
    <3> QED  BY <1>11, <3>1 DEF RefuseRevert, Queued, Starts, Diffs
  <2>2. Cardinality(Pending(domainIn)) = Cardinality(Pending(domainIn')) + 1
    BY <1>1, <1>11, <2>1, PendingTail DEF RefuseRevert
  <2>3. Cardinality(Pending(domainIn')) \in Nat
    <3>1. domainIn' \in Seq(Queued)  BY <1>11, StepRefuseRevert DEF Typed, QueuesTyped
    <3> QED  BY <3>1, PendingFinite
  <2>4. Ended' = Ended + 1  BY <1>11, RequestEnds DEF RefuseRevert, Ended
  <2> QED  BY <1>1, <1>11, <2>2, <2>3, <2>4 DEF RefuseRevert, Outside, Reverting, Answers
<1>12. CASE CaptureBaseline \/ CaptureFails
  BY <1>12, AnswersSame DEF CaptureBaseline, CaptureFails, GoesOn, Outside,
                             Ended, Reverting, NoJob
<1>13. CASE CaptureRef
  <2>1. job \in Job  BY DEF Typed, JobTyped
  <2>2. job'.step = "record"  BY <1>13, <2>1 DEF CaptureRef, Job
  <2> QED  BY <1>13, <2>2, AnswersSame DEF CaptureRef, GoesOn, Outside, Ended, Reverting
<1>14. CASE RecordCheckpoint
  <2>1. PICK e: e = Recording  OBVIOUS
  <2>2. e \in Diffs /\ domainIn' = Append(domainIn, e)
    BY <1>14, <2>1, RecordingTyped, StepRecordCheckpoint DEF RecordCheckpoint, Recorded
  <2>3. e \in Queued /\ e \notin Requests  BY <2>2 DEF Queued, Diffs, Requests
  <2> QED  BY <1>2, <1>14, <2>2, <2>3 DEF RecordCheckpoint, GoesOn, Outside, Ended, Reverting, NoJob
<1>15. CASE RestoreFiles
  <2>1. CASE job' = NoJob /\ Ended' = Ended + 1
    BY <1>1, <1>15, <2>1 DEF RestoreFiles, Answers, Reverting, NoJob
  <2>2. CASE job' = [job EXCEPT !.step = "rollback"] /\ Ended' = Ended
    <3>1. job'.step = "rollback"  BY <2>2 DEF Typed, JobTyped, Job
    <3> QED  BY <1>15, <2>2, <3>1, AnswersSame DEF RestoreFiles, Reverting
  <2> QED  BY <1>15, <2>1, <2>2, RequestEnds DEF RestoreFiles, GoesOn, Ended
<1>16. CASE RollbackConversation
  <2>1. job'.step = "delete"  BY <1>16 DEF RollbackConversation, Typed, JobTyped, Job
  <2> QED  BY <1>16, <2>1, AnswersSame DEF RollbackConversation, GoesOn, Ended, Reverting
<1>17. CASE DeleteStaleRefs
  <2>1. job'.step = "complete"  BY <1>17 DEF DeleteStaleRefs, Typed, JobTyped, Job
  <2> QED  BY <1>17, <2>1, AnswersSame DEF DeleteStaleRefs, GoesOn, Outside, Ended, Reverting
<1>18. CASE RecordRevert
  <2>1. domainIn' = domainIn  BY <1>18, StepRecordRevert DEF RevertedTo
  <2>2. Ended' = Ended + 1  BY <1>18 DEF RecordRevert, Ended, Typed, WorldTyped
  <2> QED  BY <1>1, <1>18, <2>1, <2>2 DEF RecordRevert, Outside, Reverting, NoJob, Answers
<1>19. CASE RevertFails
  <2>1. PICK n \in 1 .. 2: NotReverted(1, n)  BY <1>19 DEF RevertFails
  <2>2. Ended' = Ended + 1  BY <2>1, RequestEnds DEF Ended
  <2> QED  BY <1>1, <1>19, <2>2 DEF RevertFails, Outside, Reverting, NoJob, Answers
<1> QED
  BY <1>3, <1>4, <1>5, <1>6, <1>7, <1>8, <1>9, <1>10, <1>11, <1>12, <1>13, <1>14,
     <1>15, <1>16, <1>17, <1>18, <1>19 DEF Next, ReactorStep

LEMMA AnswersInit ==
  Init => Answers
<1> SUFFICES ASSUME Init PROVE Answers  OBVIOUS
<1>1. Pending(domainIn) = {}  BY DEF Init, Pending
<1>2. Cardinality(Pending(domainIn)) = 0  BY <1>1, FS_EmptySet
<1> QED  BY <1>2 DEF Init, Answers, Ended, Reverting, NoJob

LEMMA TypedIsTypeOK ==
  ASSUME Typed, Answers  PROVE TypeOK
<1>1. th.checkpoints \in Seq(Checkpoint) /\ th.session \in Session
  BY DEF Typed, EngineTyped, IsThread
<1>2. \A c \in ToSet(th.checkpoints): c \in Checkpoint
  <2>1. DOMAIN th.checkpoints = 1 .. Len(th.checkpoints)  BY <1>1
  <2> QED  BY <1>1, <2>1 DEF ToSet
<1>3. {r.state: r \in rows.turns} \subseteq {"running", "completed", "error"}
  BY DEF Typed, EngineTyped, IsRows, AreTurns, TurnRecord
<1>4. /\ domainIn \in Seq(Queued) /\ answered \in Nat /\ untold \in Nat
      /\ asked \in Nat
  BY DEF Typed, QueuesTyped, WorldTyped
<1>5. answered \in Nat /\ untold \in Nat /\ answered + untold <= asked
  <2>1. Cardinality(Pending(domainIn)) \in Nat  BY <1>4, PendingFinite
  <2> QED  BY <1>4, <2>1 DEF Answers, Ended
<1>6. job.count \in Nat /\ job.turn \in Turns \union {None}
  BY DEF Typed, JobTyped, Job
<1>7. /\ DOMAIN refs \subseteq Nat /\ \A n \in DOMAIN refs: refs[n] \in 0 .. edits
      /\ workspace \in 0 .. edits /\ failures \in 0 .. MaxFailures
  BY DEF Typed, RefsTyped, WorldTyped
<1>8. th.session.status \in {"none", "running", "ready", "error"}
        /\ th.session.turn \in Turns \union {None}
  BY <1>1 DEF Session
<1>9. \A c \in ToSet(th.checkpoints):
        /\ c.turn \in Turns /\ c.count \in Nat \ {0}
        /\ c.status \in {"ready", "missing", "error"}
        /\ c.ref \in {c.count, ProviderDiff}
  BY <1>2 DEF Checkpoint, Statuses
<1> QED  BY <1>3, <1>5, <1>6, <1>7, <1>8, <1>9 DEF TypeOK

(* The variables keep their types: a checkpoint has a turn and a count of its *)
(* own, a status of the code and the ref of its count or a placeholder's; the *)
(* session and the turns of the rows take the states of the code; and no      *)
(* request to revert ends twice, whatever fails.                              *)
THEOREM TypesAreCorrect == Spec => []TypeOK
<1>1. Init => Typed /\ Answers  BY TypedInit, AnswersInit
<1>2. Typed /\ Answers /\ [Next]_vars => Typed' /\ Answers'  BY TypedStep, AnswersStep
<1>3. Typed /\ Answers => TypeOK  BY TypedIsTypeOK
<1> QED  BY <1>1, <1>2, <1>3, PTL DEF Spec

(*********************** What can be restored ******************************)
InThread == ToSet(th.checkpoints)
InRows == CheckpointRows(rows.turns)

Restorable(c) ==
  IsGitRef(c.ref) =>
    \/ HasRef(c.ref)
    \/ c.ref \in torn
    \/ job.step = "complete" /\ c.ref \in job.stale

AllRestorable ==
  /\ \A c \in InThread \union InRows: Restorable(c)
  /\ job.step = "record" => HasRef(job.count)

LEMMA InThreadTyped ==
  ASSUME Typed
  PROVE  /\ th.checkpoints \in Seq(Checkpoint) /\ InThread \subseteq Checkpoint
         /\ InRows \subseteq Checkpoint
<1>1. th.checkpoints \in Seq(Checkpoint)  BY DEF Typed, EngineTyped, IsThread
<1>2. DOMAIN th.checkpoints = 1 .. Len(th.checkpoints)  BY <1>1
<1>3. InThread \subseteq Checkpoint  BY <1>1, <1>2 DEF InThread, ToSet
<1>4. InRows \subseteq Checkpoint  BY DEF InRows, Typed, EngineTyped, IsRows, AreTurns
<1> QED  BY <1>1, <1>3, <1>4

LEMMA RecordedSet ==
  ASSUME Typed, NEW e \in Diffs, Recorded(e)
  PROVE  /\ InThread' \subseteq InThread \union {Point(e)}
         /\ InRows' \subseteq InRows \union {Point(e)}
<1>1. PICK cs: cs = th.checkpoints  OBVIOUS
<1>2. cs \in Seq(Checkpoint)  BY <1>1, InThreadTyped
<1>3. InRows' \subseteq InRows \union {Point(e)}  BY DEF Recorded, InRows
<1>4. InThread' \subseteq InThread \union {Point(e)}
  <2>1. CASE th'.checkpoints = cs  BY <1>1, <2>1 DEF InThread
  <2>2. CASE th'.checkpoints = KeepLast(UpsertCheckpoint(cs, Point(e)), MaxCheckpoints)
    <3>1. PICK c: c = Point(e)  OBVIOUS
    <3>2. c \in Checkpoint  BY <3>1 DEF Point, Diffs, Checkpoint
    <3>3. PICK us: us = UpsertCheckpoint(cs, c)  OBVIOUS
    <3>4. us \in Seq(Checkpoint) /\ ToSet(us) = {d \in ToSet(cs): d.turn # c.turn} \union {c}
      BY <1>2, <3>2, <3>3, Upserting
    <3>5. MaxCheckpoints \in Nat  BY BoundsAssumption
    <3>6. ToSet(KeepLast(us, MaxCheckpoints)) \subseteq ToSet(us)
      BY <3>4, <3>5, KeepLastTyped
    <3> QED  BY <1>1, <2>2, <3>1, <3>3, <3>4, <3>6 DEF InThread
  <2> QED  BY <1>1, <2>1, <2>2 DEF Recorded
<1> QED  BY <1>3, <1>4

LEMMA RevertedSet ==
  ASSUME Typed, NEW n \in Nat, RevertedTo(n)
  PROVE  /\ InThread' \subseteq {c \in InThread: c.count <= n}
         /\ InRows' = {c \in InRows: c.count <= n}
<1>1. PICK cs: cs = th.checkpoints  OBVIOUS
<1>2. cs \in Seq(Checkpoint)  BY <1>1, InThreadTyped
<1>3. PICK S: S = {c \in ToSet(cs): c.count <= n}  OBVIOUS
<1>4. PICK of: of = Select(cs, S)  OBVIOUS
<1>5. of \in Seq(Checkpoint) /\ ToSet(of) = ToSet(cs) \intersect S
  BY <1>2, <1>4, SelectTyped
<1>6. MaxCheckpoints \in Nat  BY BoundsAssumption
<1>7. ToSet(KeepLast(of, MaxCheckpoints)) \subseteq ToSet(of)
  BY <1>5, <1>6, KeepLastTyped
<1>8. th'.checkpoints = KeepLast(of, MaxCheckpoints)
  BY <1>1, <1>3, <1>4 DEF RevertedTo
<1>9. InThread' \subseteq {c \in InThread: c.count <= n}
  BY <1>1, <1>3, <1>5, <1>7, <1>8 DEF InThread
<1>10. InRows' = {c \in InRows: c.count <= n}  BY DEF RevertedTo, InRows
<1> QED  BY <1>9, <1>10

LEMMA RestorableKept ==
  ASSUME AllRestorable, Still, DOMAIN refs \subseteq DOMAIN refs', torn \subseteq torn',
         job.step = "complete" =>
           \/ job'.step = "complete" /\ job'.stale = job.stale
           \/ job.stale \subseteq torn',
         job'.step = "record" => HasRef(job.count)'
  PROVE  AllRestorable'
<1>1. InThread' = InThread /\ InRows' = InRows  BY DEF Still, InThread, InRows
<1>2. \A c \in InThread \union InRows: Restorable(c)'
  BY DEF AllRestorable, Restorable, HasRef
<1> QED  BY <1>1, <1>2 DEF AllRestorable

LEMMA TakesAJob ==
  ASSUME Typed, TakeDomain \/ TakeRuntime
  PROVE  job'.step \in {"idle", "baseline", "capture", "restore"}
<1>1. CASE TakeDomain
  <2>1. PICK e: e = Head(domainIn)  OBVIOUS
  <2>2. e \in Queued  BY <1>1, <2>1 DEF TakeDomain, Typed, QueuesTyped
  <2>3. CASE e \in Starts
    <3>1. e.type = "thread.turn-start-requested"  BY <2>3 DEF Starts
    <3>2. EnsureBaseline  BY <1>1, <2>1, <3>1 DEF TakeDomain
    <3> QED  BY <3>2, BaselineTyped
  <2>4. CASE e \in Diffs
    <3>1. e.type = "thread.turn-diff-completed"  BY <2>4 DEF Diffs
    <3>2. CapturePlaceholder(e)  BY <1>1, <2>1, <3>1 DEF TakeDomain
    <3> QED  BY <3>2 DEF CapturePlaceholder, CaptureJob, NoJob
  <2>5. CASE e \in Requests
    <3>1. e.type = "thread.checkpoint-revert-requested" /\ e.count \in Nat
      BY <2>5 DEF Requests
    <3>2. PICK n: n = e.count  OBVIOUS
    <3>3. n \in Nat /\ BeginRevert(n)  BY <1>1, <2>1, <3>1, <3>2 DEF TakeDomain
    <3> QED  BY <3>3, RevertTyped DEF NoJob
  <2> QED  BY <2>2, <2>3, <2>4, <2>5 DEF Queued
<1>2. CASE TakeRuntime
  <2>1. PICK e: e = Head(runtimeIn)  OBVIOUS
  <2>2. CASE EnsureBaseline  BY <2>2, BaselineTyped
  <2>3. CASE CaptureCompletion(e)  BY <2>3 DEF CaptureCompletion, CaptureJob, NoJob
  <2> QED  BY <1>2, <2>1, <2>2, <2>3 DEF TakeRuntime
<1> QED  BY <1>1, <1>2

LEMMA RestorableStep ==
  ASSUME Typed, AllRestorable, [Next]_vars  PROVE AllRestorable'
<1>1. ASSUME Still, refs' = refs, torn' = torn, job' = job PROVE AllRestorable'
  BY <1>1, RestorableKept DEF AllRestorable, HasRef
<1>2. CASE UNCHANGED vars
  <2>1. Still  BY <1>2, EngineSame DEF vars
  <2> QED  BY <1>1, <1>2, <2>1 DEF vars, reactor
<1>3. CASE SendMessage
  <2>1. Still
    <3>1. PICK m: m = [type |-> "thread.message-sent", id |-> UserMessageOf(sent'),
                       role |-> "user", text |-> <<>>, turn |-> None,
                       streaming |-> FALSE, at |-> clock']  OBVIOUS
    <3>2. PICK e: e = [type |-> "thread.turn-start-requested",
                       id |-> UserMessageOf(sent'), at |-> clock']  OBVIOUS
    <3>3. Dispatch(<<m, e>>)  BY <1>3, <3>1, <3>2 DEF SendMessage
    <3>4. UserMessageOf(sent') \in Nat /\ clock' \in Nat
      BY <1>3, BoundsAssumption DEF SendMessage, UserMessageOf, Typed, WorldTyped
    <3>5. m \in UserMessages /\ e \in Starts
      BY <3>1, <3>2, <3>4 DEF UserMessages, Starts
    <3> QED  BY <3>3, <3>5, EngineStarts DEF Typed, QueuesTyped
  <2> QED  BY <1>1, <1>3, <2>1 DEF SendMessage, reactor
<1>4. CASE AskRevert
  BY <1>1, <1>4, StepAskRevert DEF AskRevert, reactor
<1>5. CASE StartTurn \/ EditFiles \/ EndTurn
  BY <1>1, <1>5, StepStartTurn, StepEditFiles, StepEndTurn
     DEF StartTurn, EditFiles, EndTurn, reactor
<1>6. CASE Ingest  BY <1>1, <1>6, StepIngest DEF Ingest, reactor
<1>7. CASE IngestDispatch
  <2>1. refs' = refs /\ torn' = torn /\ job' = job  BY <1>7 DEF IngestDispatch, reactor
  <2>2. CASE Still  BY <1>1, <2>1, <2>2
  <2>3. ASSUME NEW e \in Diffs, Places(e), Recorded(e) PROVE AllRestorable'
    <3>1. ~IsGitRef(Point(e).ref)  BY <2>3 DEF Places, Point, IsGitRef
    <3>2. \A c \in InThread \union InRows: Restorable(c)'
      BY <2>1 DEF AllRestorable, Restorable, HasRef
    <3>3. Restorable(Point(e))'  BY <3>1 DEF Restorable
    <3>4. \A c \in InThread' \union InRows': Restorable(c)'
      BY <2>3, <3>2, <3>3, RecordedSet
    <3> QED  BY <2>1, <3>4 DEF AllRestorable, HasRef
  <2> QED  BY <1>7, <2>2, <2>3, StepIngestDispatch
<1>8. CASE TakeDomain \/ TakeRuntime
  <2>1. Still  BY <1>8, StepTakeDomain, StepTakeRuntime
  <2>2. refs' = refs /\ torn' = torn /\ job.step = "idle"
    BY <1>8 DEF TakeDomain, TakeRuntime, Unjobbed, Idle
  <2>3. job'.step # "record"  BY <1>8, TakesAJob
  <2> QED  BY <2>1, <2>2, <2>3, RestorableKept
<1>9. CASE RefuseRevert
  BY <1>1, <1>9, StepRefuseRevert DEF RefuseRevert
<1>10. CASE CaptureBaseline
  <2>1. Still /\ DOMAIN refs \subseteq DOMAIN refs' /\ torn' = torn
    BY <1>10, StepCaptureBaseline, CaptureWrites DEF CaptureBaseline
  <2>2. job.step = "baseline" /\ job'.step = "idle"  BY <1>10 DEF CaptureBaseline, NoJob
  <2> QED  BY <2>1, <2>2, RestorableKept
<1>11. CASE CaptureRef
  <2>1. Still /\ DOMAIN refs \subseteq DOMAIN refs' /\ torn' = torn
          /\ job.count \in DOMAIN refs'
    BY <1>11, StepCaptureRef, CaptureWrites DEF CaptureRef
  <2>2. job.step = "capture" /\ job'.count = job.count
    BY <1>11 DEF CaptureRef, Typed, JobTyped, Job
  <2> QED  BY <2>1, <2>2, RestorableKept DEF HasRef
<1>12. CASE RecordCheckpoint
  <2>1. PICK e: e = Recording  OBVIOUS
  <2>2. /\ e \in Diffs /\ Recorded(e) /\ Point(e).ref = job.count
        /\ job.step = "record"
    BY <1>12, <2>1, RecordingTyped, StepRecordCheckpoint DEF RecordCheckpoint, Point
  <2>3. refs' = refs /\ torn' = torn /\ job'.step = "idle"
    BY <1>12 DEF RecordCheckpoint, NoJob
  <2>4. \A c \in InThread \union InRows \union {Point(e)}: Restorable(c)'
    BY <2>2, <2>3 DEF AllRestorable, Restorable, HasRef
  <2>5. InThread' \subseteq InThread \union {Point(e)}
          /\ InRows' \subseteq InRows \union {Point(e)}
    BY <2>2, RecordedSet
  <2> QED  BY <2>3, <2>4, <2>5 DEF AllRestorable
<1>13. CASE CaptureFails
  <2>1. Still /\ refs' = refs /\ torn' = torn /\ job.step # "complete"
          /\ job'.step = "idle"
    BY <1>13, StepCaptureFails DEF CaptureFails, NoJob
  <2> QED  BY <2>1, RestorableKept
<1>14. CASE RestoreFiles
  <2>1. Still /\ refs' = refs /\ torn' = torn /\ job.step = "restore"
    BY <1>14, StepRestoreFiles DEF RestoreFiles
  <2>2. job'.step \in {"rollback", "idle"}
    BY <1>14 DEF RestoreFiles, NoJob, Typed, JobTyped, Job
  <2> QED  BY <2>1, <2>2, RestorableKept
<1>15. CASE RollbackConversation
  <2>1. Still /\ refs' = refs /\ torn' = torn /\ job.step = "rollback"
          /\ job'.step = "delete"
    BY <1>15, StepRollbackConversation DEF RollbackConversation, Typed, JobTyped, Job
  <2> QED  BY <2>1, RestorableKept
<1>16. CASE DeleteStaleRefs
  <2>1. Still  BY <1>16, StepDeleteStaleRefs
  <2>2. /\ torn' = torn /\ job.step = "delete" /\ job'.step = "complete"
        /\ job'.stale = job.stale /\ DOMAIN refs' = DOMAIN refs \ job.stale
    BY <1>16 DEF DeleteStaleRefs, Typed, JobTyped, Job
  <2>3. \A c \in InThread \union InRows: Restorable(c)'
    BY <2>2 DEF AllRestorable, Restorable, HasRef
  <2>4. InThread' = InThread /\ InRows' = InRows  BY <2>1 DEF Still, InThread, InRows
  <2> QED  BY <2>2, <2>3, <2>4 DEF AllRestorable
<1>17. CASE RecordRevert
  <2>1. PICK n: n = job.count  OBVIOUS
  <2>2. n \in Nat /\ RevertedTo(n) /\ job.step = "complete"
    BY <1>17, <2>1, StepRecordRevert DEF RecordRevert, Typed, JobTyped, Job
  <2>3. refs' = refs /\ torn' = torn /\ job'.step = "idle"
    BY <1>17 DEF RecordRevert, NoJob
  <2>4. ASSUME NEW c \in InThread \union InRows, c.count <= n PROVE Restorable(c)'
    <3>1. c \in Checkpoint  BY <2>4, InThreadTyped
    <3>2. c.count \in Nat /\ c.ref \in {c.count, ProviderDiff}  BY <3>1 DEF Checkpoint
    <3>3. IsGitRef(c.ref) => c.ref \notin job.stale
      <4>1. \A r \in job.stale: r = ProviderDiff \/ r > n
        BY <2>1 DEF Typed, JobTyped
      <4>2. \A a \in Nat: a <= n => ~ (a > n)  BY <2>2
      <4> QED  BY <2>4, <3>2, <4>1, <4>2 DEF IsGitRef
    <3> QED  BY <2>3, <3>3 DEF AllRestorable, Restorable, HasRef
  <2>5. InThread' \subseteq {c \in InThread: c.count <= n}
          /\ InRows' = {c \in InRows: c.count <= n}
    BY <2>2, RevertedSet
  <2> QED  BY <2>3, <2>4, <2>5 DEF AllRestorable
<1>18. CASE RevertFails
  <2>1. /\ Still /\ refs' = refs /\ torn \subseteq torn' /\ job'.step = "idle"
        /\ job.step = "complete" => job.stale \subseteq torn'
    BY <1>18, StepRevertFails DEF RevertFails, NoJob
  <2> QED  BY <2>1, RestorableKept
<1> QED
  BY <1>2, <1>3, <1>4, <1>5, <1>6, <1>7, <1>8, <1>9, <1>10, <1>11, <1>12, <1>13, <1>14,
     <1>15, <1>16, <1>17, <1>18 DEF Next, ReactorStep

LEMMA RestorableInit ==
  Init => AllRestorable
<1> SUFFICES ASSUME Init PROVE AllRestorable  OBVIOUS
<1>1. InThread = {}  BY DEF Init, InThread, EmptyThread, ToSet
<1>2. InRows = {}  BY DEF Init, InRows, EmptyRows, CheckpointRows
<1> QED  BY <1>1, <1>2 DEF Init, AllRestorable, NoJob

(* A checkpoint of the thread, in the read model or after a restart, that     *)
(* names a git ref has it, whoever races with whom and however many failures: *)
(* only a revert whose record failed (torn) or is due now leaves it without.  *)
THEOREM CheckpointsStayRestorable == Spec => []CheckpointsAreRestorable
<1>1. Init => Typed  BY TypedInit
<1>2. Init => AllRestorable  BY RestorableInit
<1>3. Typed /\ AllRestorable /\ [Next]_vars => Typed' /\ AllRestorable'
  BY TypedStep, RestorableStep
<1>4. Typed /\ AllRestorable => CheckpointsAreRestorable
  <2> SUFFICES ASSUME Typed, AllRestorable PROVE CheckpointsAreRestorable  OBVIOUS
  <2>1. ToSet(Loaded.checkpoints) = InRows
    BY LoadedCheckpoints DEF Typed, EngineTyped, InRows
  <2> QED
    BY <2>1 DEF AllRestorable, Restorable, InThread, CheckpointsAreRestorable
<1> QED  BY <1>1, <1>2, <1>3, <1>4, PTL DEF Spec

(************************** Captures are kept ******************************)
LEMMA CapturesKept ==
  ASSUME MaxTurns <= MaxCheckpoints, Typed, [Next]_vars,
         NEW c \in ToSet(th.checkpoints), c.status # "missing"
  PROVE  \/ Captured(th'.checkpoints, c.turn)
         \/ job.step = "complete" /\ job.count < c.count
<1>1. PICK cs: cs = th.checkpoints  OBVIOUS
<1>2. /\ cs \in Seq(Checkpoint) /\ c \in ToSet(cs)
      /\ \A i, j \in 1 .. Len(cs): cs[i].turn = cs[j].turn => i = j
  BY <1>1 DEF Typed, EngineTyped, IsThread
<1>3. MaxCheckpoints \in Nat /\ MaxTurns \in Nat  BY BoundsAssumption
<1>4. CASE Still  BY <1>4 DEF Still, Captured
<1>5. ASSUME NEW e \in Diffs, Recorded(e) PROVE Captured(th'.checkpoints, c.turn)
  <2>1. CASE th'.checkpoints = cs  BY <1>1, <2>1 DEF Captured
  <2>2. CASE /\ ~ (e.status = "missing" /\ Captured(cs, e.turn))
             /\ th'.checkpoints = KeepLast(UpsertCheckpoint(cs, Point(e)), MaxCheckpoints)
    <3>1. PICK x: x = Point(e)  OBVIOUS
    <3>2. x \in Checkpoint /\ x.turn = e.turn /\ x.status = e.status
      BY <3>1 DEF Point, Diffs, Checkpoint
    <3>3. PICK us: us = UpsertCheckpoint(cs, x)  OBVIOUS
    <3>4. /\ us \in Seq(Checkpoint)
          /\ ToSet(us) = {d \in ToSet(cs): d.turn # x.turn} \union {x}
          /\ \A i, j \in 1 .. Len(us): us[i].turn = us[j].turn => i = j
      BY <1>2, <3>2, <3>3, Upserting
    <3>5. Len(us) <= MaxCheckpoints
      <4>1. Len(us) <= MaxTurns  BY <3>4, FewCheckpoints
      <4> QED  BY <1>3, <3>4, <4>1
    <3>6. th'.checkpoints = us  BY <1>3, <2>2, <3>1, <3>3, <3>4, <3>5, KeepLastTyped
    <3>7. CASE c.turn # e.turn  BY <1>1, <3>2, <3>4, <3>6, <3>7 DEF Captured
    <3>8. CASE c.turn = e.turn
      <4>1. e.status # "missing"  BY <1>2, <2>2, <3>8 DEF Captured
      <4> QED  BY <3>2, <3>4, <3>6, <3>8, <4>1 DEF Captured
    <3> QED  BY <3>7, <3>8
  <2> QED  BY <1>1, <1>5, <2>1, <2>2 DEF Recorded
<1>6. ASSUME RecordRevert, RevertedTo(job.count), ~ (job.count < c.count)
      PROVE  Captured(th'.checkpoints, c.turn)
  <2>1. PICK n: n = job.count  OBVIOUS
  <2>2. n \in Nat  BY <2>1 DEF Typed, JobTyped, Job
  <2>3. PICK S: S = {d \in ToSet(cs): d.count <= n}  OBVIOUS
  <2>4. PICK of: of = Select(cs, S)  OBVIOUS
  <2>5. of \in Seq(Checkpoint) /\ ToSet(of) = ToSet(cs) \intersect S
    BY <1>2, <2>4, SelectTyped
  <2>6. \A i, j \in 1 .. Len(of): of[i] = of[j] => i = j
    <3>1. \A i, j \in 1 .. Len(cs): cs[i] = cs[j] => i = j  BY <1>2
    <3>2. \A i, j \in 1 .. Len(Select(cs, S)): Select(cs, S)[i] = Select(cs, S)[j] => i = j
      BY <1>2, <3>1, SelectInjective
    <3> QED  BY <2>4, <3>2
  <2>7. \A i, j \in 1 .. Len(of): of[i].turn = of[j].turn => i = j
    <3>1. \A d, x \in ToSet(cs): d.turn = x.turn => d = x
      <4>1. DOMAIN cs = 1 .. Len(cs)  BY <1>2
      <4> QED  BY <1>2, <4>1 DEF ToSet
    <3>2. \A i \in 1 .. Len(of): of[i] \in ToSet(cs)
      <4>1. DOMAIN of = 1 .. Len(of)  BY <2>5
      <4>2. \A i \in 1 .. Len(of): of[i] \in ToSet(of)  BY <4>1 DEF ToSet
      <4> QED  BY <2>5, <4>2
    <3> QED  BY <2>6, <3>1, <3>2
  <2>8. Len(of) <= MaxCheckpoints
    <3>1. Len(of) <= MaxTurns  BY <2>5, <2>7, FewCheckpoints
    <3> QED  BY <1>3, <2>5, <3>1
  <2>9. th'.checkpoints = of
    <3>1. th'.checkpoints = KeepLast(of, MaxCheckpoints)
      BY <1>1, <1>6, <2>1, <2>3, <2>4 DEF RevertedTo
    <3> QED  BY <1>3, <2>5, <2>8, <3>1, KeepLastTyped
  <2>10. c \in S
    <3>1. c \in Checkpoint
      <4>1. DOMAIN cs = 1 .. Len(cs)  BY <1>2
      <4> QED  BY <1>2, <4>1 DEF ToSet
    <3>2. c.count \in Nat  BY <3>1 DEF Checkpoint
    <3> QED  BY <1>2, <1>6, <2>1, <2>2, <2>3, <3>2
  <2> QED  BY <1>2, <2>5, <2>9, <2>10 DEF Captured
<1>7. Effect  BY TypedStep
<1> QED  BY <1>4, <1>5, <1>6, <1>7 DEF Effect, RecordRevert

(* The guard of the projector holds against every interleaving of ingestion   *)
(* and reactor: no placeholder replaces a captured checkpoint of the read     *)
(* model, and only a revert to an earlier count removes one, as long as the   *)
(* thread does not reach the number of checkpoints the read model keeps.      *)
THEOREM CapturesAreKept ==
  ASSUME MaxTurns <= MaxCheckpoints PROVE Spec => CapturesLast
<1>1. Init => Typed  BY TypedInit
<1>2. Typed /\ [Next]_vars => Typed'  BY TypedStep
<1>3. Typed /\ [Next]_vars =>
        [\A c \in ToSet(th.checkpoints):
           c.status # "missing" =>
             \/ Captured(th'.checkpoints, c.turn)
             \/ job.step = "complete" /\ job.count < c.count]_vars
  BY CapturesKept
<1> QED  BY <1>1, <1>2, <1>3, PTL DEF Spec, CapturesLast

(********************** The numbers of the checkpoints *********************)
(* No report of a diff is on its way to the ingestion. *)
Unreported ==
  /\ \A i \in 1 .. Len(ingest): ingest[i].type # "turn.diff.updated"
  /\ seen # None => seen.event.type # "turn.diff.updated"

Placeholder(e) == e.type = "thread.turn-diff-completed" /\ e.status = "missing"

LEMMA HighestIsLast ==
  ASSUME NEW cs \in Seq(Checkpoint), \A i \in 1 .. Len(cs): cs[i].count = i
  PROVE  MaxCount(cs) = Len(cs)
<1>1. DOMAIN cs = 1 .. Len(cs) /\ Len(cs) \in Nat  OBVIOUS
<1>2. PICK m: m = MaxCount(cs)  OBVIOUS
<1>3. /\ m \in Nat /\ \A c \in ToSet(cs): c.count <= m
      /\ cs = <<>> => m = 0
      /\ m = 0 \/ \E c \in ToSet(cs): c.count = m
  BY <1>2, Highest
<1>4. m <= Len(cs)
  <2>1. \A c \in ToSet(cs): c.count \in 1 .. Len(cs)  BY <1>1 DEF ToSet
  <2> QED  BY <1>1, <1>3, <2>1
<1>5. Len(cs) <= m
  <2>1. CASE cs = <<>>  BY <1>3, <2>1
  <2>2. CASE cs # <<>>
    <3>1. Len(cs) \in 1 .. Len(cs)  BY <1>1, <2>2
    <3>2. cs[Len(cs)] \in ToSet(cs) /\ cs[Len(cs)].count = Len(cs)
      BY <1>1, <3>1 DEF ToSet
    <3> QED  BY <1>3, <3>2
  <2> QED  BY <2>1, <2>2
<1> QED  BY <1>1, <1>2, <1>3, <1>4, <1>5

LEMMA Listed ==
  ASSUME Typed, NEW cs, cs = th.checkpoints
  PROVE  /\ cs \in Seq(Checkpoint) /\ DOMAIN cs = 1 .. Len(cs) /\ Len(cs) \in Nat
         /\ \A i, j \in 1 .. Len(cs): cs[i].turn = cs[j].turn => i = j
<1>1. cs \in Seq(Checkpoint)  BY InThreadTyped
<1>2. \A i, j \in 1 .. Len(cs): cs[i].turn = cs[j].turn => i = j
  BY DEF Typed, EngineTyped, IsThread
<1>3. DOMAIN cs = 1 .. Len(cs) /\ Len(cs) \in Nat  BY <1>1
<1> QED  BY <1>1, <1>2, <1>3

(* What is said of the checkpoints alone, and of the job alone. *)
CountsRun ==
  /\ \A i \in 1 .. Len(th.checkpoints):
       th.checkpoints[i].count = i /\ th.checkpoints[i].status # "missing"
  /\ InRows = InThread
NextIsCaptured ==
  Capturing => /\ \A c \in InThread: c.turn # job.turn
               /\ job.count = Len(th.checkpoints) + 1
               /\ job.status # "missing"
NoReports ==
  /\ Unreported
  /\ \A i \in 1 .. Len(domainIn): ~Placeholder(domainIn[i])

(* Without reports of diffs no placeholder arises: the reactor alone counts. *)
Numbered == diffs = 0 /\ Uninterrupted => NoReports /\ CountsRun /\ NextIsCaptured

LEMMA UnreportedEmitted ==
  ASSUME Typed, Unreported, NEW e, ingest' = Append(ingest, e),
         e.type # "turn.diff.updated", seen' = seen
  PROVE  Unreported'
<1>1. PICK q: q = ingest  OBVIOUS
<1>2. q \in Seq(Reports \union Bounds)  BY <1>1 DEF Typed, QueuesTyped
<1>3. PICK p: p = Append(q, e)  OBVIOUS
<1>4. /\ Len(p) = Len(q) + 1 /\ Len(q) \in Nat /\ p[Len(q) + 1] = e
      /\ \A i \in 1 .. Len(q): p[i] = q[i]
  BY <1>2, <1>3
<1>5. \A i \in 1 .. Len(p): p[i].type # "turn.diff.updated"
  <2>1. \A i \in 1 .. Len(q): q[i].type # "turn.diff.updated"  BY <1>1 DEF Unreported
  <2>2. \A i \in 1 .. Len(p): i \in 1 .. Len(q) \/ i = Len(q) + 1  BY <1>4
  <2> QED  BY <1>4, <2>1, <2>2
<1> QED  BY <1>1, <1>3, <1>5 DEF Unreported

LEMMA UnreportedRead ==
  ASSUME Typed, Unreported, Ingest  PROVE Unreported'
<1>1. PICK q: q = ingest  OBVIOUS
<1>2. q \in Seq(Reports \union Bounds) /\ q # <<>>
  BY <1>1 DEF Ingest, Typed, QueuesTyped
<1>3. PICK p: p = Tail(q)  OBVIOUS
<1>4. /\ Len(p) = Len(q) - 1 /\ Len(q) \in Nat \ {0} /\ Head(q) = q[1]
      /\ \A i \in 1 .. Len(p): p[i] = q[i + 1]
  BY <1>2, <1>3
<1>5. \A i \in 1 .. Len(q): q[i].type # "turn.diff.updated"  BY <1>1 DEF Unreported
<1>6. \A i \in 1 .. Len(p): i + 1 \in 1 .. Len(q)  BY <1>4
<1>7. 1 \in 1 .. Len(q)  BY <1>4
<1>8. ingest' = p /\ seen'.event = q[1]  BY <1>1, <1>3, <1>4 DEF Ingest
<1>9. \A i \in 1 .. Len(p): p[i].type # "turn.diff.updated"  BY <1>4, <1>5, <1>6
<1>10. seen'.event.type # "turn.diff.updated"  BY <1>5, <1>7, <1>8
<1> QED  BY <1>8, <1>9, <1>10 DEF Unreported

LEMMA CountsRunStill ==
  ASSUME CountsRun, Still  PROVE CountsRun'
BY DEF CountsRun, Still, InThread, InRows

LEMMA NextStill ==
  ASSUME NextIsCaptured, Still,
         job' = job \/ job'.step \notin {"capture", "record"}
  PROVE  NextIsCaptured'
BY DEF NextIsCaptured, Still, InThread, Capturing

LEMMA CountsRunRecord ==
  ASSUME MaxTurns <= MaxCheckpoints, Typed, CountsRun, NextIsCaptured,
         RecordCheckpoint
  PROVE  CountsRun' /\ ~Placeholder(Recording)
<1>1. PICK e: e = Recording  OBVIOUS
<1>2. /\ e \in Diffs /\ e.turn = job.turn /\ e.count = job.count /\ e.status = job.status
      /\ Recorded(e) /\ job.step = "record"
  BY <1>1, RecordingTyped, StepRecordCheckpoint DEF RecordCheckpoint
<1>3. PICK cs: cs = th.checkpoints  OBVIOUS
<1>4. /\ cs \in Seq(Checkpoint) /\ DOMAIN cs = 1 .. Len(cs) /\ Len(cs) \in Nat
      /\ \A i, j \in 1 .. Len(cs): cs[i].turn = cs[j].turn => i = j
  BY <1>3, Listed
<1>5. /\ \A c \in ToSet(cs): c.turn # e.turn
      /\ e.count = Len(cs) + 1 /\ e.status # "missing"
  BY <1>2, <1>3 DEF NextIsCaptured, Capturing, InThread
<1>6. PICK x: x = Point(e)  OBVIOUS
<1>7. /\ x \in Checkpoint /\ x.turn = e.turn /\ x.status = e.status /\ x.count = e.count
  BY <1>2, <1>6 DEF Point, Diffs, Checkpoint
<1>8. \A c \in ToSet(cs): c.count \in 1 .. Len(cs)
  BY <1>3, <1>4 DEF CountsRun, ToSet
<1>9. PICK us: us = UpsertCheckpoint(cs, x)  OBVIOUS
<1>10. us = Append(cs, x)
  <2>1. \A c \in ToSet(cs): c.turn # x.turn /\ c.count <= x.count
    BY <1>4, <1>5, <1>7, <1>8
  <2> QED  BY <1>4, <1>7, <1>9, <2>1, UpsertingLast
<1>11. /\ us \in Seq(Checkpoint)
       /\ \A i, j \in 1 .. Len(us): us[i].turn = us[j].turn => i = j
       /\ ToSet(us) = {d \in ToSet(cs): d.turn # x.turn} \union {x}
  BY <1>4, <1>7, <1>9, Upserting
<1>12. Len(us) <= MaxCheckpoints
  <2>1. Len(us) <= MaxTurns  BY <1>11, FewCheckpoints
  <2> QED  BY <1>11, <2>1, BoundsAssumption
<1>13. th'.checkpoints = us
  <2>1. th'.checkpoints = KeepLast(us, MaxCheckpoints)
    BY <1>2, <1>3, <1>5, <1>6, <1>9 DEF Recorded
  <2> QED  BY <1>11, <1>12, <2>1, BoundsAssumption, KeepLastTyped
<1>14. \A i \in 1 .. Len(us): us[i].count = i /\ us[i].status # "missing"
  <2> SUFFICES ASSUME NEW i \in 1 .. Len(us)
               PROVE  us[i].count = i /\ us[i].status # "missing"
    OBVIOUS
  <2>1. CASE i \in 1 .. Len(cs)
    <3>1. us[i] = cs[i]  BY <1>4, <1>7, <1>10, <2>1
    <3> QED  BY <1>3, <2>1, <3>1 DEF CountsRun
  <2>2. CASE i = Len(cs) + 1
    <3>1. us[i] = x  BY <1>4, <1>7, <1>10, <2>2
    <3> QED  BY <1>5, <1>7, <2>2, <3>1
  <2>3. Len(us) = Len(cs) + 1  BY <1>4, <1>10
  <2> QED  BY <1>4, <2>1, <2>2, <2>3
<1>15. InRows' = InThread'
  <2>1. \A c: c \in InRows' <=> \/ c \in InRows /\ c.turn # e.turn /\ c.count # e.count
                                \/ c = x
    BY <1>2, <1>6 DEF Recorded, InRows
  <2>2. InRows = ToSet(cs)  BY <1>3 DEF CountsRun, InThread
  <2>3. \A c \in ToSet(cs): c.turn # e.turn /\ c.count # e.count
    BY <1>4, <1>5, <1>8
  <2>4. InThread' = ToSet(us)  BY <1>13 DEF InThread
  <2>5. ToSet(us) = ToSet(cs) \union {x}  BY <1>7, <1>11, <2>3
  <2> QED  BY <2>1, <2>2, <2>3, <2>4, <2>5
<1> QED  BY <1>1, <1>5, <1>13, <1>14, <1>15 DEF CountsRun, Placeholder

LEMMA CountsRunRevert ==
  ASSUME MaxTurns <= MaxCheckpoints, Typed, CountsRun, RecordRevert
  PROVE  CountsRun'
<1>1. PICK n: n = job.count  OBVIOUS
<1>2. n \in Nat /\ RevertedTo(n)
  BY <1>1, StepRecordRevert DEF Typed, JobTyped, Job
<1>3. PICK cs: cs = th.checkpoints  OBVIOUS
<1>4. /\ cs \in Seq(Checkpoint) /\ DOMAIN cs = 1 .. Len(cs) /\ Len(cs) \in Nat
      /\ \A i, j \in 1 .. Len(cs): cs[i].turn = cs[j].turn => i = j
      /\ \A i \in 1 .. Len(cs): cs[i].count = i /\ cs[i].status # "missing"
  <2>1. \A i \in 1 .. Len(cs): cs[i].count = i /\ cs[i].status # "missing"
    BY <1>3 DEF CountsRun
  <2> QED  BY <1>3, <2>1, Listed
<1>5. PICK S: S = {c \in ToSet(cs): c.count <= n}  OBVIOUS
<1>6. PICK k: k = IF n <= Len(cs) THEN n ELSE Len(cs)  OBVIOUS
<1>7. k \in 0 .. Len(cs) /\ k <= n /\ \A i \in 1 .. Len(cs): i <= n <=> i <= k
  <2>1. PICK L: L = Len(cs)  OBVIOUS
  <2>2. L \in Nat /\ k = IF n <= L THEN n ELSE L  BY <1>4, <1>6, <2>1
  <2>3. k \in 0 .. L /\ k <= n  BY <1>2, <2>2
  <2>4. \A i \in 1 .. L: i <= n <=> i <= k  BY <1>2, <2>2
  <2> QED  BY <2>1, <2>3, <2>4
<1>8. /\ \A i \in 1 .. k: cs[i] \in S
      /\ \A i \in k + 1 .. Len(cs): cs[i] \notin S
  BY <1>4, <1>5, <1>7 DEF ToSet
<1>9. PICK of: of = Select(cs, S)  OBVIOUS
<1>10. of = SubSeq(cs, 1, k)  BY <1>4, <1>7, <1>8, <1>9, SelectPrefix
<1>11. /\ of \in Seq(Checkpoint) /\ Len(of) = k
       /\ \A i \in 1 .. k: of[i] = cs[i]
  BY <1>4, <1>7, <1>10
<1>12. ToSet(of) = ToSet(cs) \intersect S  BY <1>4, <1>9, SelectTyped
<1>13. Len(of) <= MaxCheckpoints
  <2>1. Len(cs) <= MaxTurns  BY <1>4, FewCheckpoints
  <2> QED  BY <1>4, <1>7, <1>11, <2>1, BoundsAssumption
<1>14. th'.checkpoints = of
  <2>1. th'.checkpoints = KeepLast(of, MaxCheckpoints)
    BY <1>2, <1>3, <1>5, <1>9 DEF RevertedTo
  <2> QED  BY <1>11, <1>13, <2>1, BoundsAssumption, KeepLastTyped
<1>15. \A i \in 1 .. Len(of): of[i].count = i /\ of[i].status # "missing"
  BY <1>4, <1>7, <1>11
<1>16. InRows' = InThread'
  <2>1. InRows' = {c \in InRows: c.count <= n}  BY <1>2, RevertedSet
  <2>2. InRows = ToSet(cs)  BY <1>3 DEF CountsRun, InThread
  <2>3. InThread' = ToSet(of)  BY <1>14 DEF InThread
  <2> QED  BY <1>5, <1>12, <2>1, <2>2, <2>3
<1> QED  BY <1>14, <1>15, <1>16 DEF CountsRun

LEMMA NextAtCompletion ==
  ASSUME Typed, Uninterrupted, CountsRun, NEW e \in Bounds, e.type = "turn.completed",
         CaptureCompletion(e), th' = th
  PROVE  NextIsCaptured'
<1>1. CASE job' = NoJob  BY <1>1 DEF NextIsCaptured, Capturing, NoJob
<1>2. CASE job' # NoJob
  <2>1. PICK n \in Nat \ {0}, st \in Statuses:
              /\ job' = CaptureJob(e.turn, n, st)
              /\ st = StatusFromRuntime(e.state)
              /\ ~Captured(th.checkpoints, e.turn)
              /\ \/ \E c \in ToSet(th.checkpoints): c.turn = e.turn /\ c.count = n
                 \/ /\ ~ \E c \in ToSet(th.checkpoints): c.turn = e.turn
                    /\ n = MaxCount(th.checkpoints) + 1
    BY <1>2, CompletionJob
  <2>2. PICK cs: cs = th.checkpoints  OBVIOUS
  <2>3. /\ cs \in Seq(Checkpoint) /\ DOMAIN cs = 1 .. Len(cs) /\ Len(cs) \in Nat
        /\ \A i \in 1 .. Len(cs): cs[i].count = i /\ cs[i].status # "missing"
    <3>1. \A i \in 1 .. Len(cs): cs[i].count = i /\ cs[i].status # "missing"
      BY <2>2 DEF CountsRun
    <3> QED  BY <2>2, <3>1, Listed
  <2>4. \A c \in ToSet(cs): c.status # "missing"  BY <2>3 DEF ToSet
  <2>5. \A c \in ToSet(cs): c.turn # e.turn
    BY <2>1, <2>2, <2>4 DEF Captured
  <2>6. n = Len(cs) + 1
    <3>1. MaxCount(cs) = Len(cs)  BY <2>3, HighestIsLast
    <3> QED  BY <2>1, <2>2, <2>5, <3>1
  <2>7. st # "missing"
    <3>1. e.state \in TurnEnd  BY DEF Bounds
    <3> QED  BY <2>1, <3>1 DEF Uninterrupted, StatusFromRuntime
  <2>8. /\ job'.turn = e.turn /\ job'.count = n /\ job'.status = st
    BY <2>1 DEF CaptureJob, NoJob
  <2> QED  BY <2>2, <2>5, <2>6, <2>7, <2>8 DEF NextIsCaptured, InThread
<1> QED  BY <1>1, <1>2

LEMMA NoReportsSame ==
  ASSUME NoReports, ingest' = ingest, seen' = seen, domainIn' = domainIn
  PROVE  NoReports'
BY DEF NoReports, Unreported

LEMMA NoReportsQueued ==
  ASSUME Typed, NoReports, ingest' = ingest, seen' = seen,
         NEW e, domainIn' = Append(domainIn, e), ~Placeholder(e)
  PROVE  NoReports'
<1>1. PICK q: q = domainIn  OBVIOUS
<1>2. q \in Seq(Queued)  BY <1>1 DEF Typed, QueuesTyped
<1>3. PICK p: p = Append(q, e)  OBVIOUS
<1>4. /\ Len(p) = Len(q) + 1 /\ Len(q) \in Nat /\ p[Len(q) + 1] = e
      /\ \A i \in 1 .. Len(q): p[i] = q[i]
  BY <1>2, <1>3
<1>5. \A i \in 1 .. Len(p): ~Placeholder(p[i])
  <2>1. \A i \in 1 .. Len(q): ~Placeholder(q[i])  BY <1>1 DEF NoReports
  <2>2. \A i \in 1 .. Len(p): i \in 1 .. Len(q) \/ i = Len(q) + 1  BY <1>4
  <2> QED  BY <1>4, <2>1, <2>2
<1> QED  BY <1>1, <1>3, <1>5 DEF NoReports, Unreported

LEMMA NoReportsTaken ==
  ASSUME Typed, NoReports, domainIn # <<>>, domainIn' = Tail(domainIn),
         ingest' = ingest, seen' = seen
  PROVE  NoReports' /\ ~Placeholder(Head(domainIn))
<1>1. PICK q: q = domainIn  OBVIOUS
<1>2. q \in Seq(Queued) /\ q # <<>>  BY <1>1 DEF Typed, QueuesTyped
<1>3. PICK p: p = Tail(q)  OBVIOUS
<1>4. /\ Len(p) = Len(q) - 1 /\ Len(q) \in Nat \ {0} /\ Head(q) = q[1]
      /\ \A i \in 1 .. Len(p): p[i] = q[i + 1]
  BY <1>2, <1>3
<1>5. \A i \in 1 .. Len(q): ~Placeholder(q[i])  BY <1>1 DEF NoReports
<1>6. \A i \in 1 .. Len(p): i + 1 \in 1 .. Len(q)  BY <1>4
<1>7. 1 \in 1 .. Len(q)  BY <1>4
<1> QED  BY <1>1, <1>3, <1>4, <1>5, <1>6, <1>7 DEF NoReports, Unreported

LEMMA NumberedStep ==
  ASSUME MaxTurns <= MaxCheckpoints, Typed, Numbered, [Next]_vars
  PROVE  Numbered'
<1> SUFFICES ASSUME diffs' = 0, Uninterrupted
             PROVE  NoReports' /\ CountsRun' /\ NextIsCaptured'
  BY DEF Numbered, Uninterrupted
<1>1. diffs = 0
  <2>1. diffs \in Nat  BY DEF Typed, WorldTyped
  <2>2. diffs' = diffs \/ diffs' = diffs + 1
    BY DEF Next, ReactorStep, vars, world, SendMessage, AskRevert, StartTurn, EditFiles,
           EndTurn, Ingest, IngestDispatch, TakeDomain, TakeRuntime, RefuseRevert,
           CaptureBaseline, CaptureRef, RecordCheckpoint, CaptureFails, RestoreFiles,
           RollbackConversation, DeleteStaleRefs, RecordRevert, RevertFails, Outside
  <2> QED  BY <2>1, <2>2
<1>2. NoReports /\ CountsRun /\ NextIsCaptured  BY <1>1 DEF Numbered
<1>3. CASE UNCHANGED vars
  <2>1. Still  BY <1>3, EngineSame DEF vars
  <2> QED
    BY <1>2, <1>3, <2>1, CountsRunStill, NextStill, NoReportsSame DEF vars, reactor
<1>4. CASE SendMessage
  <2>1. PICK m: m = [type |-> "thread.message-sent", id |-> UserMessageOf(sent'),
                     role |-> "user", text |-> <<>>, turn |-> None,
                     streaming |-> FALSE, at |-> clock']  OBVIOUS
  <2>2. PICK e: e = [type |-> "thread.turn-start-requested",
                     id |-> UserMessageOf(sent'), at |-> clock']  OBVIOUS
  <2>3. Dispatch(<<m, e>>)  BY <1>4, <2>1, <2>2 DEF SendMessage
  <2>4. UserMessageOf(sent') \in Nat /\ clock' \in Nat
    BY <1>4, BoundsAssumption DEF SendMessage, UserMessageOf, Typed, WorldTyped
  <2>5. m \in UserMessages /\ e \in Starts
    BY <2>1, <2>2, <2>4 DEF UserMessages, Starts
  <2>6. Still /\ domainIn' = Append(domainIn, e)
    BY <2>3, <2>5, EngineStarts DEF Typed, QueuesTyped
  <2>7. ~Placeholder(e)  BY <2>2 DEF Placeholder
  <2> QED
    BY <1>2, <1>4, <2>6, <2>7, CountsRunStill, NextStill, NoReportsQueued
       DEF SendMessage, reactor
<1>5. CASE AskRevert
  <2>1. Still  BY <1>5, StepAskRevert
  <2>2. PICK e \in Requests: domainIn' = Append(domainIn, e)  BY <1>5, StepAskRevert
  <2>3. ~Placeholder(e)  BY DEF Requests, Placeholder
  <2> QED
    BY <1>2, <1>5, <2>1, <2>2, <2>3, CountsRunStill, NextStill, NoReportsQueued
       DEF AskRevert, reactor
<1>6. CASE StartTurn
  <2>1. PICK e: e = [type |-> "turn.started", turn |-> provider.turn + 1]  OBVIOUS
  <2>2. ingest' = Append(ingest, e) /\ e.type # "turn.diff.updated"
    BY <1>6, <2>1 DEF StartTurn, Emit
  <2> QED
    BY <1>2, <1>6, <2>2, StepStartTurn, CountsRunStill, NextStill, UnreportedEmitted
       DEF StartTurn, reactor, NoReports
<1>7. CASE EditFiles
  <2>1. diffs' = diffs + 1  BY <1>7 DEF EditFiles
  <2> QED  BY <1>1, <2>1
<1>8. CASE EndTurn
  <2>1. PICK st \in TurnEnd: Emit([type |-> "turn.completed", turn |-> provider.turn,
                                   state |-> st, at |-> clock'])
    BY <1>8 DEF EndTurn
  <2>2. PICK e: e = [type |-> "turn.completed", turn |-> provider.turn, state |-> st,
                     at |-> clock']  OBVIOUS
  <2>3. ingest' = Append(ingest, e) /\ e.type # "turn.diff.updated"
    BY <2>1, <2>2 DEF Emit
  <2> QED
    BY <1>2, <1>8, <2>3, StepEndTurn, CountsRunStill, NextStill, UnreportedEmitted
       DEF EndTurn, reactor, NoReports
<1>9. CASE Ingest
  BY <1>2, <1>9, StepIngest, CountsRunStill, NextStill, UnreportedRead
     DEF Ingest, reactor, NoReports
<1>10. CASE IngestDispatch
  <2>1. ~ \E e \in Diffs: Places(e)  BY <1>2 DEF NoReports, Unreported, Places
  <2>2. Still /\ domainIn' = domainIn  BY <1>10, <2>1, StepIngestDispatch
  <2>3. NoReports'  BY <1>2, <1>10, <2>2 DEF IngestDispatch, NoReports, Unreported
  <2> QED
    BY <1>2, <1>10, <2>2, <2>3, CountsRunStill, NextStill DEF IngestDispatch, reactor
<1>11. CASE TakeDomain
  <2>1. Still  BY <1>11, StepTakeDomain
  <2>2. NoReports' /\ ~Placeholder(Head(domainIn))
    BY <1>2, <1>11, NoReportsTaken DEF TakeDomain
  <2>3. job'.step \notin {"capture", "record"}
    <3>1. PICK e: e = Head(domainIn)  OBVIOUS
    <3>2. CASE e.type = "thread.turn-diff-completed"
      <4>1. CapturePlaceholder(e)  BY <1>11, <3>1, <3>2 DEF TakeDomain
      <4>2. job' = NoJob  BY <2>2, <3>1, <3>2, <4>1 DEF CapturePlaceholder, Placeholder
      <4> QED  BY <4>2 DEF NoJob
    <3>3. CASE e.type # "thread.turn-diff-completed"
      <4>1. e \in Queued  BY <1>11, <3>1 DEF TakeDomain, Typed, QueuesTyped
      <4>2. CASE e \in Starts
        <5>1. e.type = "thread.turn-start-requested"  BY <4>2 DEF Starts
        <5>2. EnsureBaseline  BY <1>11, <3>1, <5>1 DEF TakeDomain
        <5> QED  BY <5>2, BaselineTyped
      <4>3. CASE e \in Requests
        <5>1. e.type = "thread.checkpoint-revert-requested" /\ e.count \in Nat
          BY <4>3 DEF Requests
        <5>2. PICK n: n = e.count  OBVIOUS
        <5>3. n \in Nat /\ BeginRevert(n)  BY <1>11, <3>1, <5>1, <5>2 DEF TakeDomain
        <5> QED  BY <5>3, RevertTyped DEF NoJob
      <4> QED  BY <3>3, <4>1, <4>2, <4>3 DEF Queued, Diffs
    <3> QED  BY <3>2, <3>3
  <2> QED  BY <1>2, <2>1, <2>2, <2>3, CountsRunStill, NextStill
<1>12. CASE TakeRuntime
  <2>1. Still  BY <1>12, StepTakeRuntime
  <2>2. NoReports'  BY <1>2, <1>12, NoReportsSame DEF TakeRuntime
  <2>3. NextIsCaptured'
    <3>1. PICK e: e = Head(runtimeIn)  OBVIOUS
    <3>2. e \in Bounds  BY <1>12, <3>1 DEF TakeRuntime, Typed, QueuesTyped
    <3>3. CASE e.type = "turn.started"
      <4>1. EnsureBaseline  BY <1>12, <3>1, <3>3 DEF TakeRuntime
      <4>2. job'.step \notin {"capture", "record"}  BY <4>1, BaselineTyped
      <4> QED  BY <1>2, <2>1, <4>2, NextStill
    <3>4. CASE e.type # "turn.started"
      <4>1. e.type = "turn.completed"  BY <3>2, <3>4 DEF Bounds
      <4>2. CaptureCompletion(e) /\ th' = th
        BY <1>12, <3>1, <3>4 DEF TakeRuntime, engine
      <4> QED  BY <1>2, <3>2, <4>1, <4>2, NextAtCompletion
    <3> QED  BY <3>3, <3>4
  <2> QED  BY <1>2, <2>1, <2>2, <2>3, CountsRunStill
<1>13. CASE RefuseRevert
  <2>1. NoReports'
    BY <1>2, <1>13, NoReportsTaken DEF RefuseRevert, Outside
  <2> QED
    BY <1>2, <1>13, <2>1, StepRefuseRevert, CountsRunStill, NextStill DEF RefuseRevert
<1>14. CASE CaptureBaseline \/ CaptureFails
  <2>1. Still  BY <1>14, StepCaptureBaseline, StepCaptureFails
  <2>2. /\ job'.step \notin {"capture", "record"}
        /\ ingest' = ingest /\ seen' = seen /\ domainIn' = domainIn
    BY <1>14 DEF CaptureBaseline, CaptureFails, Outside, NoJob
  <2> QED  BY <1>2, <2>1, <2>2, CountsRunStill, NextStill, NoReportsSame
<1>15. CASE CaptureRef
  <2>1. Still  BY <1>15, StepCaptureRef
  <2>2. ingest' = ingest /\ seen' = seen /\ domainIn' = domainIn
    BY <1>15 DEF CaptureRef, Outside
  <2>3. /\ Capturing /\ job'.turn = job.turn /\ job'.count = job.count
        /\ job'.status = job.status
    BY <1>15 DEF CaptureRef, Capturing, Typed, JobTyped, Job
  <2>4. NextIsCaptured'
    BY <1>2, <2>1, <2>3 DEF NextIsCaptured, Still, InThread
  <2> QED  BY <1>2, <2>1, <2>2, <2>4, CountsRunStill, NoReportsSame
<1>16. CASE RecordCheckpoint
  <2>1. CountsRun' /\ ~Placeholder(Recording)  BY <1>2, <1>16, CountsRunRecord
  <2>2. NextIsCaptured'  BY <1>16 DEF RecordCheckpoint, NoJob, NextIsCaptured, Capturing
  <2>3. domainIn' = Append(domainIn, Recording)
    BY <1>16, StepRecordCheckpoint DEF Recorded
  <2>4. NoReports'
    <3>1. PICK e: e = Recording  OBVIOUS
    <3> QED
      BY <1>2, <1>16, <2>1, <2>3, <3>1, NoReportsQueued DEF RecordCheckpoint, Outside
  <2> QED  BY <2>1, <2>2, <2>4
<1>17. CASE RestoreFiles
  <2>1. Still  BY <1>17, StepRestoreFiles
  <2>2. /\ job'.step \notin {"capture", "record"}
        /\ ingest' = ingest /\ seen' = seen /\ domainIn' = domainIn
    BY <1>17 DEF RestoreFiles, NoJob, Typed, JobTyped, Job
  <2> QED  BY <1>2, <2>1, <2>2, CountsRunStill, NextStill, NoReportsSame
<1>18. CASE RollbackConversation
  <2>1. Still  BY <1>18, StepRollbackConversation
  <2>2. /\ job'.step \notin {"capture", "record"}
        /\ ingest' = ingest /\ seen' = seen /\ domainIn' = domainIn
    BY <1>18 DEF RollbackConversation, Typed, JobTyped, Job
  <2> QED  BY <1>2, <2>1, <2>2, CountsRunStill, NextStill, NoReportsSame
<1>19. CASE DeleteStaleRefs
  <2>1. Still  BY <1>19, StepDeleteStaleRefs
  <2>2. /\ job'.step \notin {"capture", "record"}
        /\ ingest' = ingest /\ seen' = seen /\ domainIn' = domainIn
    BY <1>19 DEF DeleteStaleRefs, Outside, Typed, JobTyped, Job
  <2> QED  BY <1>2, <2>1, <2>2, CountsRunStill, NextStill, NoReportsSame
<1>20. CASE RecordRevert
  <2>1. CountsRun'  BY <1>2, <1>20, CountsRunRevert
  <2>2. NextIsCaptured'  BY <1>20 DEF RecordRevert, NoJob, NextIsCaptured, Capturing
  <2>3. domainIn' = domainIn  BY <1>20, StepRecordRevert DEF RevertedTo
  <2> QED  BY <1>2, <1>20, <2>1, <2>2, <2>3, NoReportsSame DEF RecordRevert, Outside
<1>21. CASE RevertFails
  <2>1. Still  BY <1>21, StepRevertFails
  <2>2. /\ job'.step \notin {"capture", "record"}
        /\ ingest' = ingest /\ seen' = seen /\ domainIn' = domainIn
    BY <1>21 DEF RevertFails, Outside, NoJob
  <2> QED  BY <1>2, <2>1, <2>2, CountsRunStill, NextStill, NoReportsSame
<1> QED
  BY <1>3, <1>4, <1>5, <1>6, <1>7, <1>8, <1>9, <1>10, <1>11, <1>12, <1>13, <1>14,
     <1>15, <1>16, <1>17, <1>18, <1>19, <1>20, <1>21 DEF Next, ReactorStep

LEMMA NumberedInit ==
  Init => Numbered
<1> SUFFICES ASSUME Init PROVE NoReports /\ CountsRun /\ NextIsCaptured
  BY DEF Numbered
<1>1. InThread = {} /\ th.checkpoints = <<>>  BY DEF Init, InThread, EmptyThread, ToSet
<1>2. InRows = {}  BY DEF Init, InRows, EmptyRows, CheckpointRows
<1> QED
  BY <1>1, <1>2 DEF Init, NoReports, Unreported, CountsRun, NextIsCaptured, Capturing, NoJob

(* Without reported diffs and interrupted turns the captured turns of a       *)
(* thread are counted from one without a gap, whatever fails and is reverted. *)
THEOREM CheckpointsAreNumbered ==
  ASSUME MaxTurns <= MaxCheckpoints PROVE Spec => []CapturesAreNumbered
<1>1. Init => Typed /\ Numbered  BY TypedInit, NumberedInit
<1>2. Typed /\ Numbered /\ [Next]_vars => Typed' /\ Numbered'
  BY TypedStep, NumberedStep
<1>3. Typed /\ Numbered => CapturesAreNumbered
  <2> SUFFICES ASSUME Typed, Numbered PROVE CapturesAreNumbered  OBVIOUS
  <2>1. DOMAIN th.checkpoints = 1 .. Len(th.checkpoints)
    <3>1. th.checkpoints \in Seq(Checkpoint)  BY InThreadTyped
    <3> QED  BY <3>1
  <2> QED  BY <2>1 DEF Numbered, CountsRun, CapturesAreNumbered
<1> QED  BY <1>1, <1>2, <1>3, PTL DEF Spec

(* A restart that rebuilds the read model from the rows changes neither the   *)
(* session nor, under the same conditions, the checkpoints.                   *)
THEOREM RestartsKeepCheckpoints ==
  ASSUME MaxTurns <= MaxCheckpoints PROVE Spec => []RestartKeepsCheckpoints
<1>1. Init => Typed /\ Numbered  BY TypedInit, NumberedInit
<1>2. Typed /\ Numbered /\ [Next]_vars => Typed' /\ Numbered'
  BY TypedStep, NumberedStep
<1>3. Typed /\ Numbered => RestartKeepsCheckpoints
  <2> SUFFICES ASSUME Typed, Numbered PROVE RestartKeepsCheckpoints  OBVIOUS
  <2>1. IsRows(rows) /\ rows.session = th.session  BY DEF Typed, EngineTyped
  <2>2. Loaded.session = th.session  BY <2>1, LoadedCheckpoints
  <2>3. ASSUME diffs = 0, Uninterrupted PROVE Loaded.checkpoints = th.checkpoints
    <3>1. CountsRun  BY <2>3 DEF Numbered
    <3>2. PICK cs: cs = th.checkpoints  OBVIOUS
    <3>3. cs \in Seq(Checkpoint)  BY <3>2, InThreadTyped
    <3>4. \A i, j \in 1 .. Len(cs): i < j => cs[i].count < cs[j].count
      BY <3>1, <3>2 DEF CountsRun
    <3>5. ByCount(ToSet(cs)) = cs  BY <3>3, <3>4, ByCountInverse
    <3>6. CheckpointRows(rows.turns) = ToSet(cs)
      BY <3>1, <3>2 DEF CountsRun, InRows, InThread
    <3> QED  BY <2>1, <3>2, <3>5, <3>6, LoadedCheckpoints
  <2> QED  BY <2>2, <2>3 DEF RestartKeepsCheckpoints
<1> QED  BY <1>1, <1>2, <1>3, PTL DEF Spec

(*********************** The baseline of a capture *************************)
Undisturbed == diffs = 0 /\ failures = 0 /\ asked = 0

(* The reactor hears only of checkpoints of the thread, at their counts. *)
HeardAreThere ==
  \A i \in 1 .. Len(domainIn):
    domainIn[i].type = "thread.turn-diff-completed" =>
      \E c \in InThread: c.turn = domainIn[i].turn /\ c.count = domainIn[i].count

CaptureIsNear ==
  Capturing => /\ job.count <= MaxCount(th.checkpoints) + 1
               /\ \A c \in InThread: c.turn = job.turn => c.count = job.count

AllHaveRefs == \A k \in 1 .. MaxCount(th.checkpoints): HasRef(k)

(* The first that the reactor hears of the provider is a turn that starts. *)
FirstIsAStart ==
  IF runtimeIn = <<>> THEN provider.turn = 0 /\ ~provider.running
  ELSE Head(runtimeIn).type = "turn.started"
HasBaseline ==
  \/ HasRef(0)
  \/ /\ InThread = {} /\ job.step \in {"idle", "baseline"} /\ job.count = 0
     /\ job.step = "idle" => FirstIsAStart

Based ==
  Undisturbed =>
    Unreported /\ HeardAreThere /\ CaptureIsNear /\ AllHaveRefs /\ HasBaseline

LEMMA NobodyAsked ==
  ASSUME Typed, Answers, asked = 0
  PROVE  ~Reverting /\ (domainIn # <<>> => Head(domainIn) \notin Requests)
<1>1. /\ domainIn \in Seq(Queued) /\ Cardinality(Pending(domainIn)) \in Nat
      /\ Ended \in Nat
  BY PendingFinite DEF Typed, QueuesTyped, WorldTyped, Ended
<1>2. ~Reverting /\ Cardinality(Pending(domainIn)) = 0  BY <1>1 DEF Answers
<1>3. ASSUME domainIn # <<>>, Head(domainIn) \in Requests PROVE FALSE
  <2>1. Cardinality(Pending(domainIn)) = Cardinality(Pending(Tail(domainIn))) + 1
    BY <1>1, <1>3, PendingTail
  <2>2. Tail(domainIn) \in Seq(Queued)  BY <1>1, <1>3
  <2>3. Cardinality(Pending(Tail(domainIn))) \in Nat  BY <2>2, PendingFinite
  <2> QED  BY <1>2, <2>1, <2>3
<1> QED  BY <1>2, <1>3

LEMMA HeardQueued ==
  ASSUME Typed, HeardAreThere, InThread' = InThread, NEW e,
         domainIn' = Append(domainIn, e), e.type # "thread.turn-diff-completed"
  PROVE  HeardAreThere'
<1>1. PICK q: q = domainIn  OBVIOUS
<1>2. q \in Seq(Queued)  BY <1>1 DEF Typed, QueuesTyped
<1>3. PICK p: p = Append(q, e)  OBVIOUS
<1>4. /\ Len(p) = Len(q) + 1 /\ Len(q) \in Nat /\ p[Len(q) + 1] = e
      /\ \A i \in 1 .. Len(q): p[i] = q[i]
  BY <1>2, <1>3
<1>5. \A i \in 1 .. Len(p): i \in 1 .. Len(q) \/ i = Len(q) + 1  BY <1>4
<1>6. \A i \in 1 .. Len(q): q[i].type = "thread.turn-diff-completed" =>
        \E c \in InThread: c.turn = q[i].turn /\ c.count = q[i].count
  BY <1>1 DEF HeardAreThere
<1>7. \A i \in 1 .. Len(p): p[i].type = "thread.turn-diff-completed" =>
        \E c \in InThread: c.turn = p[i].turn /\ c.count = p[i].count
  BY <1>4, <1>5, <1>6
<1> QED  BY <1>1, <1>3, <1>7 DEF HeardAreThere

LEMMA HeardTaken ==
  ASSUME Typed, HeardAreThere, InThread' = InThread, domainIn # <<>>,
         domainIn' = Tail(domainIn)
  PROVE  /\ HeardAreThere'
         /\ Head(domainIn).type = "thread.turn-diff-completed" =>
              \E c \in InThread: /\ c.turn = Head(domainIn).turn
                                 /\ c.count = Head(domainIn).count
<1>1. PICK q: q = domainIn  OBVIOUS
<1>2. q \in Seq(Queued) /\ q # <<>>  BY <1>1 DEF Typed, QueuesTyped
<1>3. PICK p: p = Tail(q)  OBVIOUS
<1>4. /\ Len(p) = Len(q) - 1 /\ Len(q) \in Nat \ {0} /\ Head(q) = q[1]
      /\ \A i \in 1 .. Len(p): p[i] = q[i + 1]
  BY <1>2, <1>3
<1>5. \A i \in 1 .. Len(q): q[i].type = "thread.turn-diff-completed" =>
        \E c \in InThread: c.turn = q[i].turn /\ c.count = q[i].count
  BY <1>1 DEF HeardAreThere
<1>6. \A i \in 1 .. Len(p): i + 1 \in 1 .. Len(q)  BY <1>4
<1>7. 1 \in 1 .. Len(q)  BY <1>4
<1>8. ASSUME NEW i \in 1 .. Len(p), p[i].type = "thread.turn-diff-completed"
      PROVE  \E c \in InThread: c.turn = p[i].turn /\ c.count = p[i].count
  <2>1. p[i] = q[i + 1] /\ i + 1 \in 1 .. Len(q)  BY <1>4, <1>6
  <2>2. q[i + 1].type = "thread.turn-diff-completed"  BY <1>8, <2>1
  <2> QED  BY <1>5, <2>1, <2>2
<1> QED  BY <1>1, <1>3, <1>4, <1>5, <1>7, <1>8 DEF HeardAreThere

(* The runtime events after another one is emitted. *)
LEMMA StartsFirst ==
  ASSUME Typed, HasBaseline, refs' = refs, InThread' = InThread, job' = job,
         StartTurn \/ EndTurn
  PROVE  HasBaseline'
<1> SUFFICES ASSUME FirstIsAStart PROVE FirstIsAStart'
  BY DEF HasBaseline, HasRef
<1>1. runtimeIn \in Seq(Bounds)  BY DEF Typed, QueuesTyped
<1>2. CASE runtimeIn # <<>>
  <2>1. \E e: runtimeIn' = Append(runtimeIn, e)
    BY DEF StartTurn, EndTurn, Emit
  <2>2. PICK e: runtimeIn' = Append(runtimeIn, e)  BY <2>1
  <2>3. PICK q: q = runtimeIn  OBVIOUS
  <2>4. q \in Seq(Bounds) /\ q # <<>>  BY <1>1, <1>2, <2>3
  <2>5. PICK p: p = Append(q, e)  OBVIOUS
  <2>6. p # <<>> /\ Head(p) = Head(q)  BY <2>4, <2>5
  <2> QED  BY <1>2, <2>2, <2>3, <2>5, <2>6 DEF FirstIsAStart
<1>3. CASE runtimeIn = <<>>
  <2>1. StartTurn  BY <1>3 DEF FirstIsAStart, EndTurn
  <2>2. PICK e: e = [type |-> "turn.started", turn |-> provider.turn + 1]  OBVIOUS
  <2>3. runtimeIn' = Append(runtimeIn, e) /\ e.type = "turn.started"
    BY <2>1, <2>2 DEF StartTurn, Emit
  <2>4. PICK p: p = Append(<<>>, e)  OBVIOUS
  <2>5. p # <<>> /\ Head(p) = e  BY <2>4
  <2> QED  BY <1>3, <2>3, <2>4, <2>5 DEF FirstIsAStart
<1> QED  BY <1>2, <1>3

LEMMA BasedRecord ==
  ASSUME MaxTurns <= MaxCheckpoints, Typed, AllRestorable, RecordCheckpoint,
         HeardAreThere, CaptureIsNear, AllHaveRefs, HasBaseline
  PROVE  HeardAreThere' /\ AllHaveRefs' /\ HasBaseline'
<1>1. PICK e: e = Recording  OBVIOUS
<1>2. /\ e \in Diffs /\ e.turn = job.turn /\ e.count = job.count /\ e.status = job.status
      /\ Recorded(e) /\ job.step = "record"
  BY <1>1, RecordingTyped, StepRecordCheckpoint DEF RecordCheckpoint
<1>3. /\ refs' = refs /\ HasRef(job.count)
  BY <1>2 DEF RecordCheckpoint, AllRestorable
<1>4. HasRef(0)  BY <1>2 DEF HasBaseline
<1>5. PICK cs: cs = th.checkpoints  OBVIOUS
<1>6. /\ cs \in Seq(Checkpoint) /\ DOMAIN cs = 1 .. Len(cs) /\ Len(cs) \in Nat
      /\ \A i, j \in 1 .. Len(cs): cs[i].turn = cs[j].turn => i = j
  BY <1>5, Listed
<1>7. PICK x: x = Point(e)  OBVIOUS
<1>8. /\ x \in Checkpoint /\ x.turn = e.turn /\ x.count = e.count /\ e.count \in Nat
  BY <1>2, <1>7 DEF Point, Diffs, Checkpoint
<1>9. PICK T: T = InThread'  OBVIOUS
<1>10. /\ T \subseteq InThread \union {x}
       /\ \A c \in InThread: c.turn # e.turn => c \in T
       /\ \E c \in T: c.turn = e.turn /\ c.count = e.count
  <2>1. CASE e.status = "missing" /\ Captured(cs, e.turn) /\ th'.checkpoints = cs
    <3>1. T = InThread  BY <1>5, <1>9, <2>1 DEF InThread
    <3>2. PICK c \in InThread: c.turn = e.turn
      BY <1>5, <2>1 DEF Captured, InThread
    <3>3. c.count = e.count  BY <1>2, <3>2 DEF CaptureIsNear, Capturing
    <3> QED  BY <3>1, <3>2, <3>3
  <2>2. CASE th'.checkpoints = KeepLast(UpsertCheckpoint(cs, x), MaxCheckpoints)
    <3>1. PICK us: us = UpsertCheckpoint(cs, x)  OBVIOUS
    <3>2. /\ us \in Seq(Checkpoint)
          /\ \A i, j \in 1 .. Len(us): us[i].turn = us[j].turn => i = j
          /\ ToSet(us) = {d \in ToSet(cs): d.turn # x.turn} \union {x}
      BY <1>6, <1>8, <3>1, Upserting
    <3>3. Len(us) <= MaxCheckpoints
      <4>1. Len(us) <= MaxTurns  BY <3>2, FewCheckpoints
      <4> QED  BY <3>2, <4>1, BoundsAssumption
    <3>4. th'.checkpoints = us
      BY <2>2, <3>1, <3>2, <3>3, BoundsAssumption, KeepLastTyped
    <3>5. T = {d \in InThread: d.turn # x.turn} \union {x}
      BY <1>5, <1>9, <3>2, <3>4 DEF InThread
    <3> QED  BY <1>8, <3>5
  <2> QED  BY <1>2, <1>5, <1>7, <2>1, <2>2 DEF Recorded
<1>11. HeardAreThere'
  <2>1. PICK q: q = domainIn  OBVIOUS
  <2>2. q \in Seq(Queued)  BY <2>1 DEF Typed, QueuesTyped
  <2>3. PICK p: p = Append(q, e)  OBVIOUS
  <2>4. /\ Len(p) = Len(q) + 1 /\ Len(q) \in Nat /\ p[Len(q) + 1] = e
        /\ \A i \in 1 .. Len(q): p[i] = q[i]
    BY <2>2, <2>3
  <2>5. \A i \in 1 .. Len(p): i \in 1 .. Len(q) \/ i = Len(q) + 1  BY <2>4
  <2>6. ASSUME NEW i \in 1 .. Len(q), q[i].type = "thread.turn-diff-completed"
        PROVE  \E c \in T: c.turn = q[i].turn /\ c.count = q[i].count
    <3>1. PICK c \in InThread: c.turn = q[i].turn /\ c.count = q[i].count
      BY <2>1, <2>6 DEF HeardAreThere
    <3>2. CASE c.turn # e.turn  BY <1>10, <3>1, <3>2
    <3>3. CASE c.turn = e.turn
      <4>1. c.count = e.count  BY <1>2, <3>3 DEF CaptureIsNear, Capturing
      <4> QED  BY <1>10, <3>1, <3>3, <4>1
    <3> QED  BY <3>2, <3>3
  <2>7. \A i \in 1 .. Len(p): p[i].type = "thread.turn-diff-completed" =>
          \E c \in T: c.turn = p[i].turn /\ c.count = p[i].count
    <3>1. \A i \in 1 .. Len(q): q[i].type = "thread.turn-diff-completed" =>
            \E c \in T: c.turn = q[i].turn /\ c.count = q[i].count
      BY <2>6
    <3> QED  BY <1>10, <2>4, <2>5, <3>1
  <2>8. domainIn' = p  BY <1>2, <2>1, <2>3 DEF Recorded
  <2> QED  BY <1>9, <2>7, <2>8 DEF HeardAreThere
<1>12. AllHaveRefs'
  <2>1. PICK ds: ds = th'.checkpoints  OBVIOUS
  <2>2. ds \in Seq(Checkpoint) /\ T = ToSet(ds)
    <3>1. Typed'  BY StepRecordCheckpoint
    <3>2. ds \in Seq(Checkpoint)  BY <2>1, <3>1 DEF Typed, EngineTyped, IsThread
    <3> QED  BY <1>9, <2>1, <3>2 DEF InThread
  <2>3. PICK n: n = MaxCount(cs)  OBVIOUS
  <2>4. PICK m: m = MaxCount(ds)  OBVIOUS
  <2>5. n \in Nat /\ \A c \in InThread: c.count <= n
    BY <1>5, <1>6, <2>3, Highest DEF InThread
  <2>6. m \in Nat /\ (m = 0 \/ \E c \in T: c.count = m)
    BY <2>2, <2>4, Highest
  <2>7. e.count <= n + 1
    BY <1>2, <1>5, <2>3 DEF CaptureIsNear, Capturing
  <2>8. m <= n \/ m = e.count
    BY <1>8, <1>10, <2>5, <2>6
  <2>9. ASSUME NEW k \in 1 .. m PROVE HasRef(k)
    <3>1. k \in 1 .. n \/ k = e.count  BY <1>8, <2>5, <2>6, <2>7, <2>8
    <3> QED  BY <1>2, <1>3, <1>5, <2>3, <3>1 DEF AllHaveRefs
  <2> QED  BY <1>3, <2>1, <2>4, <2>9 DEF AllHaveRefs, HasRef
<1> QED  BY <1>3, <1>4, <1>11, <1>12 DEF HasBaseline, HasRef

(* The steps that change neither the checkpoints nor the captures. *)
LEMMA BasedStill ==
  ASSUME Still, DOMAIN refs \subseteq DOMAIN refs',
         job' = job \/ job'.step \notin {"capture", "record"}
  PROVE  /\ InThread' = InThread
         /\ CaptureIsNear => CaptureIsNear'
         /\ AllHaveRefs => AllHaveRefs'
         /\ HasRef(0) => HasBaseline'
BY DEF Still, InThread, CaptureIsNear, Capturing, AllHaveRefs, HasBaseline, HasRef

LEMMA BasedAtStart ==
  ASSUME Typed, EnsureBaseline, HasBaseline, AllHaveRefs, Still, refs' = refs
  PROVE  HasBaseline' /\ AllHaveRefs' /\ CaptureIsNear' /\ InThread' = InThread
<1>1. job'.step \notin {"capture", "record"}  BY BaselineTyped
<1>2. InThread' = InThread /\ AllHaveRefs' /\ (HasRef(0) => HasBaseline')
  BY <1>1, BasedStill
<1>3. CaptureIsNear'  BY <1>1 DEF CaptureIsNear, Capturing
<1>4. CASE ~HasRef(0)
  <2>1. InThread = {}  BY <1>4 DEF HasBaseline
  <2>2. PICK cs: cs = th.checkpoints  OBVIOUS
  <2>3. cs \in Seq(Checkpoint) /\ ToSet(cs) = {}
    BY <2>1, <2>2, InThreadTyped DEF InThread
  <2>4. MaxCount(cs) = 0  BY <2>3, Highest
  <2>5. job'.step = "baseline" /\ job'.count = 0
    BY <1>4, <2>2, <2>4, BaselineTyped
  <2> QED  BY <1>2, <1>3, <2>1, <2>5 DEF HasBaseline
<1> QED  BY <1>2, <1>3, <1>4

LEMMA NearAtCompletion ==
  ASSUME Typed, NEW e \in Bounds, e.type = "turn.completed", CaptureCompletion(e),
         th' = th
  PROVE  CaptureIsNear'
<1>1. CASE job' = NoJob  BY <1>1 DEF CaptureIsNear, Capturing, NoJob
<1>2. CASE job' # NoJob
  <2>1. PICK n \in Nat \ {0}, st \in Statuses:
              /\ job' = CaptureJob(e.turn, n, st)
              /\ st = StatusFromRuntime(e.state)
              /\ ~Captured(th.checkpoints, e.turn)
              /\ \/ \E c \in ToSet(th.checkpoints): c.turn = e.turn /\ c.count = n
                 \/ /\ ~ \E c \in ToSet(th.checkpoints): c.turn = e.turn
                    /\ n = MaxCount(th.checkpoints) + 1
    BY <1>2, CompletionJob
  <2>2. PICK cs: cs = th.checkpoints  OBVIOUS
  <2>3. /\ cs \in Seq(Checkpoint) /\ DOMAIN cs = 1 .. Len(cs) /\ Len(cs) \in Nat
        /\ \A i, j \in 1 .. Len(cs): cs[i].turn = cs[j].turn => i = j
    BY <2>2, Listed
  <2>4. MaxCount(cs) \in Nat /\ \A c \in ToSet(cs): c.count <= MaxCount(cs)
    BY <2>3, Highest
  <2>5. job'.turn = e.turn /\ job'.count = n  BY <2>1 DEF CaptureJob, NoJob
  <2>6. n <= MaxCount(cs) + 1  BY <2>1, <2>2, <2>4
  <2>7. \A c, d \in ToSet(cs): c.turn = d.turn => c = d  BY <2>3 DEF ToSet
  <2>8. \A c \in ToSet(cs): c.turn = e.turn => c.count = n  BY <2>1, <2>2, <2>7
  <2> QED  BY <2>2, <2>5, <2>6, <2>8 DEF CaptureIsNear, InThread
<1> QED  BY <1>1, <1>2

LEMMA NearAtPlaceholder ==
  ASSUME Typed, NEW e \in Diffs, CapturePlaceholder(e), th' = th,
         NEW c \in InThread, c.turn = e.turn, c.count = e.count
  PROVE  CaptureIsNear'
<1>1. CASE job' = NoJob  BY <1>1 DEF CaptureIsNear, Capturing, NoJob
<1>2. CASE job' = CaptureJob(e.turn, e.count, "ready")
  <2>1. job'.turn = e.turn /\ job'.count = e.count  BY <1>2 DEF CaptureJob, NoJob
  <2>2. PICK cs: cs = th.checkpoints  OBVIOUS
  <2>3. /\ cs \in Seq(Checkpoint) /\ DOMAIN cs = 1 .. Len(cs) /\ Len(cs) \in Nat
        /\ \A i, j \in 1 .. Len(cs): cs[i].turn = cs[j].turn => i = j
    BY <2>2, Listed
  <2>4. MaxCount(cs) \in Nat /\ \A d \in ToSet(cs): d.count <= MaxCount(cs)
    BY <2>3, Highest
  <2>5. e.count \in Nat  BY DEF Diffs
  <2>6. e.count <= MaxCount(cs) + 1  BY <2>2, <2>4, <2>5 DEF InThread
  <2>7. \A d, x \in ToSet(cs): d.turn = x.turn => d = x  BY <2>3 DEF ToSet
  <2>8. \A d \in ToSet(cs): d.turn = e.turn => d.count = e.count
    BY <2>2, <2>7 DEF InThread
  <2> QED  BY <2>1, <2>2, <2>6, <2>8 DEF CaptureIsNear, InThread
<1> QED  BY <1>1, <1>2 DEF CapturePlaceholder

LEMMA BasedStep ==
  ASSUME MaxTurns <= MaxCheckpoints, Typed, Answers, AllRestorable, Based, [Next]_vars
  PROVE  Based'
<1> SUFFICES ASSUME Undisturbed'
             PROVE  /\ Unreported' /\ HeardAreThere' /\ CaptureIsNear'
                    /\ AllHaveRefs' /\ HasBaseline'
  BY DEF Based
<1>1. Undisturbed
  <2>1. diffs \in Nat /\ failures \in Nat /\ asked \in Nat
    BY BoundsAssumption DEF Typed, WorldTyped
  <2>2. /\ diffs' = diffs \/ diffs' = diffs + 1
        /\ asked' = asked \/ asked' = asked + 1
    BY DEF Next, ReactorStep, vars, world, SendMessage, AskRevert, StartTurn, EditFiles,
           EndTurn, Ingest, IngestDispatch, TakeDomain, TakeRuntime, RefuseRevert,
           CaptureBaseline, CaptureRef, RecordCheckpoint, CaptureFails, RestoreFiles,
           RollbackConversation, DeleteStaleRefs, RecordRevert, RevertFails, Outside
  <2>3. failures' >= failures  BY FailuresAdd
  <2> QED  BY <2>1, <2>2, <2>3 DEF Undisturbed
<1>2. Unreported /\ HeardAreThere /\ CaptureIsNear /\ AllHaveRefs /\ HasBaseline
  BY <1>1 DEF Based
<1>3. ~Reverting /\ (domainIn # <<>> => Head(domainIn) \notin Requests)
  BY <1>1, NobodyAsked DEF Undisturbed
<1>4. ASSUME Still, job' = job, refs' = refs, runtimeIn' = runtimeIn, provider' = provider
      PROVE  /\ InThread' = InThread /\ CaptureIsNear' /\ AllHaveRefs' /\ HasBaseline'
  <2>1. InThread' = InThread /\ CaptureIsNear' /\ AllHaveRefs'
    BY <1>2, <1>4, BasedStill
  <2> QED  BY <1>2, <1>4, <2>1 DEF HasBaseline, HasRef, FirstIsAStart
<1>5. ASSUME ingest' = ingest, seen' = seen PROVE Unreported'
  BY <1>2, <1>5 DEF Unreported
<1>6. ASSUME InThread' = InThread, domainIn' = domainIn PROVE HeardAreThere'
  BY <1>2, <1>6 DEF HeardAreThere
<1>7. CASE UNCHANGED vars
  <2>1. Still  BY <1>7, EngineSame DEF vars
  <2> QED  BY <1>4, <1>5, <1>6, <1>7, <2>1 DEF vars, reactor, world
<1>8. CASE SendMessage
  <2>1. PICK m: m = [type |-> "thread.message-sent", id |-> UserMessageOf(sent'),
                     role |-> "user", text |-> <<>>, turn |-> None,
                     streaming |-> FALSE, at |-> clock']  OBVIOUS
  <2>2. PICK e: e = [type |-> "thread.turn-start-requested",
                     id |-> UserMessageOf(sent'), at |-> clock']  OBVIOUS
  <2>3. Dispatch(<<m, e>>)  BY <1>8, <2>1, <2>2 DEF SendMessage
  <2>4. UserMessageOf(sent') \in Nat /\ clock' \in Nat
    BY <1>8, BoundsAssumption DEF SendMessage, UserMessageOf, Typed, WorldTyped
  <2>5. m \in UserMessages /\ e \in Starts
    BY <2>1, <2>2, <2>4 DEF UserMessages, Starts
  <2>6. Still /\ domainIn' = Append(domainIn, e)
    BY <2>3, <2>5, EngineStarts DEF Typed, QueuesTyped
  <2>7. e.type # "thread.turn-diff-completed"  BY <2>2
  <2>8. InThread' = InThread /\ CaptureIsNear' /\ AllHaveRefs' /\ HasBaseline'
    BY <1>4, <1>8, <2>6 DEF SendMessage, reactor
  <2>9. HeardAreThere'  BY <1>2, <2>6, <2>7, <2>8, HeardQueued
  <2> QED  BY <1>5, <1>8, <2>8, <2>9 DEF SendMessage
<1>9. CASE AskRevert
  <2>1. asked' = asked + 1  BY <1>9 DEF AskRevert
  <2> QED  BY <1>1, <2>1 DEF Undisturbed
<1>10. CASE StartTurn
  <2>1. PICK e: e = [type |-> "turn.started", turn |-> provider.turn + 1]  OBVIOUS
  <2>2. ingest' = Append(ingest, e) /\ e.type # "turn.diff.updated"
    BY <1>10, <2>1 DEF StartTurn, Emit
  <2>3. Unreported'  BY <1>2, <1>10, <2>2, UnreportedEmitted DEF StartTurn
  <2>4. Still /\ job' = job /\ refs' = refs /\ domainIn' = domainIn
    BY <1>10, StepStartTurn DEF StartTurn, reactor
  <2>5. InThread' = InThread /\ CaptureIsNear' /\ AllHaveRefs'
    BY <1>2, <2>4, BasedStill
  <2>6. HasBaseline'  BY <1>2, <1>10, <2>4, <2>5, StartsFirst
  <2> QED  BY <1>6, <2>3, <2>4, <2>5, <2>6
<1>11. CASE EditFiles
  <2>1. diffs' = diffs + 1  BY <1>11 DEF EditFiles
  <2> QED  BY <1>1, <2>1 DEF Undisturbed
<1>12. CASE EndTurn
  <2>1. PICK st \in TurnEnd: Emit([type |-> "turn.completed", turn |-> provider.turn,
                                   state |-> st, at |-> clock'])
    BY <1>12 DEF EndTurn
  <2>2. PICK e: e = [type |-> "turn.completed", turn |-> provider.turn, state |-> st,
                     at |-> clock']  OBVIOUS
  <2>3. ingest' = Append(ingest, e) /\ e.type # "turn.diff.updated"
    BY <2>1, <2>2 DEF Emit
  <2>4. Unreported'  BY <1>2, <1>12, <2>3, UnreportedEmitted DEF EndTurn
  <2>5. Still /\ job' = job /\ refs' = refs /\ domainIn' = domainIn
    BY <1>12, StepEndTurn DEF EndTurn, reactor
  <2>6. InThread' = InThread /\ CaptureIsNear' /\ AllHaveRefs'
    BY <1>2, <2>5, BasedStill
  <2>7. HasBaseline'  BY <1>2, <1>12, <2>5, <2>6, StartsFirst
  <2> QED  BY <1>6, <2>4, <2>5, <2>6, <2>7
<1>13. CASE Ingest
  <2>1. Still  BY <1>13, StepIngest
  <2>2. Unreported'  BY <1>2, <1>13, UnreportedRead
  <2> QED  BY <1>4, <1>6, <1>13, <2>1, <2>2 DEF Ingest, reactor, world
<1>14. CASE IngestDispatch
  <2>1. ~ \E e \in Diffs: Places(e)
    BY <1>2, <1>14 DEF Unreported, Places, IngestDispatch
  <2>2. Still /\ domainIn' = domainIn  BY <1>14, <2>1, StepIngestDispatch
  <2>3. Unreported'  BY <1>2, <1>14 DEF IngestDispatch, Unreported
  <2> QED  BY <1>4, <1>6, <1>14, <2>2, <2>3 DEF IngestDispatch, reactor, world
<1>15. CASE TakeDomain
  <2>1. Still  BY <1>15, StepTakeDomain
  <2>2. refs' = refs /\ th' = th /\ job.step = "idle"
    BY <1>15 DEF TakeDomain, Unjobbed, engine, Idle
  <2>3. InThread' = InThread  BY <2>1 DEF Still, InThread
  <2>4. PICK e: e = Head(domainIn)  OBVIOUS
  <2>5. e \in Queued /\ e \notin Requests
    BY <1>3, <1>15, <2>4 DEF TakeDomain, Typed, QueuesTyped
  <2>6. /\ HeardAreThere'
        /\ e.type = "thread.turn-diff-completed" =>
             \E c \in InThread: c.turn = e.turn /\ c.count = e.count
    BY <1>2, <1>15, <2>3, <2>4, HeardTaken DEF TakeDomain
  <2>7. Unreported'  BY <1>5, <1>15 DEF TakeDomain
  <2>8. CASE e \in Starts
    <3>1. e.type = "thread.turn-start-requested"  BY <2>8 DEF Starts
    <3>2. EnsureBaseline  BY <1>15, <2>4, <3>1 DEF TakeDomain
    <3> QED  BY <1>2, <2>1, <2>2, <2>6, <2>7, <3>2, BasedAtStart
  <2>9. CASE e \in Diffs
    <3>1. e.type = "thread.turn-diff-completed"  BY <2>9 DEF Diffs
    <3>2. CapturePlaceholder(e)  BY <1>15, <2>4, <3>1 DEF TakeDomain
    <3>3. PICK c \in InThread: c.turn = e.turn /\ c.count = e.count  BY <2>6, <3>1
    <3>4. CaptureIsNear'  BY <2>2, <2>9, <3>2, <3>3, NearAtPlaceholder
    <3>5. HasRef(0)  BY <1>2, <3>3 DEF HasBaseline
    <3>6. HasBaseline'  BY <2>2, <3>5 DEF HasBaseline, HasRef
    <3>7. AllHaveRefs'  BY <1>2, <2>2 DEF AllHaveRefs, HasRef
    <3> QED  BY <2>6, <2>7, <3>4, <3>6, <3>7
  <2> QED  BY <2>5, <2>8, <2>9 DEF Queued
<1>16. CASE TakeRuntime
  <2>1. Still  BY <1>16, StepTakeRuntime
  <2>2. refs' = refs /\ th' = th /\ job.step = "idle" /\ domainIn' = domainIn
    BY <1>16 DEF TakeRuntime, Unjobbed, engine, Idle
  <2>3. Unreported'  BY <1>5, <1>16 DEF TakeRuntime
  <2>4. InThread' = InThread  BY <2>1 DEF Still, InThread
  <2>5. HeardAreThere'  BY <1>6, <2>2, <2>4
  <2>6. PICK e: e = Head(runtimeIn)  OBVIOUS
  <2>7. e \in Bounds  BY <1>16, <2>6 DEF TakeRuntime, Typed, QueuesTyped
  <2>8. CASE e.type = "turn.started"
    <3>1. EnsureBaseline  BY <1>16, <2>6, <2>8 DEF TakeRuntime
    <3> QED  BY <1>2, <2>1, <2>2, <2>3, <2>5, <3>1, BasedAtStart
  <2>9. CASE e.type # "turn.started"
    <3>1. e.type = "turn.completed"  BY <2>7, <2>9 DEF Bounds
    <3>2. CaptureCompletion(e)  BY <1>16, <2>6, <2>9 DEF TakeRuntime
    <3>3. CaptureIsNear'  BY <2>2, <2>7, <3>1, <3>2, NearAtCompletion
    <3>4. HasRef(0)
      BY <1>2, <1>16, <2>2, <2>6, <2>9 DEF HasBaseline, FirstIsAStart, TakeRuntime
    <3>5. HasBaseline'  BY <2>2, <3>4 DEF HasBaseline, HasRef
    <3>6. AllHaveRefs'  BY <1>2, <2>2 DEF AllHaveRefs, HasRef
    <3> QED  BY <2>3, <2>5, <3>3, <3>5, <3>6
  <2> QED  BY <2>8, <2>9
<1>17. CASE RefuseRevert \/ CaptureFails \/ RevertFails
  <2>1. failures' > failures  BY <1>17, FailuresAdd
  <2> QED  BY <1>1, <2>1 DEF Undisturbed
<1>18. CASE CaptureBaseline
  <2>1. Still  BY <1>18, StepCaptureBaseline
  <2>2. /\ ingest' = ingest /\ seen' = seen /\ domainIn' = domainIn
        /\ job'.step = "idle" /\ job.step = "baseline"
    BY <1>18 DEF CaptureBaseline, Outside, NoJob
  <2>3. DOMAIN refs' = DOMAIN refs \union {job.count}
    BY <1>18, CaptureWrites DEF CaptureBaseline
  <2>4. InThread' = InThread /\ CaptureIsNear' /\ AllHaveRefs'
          /\ (HasRef(0) => HasBaseline')
    BY <1>2, <2>1, <2>2, <2>3, BasedStill
  <2>5. HasBaseline'
    <3>1. HasRef(0) \/ job.count = 0  BY <1>2 DEF HasBaseline
    <3> QED  BY <2>3, <3>1 DEF HasBaseline, HasRef
  <2> QED  BY <1>5, <1>6, <2>2, <2>4, <2>5
<1>19. CASE CaptureRef
  <2>1. Still  BY <1>19, StepCaptureRef
  <2>2. /\ ingest' = ingest /\ seen' = seen /\ domainIn' = domainIn
        /\ job.step = "capture"
    BY <1>19 DEF CaptureRef, Outside
  <2>3. DOMAIN refs' = DOMAIN refs \union {job.count}
    BY <1>19, CaptureWrites DEF CaptureRef
  <2>4. Capturing /\ job'.turn = job.turn /\ job'.count = job.count
    BY <1>19 DEF CaptureRef, Capturing, Typed, JobTyped, Job
  <2>5. InThread' = InThread /\ CaptureIsNear'
    BY <1>2, <2>1, <2>4 DEF Still, InThread, CaptureIsNear
  <2>6. AllHaveRefs'  BY <1>2, <2>1, <2>3 DEF Still, AllHaveRefs, HasRef
  <2>7. HasBaseline'  BY <1>2, <2>2, <2>3 DEF HasBaseline, HasRef
  <2> QED  BY <1>5, <1>6, <2>2, <2>5, <2>6, <2>7
<1>20. CASE RecordCheckpoint
  <2>1. HeardAreThere' /\ AllHaveRefs' /\ HasBaseline'  BY <1>2, <1>20, BasedRecord
  <2>2. CaptureIsNear'  BY <1>20 DEF RecordCheckpoint, NoJob, CaptureIsNear, Capturing
  <2>3. Unreported'  BY <1>5, <1>20 DEF RecordCheckpoint, Outside
  <2> QED  BY <2>1, <2>2, <2>3
<1>21. ~RestoreFiles /\ ~RollbackConversation /\ ~DeleteStaleRefs /\ ~RecordRevert
  BY <1>3 DEF RestoreFiles, RollbackConversation, DeleteStaleRefs, RecordRevert, Reverting
<1> QED
  BY <1>7, <1>8, <1>9, <1>10, <1>11, <1>12, <1>13, <1>14, <1>15, <1>16, <1>17, <1>18,
     <1>19, <1>20, <1>21 DEF Next, ReactorStep

LEMMA BasedInit ==
  Init => Based
<1> SUFFICES ASSUME Init PROVE Based  OBVIOUS
<1>1. th.checkpoints = <<>> /\ InThread = {}
  BY DEF Init, InThread, EmptyThread, ToSet
<1>2. <<>> \in Seq(Checkpoint)  OBVIOUS
<1>3. MaxCount(<<>>) = 0  BY <1>2, Highest
<1>4. Unreported /\ HeardAreThere  BY DEF Init, Unreported, HeardAreThere
<1>5. CaptureIsNear  BY DEF Init, CaptureIsNear, Capturing, NoJob
<1>6. AllHaveRefs  BY <1>1, <1>3 DEF AllHaveRefs
<1>7. HasBaseline  BY <1>1 DEF Init, HasBaseline, NoJob, FirstIsAStart
<1> QED  BY <1>4, <1>5, <1>6, <1>7 DEF Based

(* When a checkpoint is recorded, the ref of the count before it exists, so   *)
(* the turn has its diff, whichever subscription the reactor serves first, if *)
(* nothing failed, nobody reverted and the provider reported no diff.         *)
THEOREM DiffsHaveBaselines ==
  ASSUME MaxTurns <= MaxCheckpoints PROVE Spec => []DiffHasBaseline
<1> DEFINE Inv == Typed /\ Answers /\ AllRestorable /\ Based
<1>1. Init => Inv  BY TypedInit, AnswersInit, RestorableInit, BasedInit
<1>2. Inv /\ [Next]_vars => Inv'
  BY TypedStep, AnswersStep, RestorableStep, BasedStep
<1>3. Inv => DiffHasBaseline
  <2> SUFFICES ASSUME Inv, job.step = "record", Undisturbed
               PROVE  HasRef(job.count - 1)
    BY DEF DiffHasBaseline, Undisturbed
  <2>1. CaptureIsNear /\ AllHaveRefs /\ HasBaseline  BY DEF Based
  <2>2. job.count \in Nat \ {0}  BY DEF Typed, JobTyped, Job, Capturing
  <2>3. PICK n: n = MaxCount(th.checkpoints)  OBVIOUS
  <2>4. n \in Nat  BY <2>3, InThreadTyped, Highest
  <2>5. job.count <= n + 1  BY <2>1, <2>3 DEF CaptureIsNear, Capturing
  <2>6. HasRef(0)  BY <2>1 DEF HasBaseline
  <2>7. job.count - 1 = 0 \/ job.count - 1 \in 1 .. n  BY <2>2, <2>4, <2>5
  <2> QED  BY <2>1, <2>3, <2>6, <2>7 DEF AllHaveRefs
<1> QED  BY <1>1, <1>2, <1>3, PTL DEF Spec

(*********************** One turn after the other **************************)
EndsTurn(q) == q # <<>> /\ q[Len(q)].type = "turn.completed"

(* The events of q are those of the latest turn, its end the last of them. *)
OfLatest(q, p) ==
  \A i \in 1 .. Len(q):
    /\ q[i].turn = p.turn
    /\ q[i].type = "turn.completed" => i = Len(q) /\ ~p.running

EndInHand == seen # None /\ seen.event.type = "turn.completed"

(* The session is of the latest turn, and only until its end is ingested.   *)
SessionFollows ==
  /\ th.session.turn \in {None, provider.turn}
  /\ seen # None => /\ seen.event.turn = provider.turn
                    /\ seen.active \in {None, provider.turn}
  /\ EndInHand => ingest = <<>> /\ ~provider.running
  /\ \/ provider.running \/ EndsTurn(ingest) \/ EndInHand
     \/ ingest = <<>> /\ seen = None /\ th.session.turn = None

(* The latest turn, while anything of it is under way, is the last of the   *)
(* conversation, and the user waits.                                        *)
HearsOfCheckpoints ==
  \E e \in ToSet(domainIn): e.type = "thread.turn-diff-completed"
UnderWay ==
  \/ provider.running \/ ingest # <<>> \/ seen # None \/ runtimeIn # <<>>
  \/ Capturing \/ HearsOfCheckpoints
LatestIsLast ==
  /\ provider.turn = sent /\ conversation # <<>>
  /\ conversation[Len(conversation)] = provider.turn

OneTurn ==
  /\ OfLatest(ingest, provider) /\ OfLatest(runtimeIn, provider) /\ SessionFollows
  /\ UnderWay => LatestIsLast
  /\ provider.turn = sent \/ provider.turn + 1 = sent

(* The turns the provider remembers are distinct, none later than the latest. *)
History ==
  /\ conversation \in Seq(Turns)
  /\ \A i, j \in 1 .. Len(conversation): conversation[i] = conversation[j] => i = j
  /\ \A i \in 1 .. Len(conversation): conversation[i] <= provider.turn

(* What is recorded or about to be is the checkpoint of the last turn.      *)
OneCheckpoint ==
  /\ Capturing => job.turn = provider.turn /\ job.count = Len(conversation)
  /\ \A e \in ToSet(domainIn): e.type = "thread.turn-diff-completed" =>
       e.turn = provider.turn /\ e.count = Len(conversation)
  /\ seen # None =>
       \/ \E c \in ToSet(seen.checkpoints): c.turn = provider.turn
       \/ MaxCount(seen.checkpoints) + 1 = Len(conversation)

Matching ==
  \A i \in 1 .. Len(th.checkpoints):
    /\ th.checkpoints[i].count = i
    /\ i <= Len(conversation) => th.checkpoints[i].turn = conversation[i]

Awaited == provider.running \/ EndsTurn(runtimeIn) \/ Capturing
Complete ==
  \/ Len(conversation) = Len(th.checkpoints)
  \/ Len(conversation) = Len(th.checkpoints) + 1 /\ Awaited

Silence ==
  /\ ~provider.running /\ provider.turn = sent
  /\ ingest = <<>> /\ seen = None /\ runtimeIn = <<>>
Requested == \E e \in ToSet(domainIn): e.type = "thread.checkpoint-revert-requested"
(* A revert has everything to itself. *)
GoesBack ==
  /\ Requested => Silence /\ Len(domainIn) = 1 /\ job = NoJob
  /\ Reverting =>
       /\ Silence /\ domainIn = <<>>
       /\ job.current = Len(th.checkpoints) /\ job.count <= Len(th.checkpoints)
       /\ Len(conversation) = IF job.step \in {"restore", "rollback"}
                              THEN Len(th.checkpoints) ELSE job.count

Tale == OneTurn /\ History /\ OneCheckpoint /\ Matching /\ GoesBack /\ (~Reverting => Complete)
Told == failures = 0 => Tale

(******************************* The files *********************************)
Version(n) == IF HasRef(n) THEN refs[n] ELSE HeadVersion
HaveRefs(n) == \A i \in 1 .. n: HasRef(i)
RefsAreCounts == \A i \in 1 .. Len(th.checkpoints): th.checkpoints[i].ref = i

Saved ==
  /\ Unreported
  /\ RefsAreCounts
  /\ provider.running \/ runtimeIn # <<>> =>
       /\ Len(conversation) = Len(th.checkpoints) + 1 
       /\ ~Capturing /\ ~HearsOfCheckpoints
  /\ HearsOfCheckpoints => Len(conversation) = Len(th.checkpoints)
  /\ job.step = "baseline" => job.count = Len(th.checkpoints)
  /\ job.step = "record" => HasRef(job.count) /\ refs[job.count] = workspace
  /\ ~Reverting =>
       /\ HaveRefs(Len(th.checkpoints))
       /\ Len(conversation) = Len(th.checkpoints) => workspace = Version(Len(th.checkpoints))
  /\ Reverting =>
       /\ job.ref = job.count /\ HaveRefs(job.count)
       /\ job.step # "restore" => workspace = Version(job.count)

FilesKept == failures = 0 => Saved

Appended(q, e, r) ==
  /\ Len(q) \in Nat /\ Len(r) = Len(q) + 1 /\ r[Len(q) + 1] = e /\ r # <<>>
  /\ \A i \in 1 .. Len(q): r[i] = q[i]

LEMMA Appending ==
  ASSUME NEW U, NEW q \in Seq(U), NEW e \in U, NEW r, r = Append(q, e)
  PROVE  Appended(q, e, r)
BY DEF Appended

LEMMA LatestAppended ==
  ASSUME NEW q, NEW e, NEW r, Appended(q, e, r), NEW p, OfLatest(q, p),
         q = <<>> \/ p.running, NEW o, o.turn = e.turn, q # <<>> => o.turn = p.turn,
         e.type = "turn.completed" => ~o.running
  PROVE  OfLatest(r, o) /\ (e.type = "turn.completed" => EndsTurn(r))
<1>1. PICK n \in Nat: n = Len(q)  BY DEF Appended
<1>2. /\ Len(r) = n + 1 /\ r[n + 1] = e /\ r # <<>>
      /\ \A i \in 1 .. n: r[i] = q[i]
  BY <1>1 DEF Appended
<1>3. \A i \in 1 .. n + 1: i \in 1 .. n \/ i = n + 1  OBVIOUS
<1>4. \A i \in 1 .. n:
        q # <<>> /\ q[i].turn = p.turn /\ q[i].type # "turn.completed"
  <2>1. q = <<>> => n = 0  BY <1>1
  <2> QED  BY <1>1, <2>1 DEF OfLatest
<1>5. OfLatest(r, o)  BY <1>2, <1>3, <1>4 DEF OfLatest
<1>6. e.type = "turn.completed" => EndsTurn(r)  BY <1>2 DEF EndsTurn
<1> QED  BY <1>5, <1>6

LEMMA LatestTaken ==
  ASSUME NEW U, NEW q \in Seq(U), NEW p, OfLatest(q, p), q # <<>>, NEW r, r = Tail(q)
  PROVE  /\ OfLatest(r, p) /\ Head(q) \in U /\ Head(q).turn = p.turn
         /\ Head(q).type = "turn.completed" => r = <<>> /\ ~p.running
         /\ EndsTurn(q) => EndsTurn(r) \/ (r = <<>> /\ Head(q).type = "turn.completed")
<1>1. /\ r \in Seq(U) /\ Len(r) = Len(q) - 1 /\ Len(q) \in Nat \ {0} /\ Head(q) = q[1]
      /\ \A i \in 1 .. Len(r): r[i] = q[i + 1]
  OBVIOUS
<1>2. Head(q) \in U  OBVIOUS
<1>3. PICK n \in Nat: n + 1 = Len(q) /\ n = Len(r)
  <2>1. Len(r) \in Nat /\ Len(r) + 1 = Len(q)  BY <1>1
  <2> QED  BY <2>1
<1>4. \A i \in 1 .. n: i + 1 \in 1 .. n + 1 /\ (i + 1 = n + 1 => i = n)
  OBVIOUS
<1>5. \A i \in 1 .. n + 1:
        q[i].turn = p.turn /\ (q[i].type = "turn.completed" => i = n + 1 /\ ~p.running)
  BY <1>3 DEF OfLatest
<1>6. OfLatest(r, p)
  <2>1. \A i \in 1 .. n: r[i].turn = p.turn
                         /\ (r[i].type = "turn.completed" => i = n /\ ~p.running)
    <3>1. \A i \in 1 .. n: r[i] = q[i + 1]  BY <1>1, <1>3
    <3> QED  BY <1>4, <1>5, <3>1
  <2> QED  BY <1>3, <2>1 DEF OfLatest
<1>7. /\ Head(q).turn = p.turn
      /\ Head(q).type = "turn.completed" => n = 0 /\ ~p.running
  <2>1. 1 \in 1 .. n + 1 /\ (1 = n + 1 => n = 0)  BY <1>3
  <2> QED  BY <1>1, <1>5, <2>1
<1>8. n = 0 => r = <<>>  BY <1>1, <1>3
<1>9. n # 0 => r # <<>> /\ r[n] = q[n + 1]
  <2>1. n # 0 => n \in 1 .. n  OBVIOUS
  <2> QED  BY <1>1, <1>3, <2>1
<1>10. EndsTurn(q) => EndsTurn(r) \/ (r = <<>> /\ Head(q).type = "turn.completed")
  <2>1. CASE n = 0  BY <1>1, <1>3, <1>8, <2>1 DEF EndsTurn
  <2>2. CASE n # 0  BY <1>3, <1>9, <2>2 DEF EndsTurn
  <2> QED  BY <2>1, <2>2
<1> QED  BY <1>2, <1>6, <1>7, <1>8, <1>10

(* A checkpoint of the turn of the last one takes its place. *)
LEMMA UpsertingAgain ==
  ASSUME NEW cs \in Seq(Checkpoint), NEW x \in Checkpoint, cs # <<>>,
         cs[Len(cs)].turn = x.turn,
         \A i \in 1 .. Len(cs) - 1: cs[i].turn # x.turn /\ cs[i].count <= x.count
  PROVE  UpsertCheckpoint(cs, x) = Append(SubSeq(cs, 1, Len(cs) - 1), x)
<1>1. PICK S: S = {y \in ToSet(cs): y.turn # x.turn}  OBVIOUS
<1>2. PICK k: k = Len(cs) - 1  OBVIOUS
<1>3. /\ k \in 0 .. Len(cs) /\ Len(cs) \in Nat /\ DOMAIN cs = 1 .. Len(cs) /\ k + 1 = Len(cs)
  BY <1>2
<1>4. /\ \A i \in 1 .. k: cs[i] \in S
      /\ \A i \in k + 1 .. Len(cs): cs[i] \notin S
  <2>1. \A i \in 1 .. k: i \in 1 .. Len(cs) /\ cs[i] \in ToSet(cs)  BY <1>3 DEF ToSet
  <2>2. \A i \in 1 .. k: cs[i].turn # x.turn  BY <1>2
  <2>3. PICK n: n = Len(cs)  OBVIOUS
  <2>4. k + 1 = n /\ n \in Nat  BY <1>3, <2>3
  <2>5. \A i \in k + 1 .. n: i = n  BY <2>4
  <2> QED  BY <1>1, <2>1, <2>2, <2>3, <2>5
<1>5. PICK s: s = SubSeq(cs, 1, k)  OBVIOUS
<1>6. Select(cs, S) = s  BY <1>3, <1>4, <1>5, SelectPrefix
<1>7. /\ s \in Seq(Checkpoint) /\ Len(s) = k /\ (\A i \in 1 .. k: s[i] = cs[i])
      /\ DOMAIN s = 1 .. k
  BY <1>3, <1>5
<1>8. \A c \in ToSet(s): c.turn # x.turn /\ c.count <= x.count
  BY <1>2, <1>7 DEF ToSet
<1>9. ToSet(s) \subseteq Checkpoint  BY <1>7 DEF ToSet
<1>10. UpsertCheckpoint(s, x) = Append(s, x)  BY <1>7, <1>8, UpsertingLast
<1>11. Select(s, {y \in ToSet(s): y.turn # x.turn}) = s
  <2>1. ToSet(s) \subseteq {y \in ToSet(s): y.turn # x.turn}  BY <1>8
  <2> QED  BY <1>7, <2>1, SelectAll
<1>12. UpsertCheckpoint(cs, x) = UpsertCheckpoint(s, x)
  BY <1>1, <1>6, <1>11 DEF UpsertCheckpoint, Upsert
<1> QED  BY <1>2, <1>5, <1>10, <1>12

LEMMA SetOfAppend ==
  ASSUME NEW q \in Seq(Queued), NEW e \in Queued, NEW r, r = Append(q, e)
  PROVE  ToSet(r) = ToSet(q) \union {e}
<1>1. /\ Len(q) \in Nat /\ DOMAIN q = 1 .. Len(q) /\ DOMAIN r = 1 .. Len(q) + 1
      /\ r[Len(q) + 1] = e /\ \A i \in 1 .. Len(q): r[i] = q[i]
  OBVIOUS
<1>2. PICK n \in Nat: n = Len(q)  BY <1>1
<1>3. 1 .. n + 1 = (1 .. n) \union {n + 1}  OBVIOUS
<1> QED  BY <1>1, <1>2, <1>3 DEF ToSet

LEMMA SetOfTail ==
  ASSUME NEW q \in Seq(Queued), q # <<>>
  PROVE  /\ Head(q) \in Queued /\ Head(q) \in ToSet(q) /\ ToSet(Tail(q)) \subseteq ToSet(q)
         /\ Len(q) = 1 => Tail(q) = <<>> /\ ToSet(Tail(q)) = {}
<1>1. PICK r: r = Tail(q)  OBVIOUS
<1>2. PICK n \in Nat: n + 1 = Len(q)
  <2>1. Len(q) \in Nat \ {0}  OBVIOUS
  <2> QED  BY <2>1
<1>3. /\ r \in Seq(Queued) /\ DOMAIN q = 1 .. n + 1 /\ DOMAIN r = 1 .. n /\ Head(q) = q[1]
      /\ Head(q) \in Queued
  BY <1>1, <1>2
<1>4. \A i \in 1 .. n: r[i] = q[i + 1] /\ i + 1 \in 1 .. n + 1
  <2>1. \A i \in 1 .. n: i \in 1 .. Len(r)  BY <1>3
  <2> QED  BY <1>1, <1>2, <2>1
<1>5. 1 \in 1 .. n + 1  OBVIOUS
<1>6. ToSet(r) \subseteq ToSet(q) /\ Head(q) \in ToSet(q)  BY <1>3, <1>4, <1>5 DEF ToSet
<1>7. Len(q) = 1 => r = <<>> /\ ToSet(r) = {}
  <2>1. Len(q) = 1 => n = 0  BY <1>2
  <2>2. n = 0 => Len(r) = 0 /\ DOMAIN r = {}  BY <1>3
  <2> QED  BY <1>3, <2>1, <2>2 DEF ToSet
<1> QED  BY <1>1, <1>3, <1>6, <1>7

LEMMA OneTurnStays ==
  ASSUME OneTurn, UNCHANGED <<provider, sent, conversation, ingest, seen, runtimeIn>>,
         th'.session = th.session, UnderWay' => UnderWay
  PROVE  OneTurn'
BY DEF OneTurn, SessionFollows, EndInHand, LatestIsLast

LEMMA MatchingStays ==
  ASSUME Matching, th'.checkpoints = th.checkpoints, conversation' = conversation
  PROVE  Matching'
BY DEF Matching

LEMMA TaleSendMessage ==
  ASSUME Calm, Typed, Tale, SendMessage  PROVE Tale'
<1>1. PICK e \in Starts: domainIn' = Append(domainIn, e)  BY StepSendMessage
<1>2. Still /\ th'.session = th.session  BY StepSendMessage
<1>3. /\ Settled /\ sent' = sent + 1 /\ sent \in Nat
      /\ UNCHANGED <<provider, conversation, ingest, seen, runtimeIn, job>>
  BY DEF SendMessage, reactor, Typed, WorldTyped
<1>4. \A d \in ToSet(domainIn'): d.type = "thread.turn-start-requested"
  <2>1. domainIn \in Seq(Queued) /\ domainIn = <<>> /\ e \in Queued
    BY <1>3 DEF Typed, QueuesTyped, Settled, Queued
  <2>2. ToSet(domainIn') = ToSet(domainIn) \union {e}  BY <1>1, <2>1, SetOfAppend
  <2>3. ToSet(domainIn) = {}  BY <2>1 DEF ToSet
  <2> QED  BY <2>2, <2>3 DEF Starts
<1>5. ~UnderWay' /\ ~Requested' /\ ~Reverting' /\ ~HearsOfCheckpoints'
  BY <1>3, <1>4 DEF UnderWay, Settled, Capturing, NoJob, HearsOfCheckpoints, Requested, Reverting
<1>6. OneTurn'
  <2>1. SessionFollows'
    BY <1>2, <1>3 DEF Tale, OneTurn, SessionFollows, EndInHand, EndsTurn
  <2>2. OfLatest(ingest, provider)' /\ OfLatest(runtimeIn, provider)'
    BY <1>3 DEF Tale, OneTurn
  <2> QED  BY <1>3, <1>5, <2>1, <2>2 DEF OneTurn, Settled
<1>7. History'  BY <1>3 DEF Tale, History
<1>8. OneCheckpoint'  BY <1>3, <1>4 DEF Tale, OneCheckpoint, Capturing
<1>9. Matching'  BY <1>2, <1>3, MatchingStays DEF Tale, Still
<1>10. Complete'
  BY <1>2, <1>3, <1>5 DEF Tale, Complete, Awaited, Still, Capturing, Reverting
<1> QED  BY <1>5, <1>6, <1>7, <1>8, <1>9, <1>10 DEF Tale, GoesBack

LEMMA TaleAskRevert ==
  ASSUME Calm, Typed, Tale, AskRevert  PROVE Tale'
<1>1. PICK e \in Requests: domainIn' = Append(domainIn, e)  BY StepAskRevert
<1>2. Still /\ th'.session = th.session  BY StepAskRevert
<1>3. /\ Settled
      /\ UNCHANGED <<provider, sent, conversation, ingest, seen, runtimeIn, job>>
  BY DEF AskRevert, reactor, world
<1>4. domainIn \in Seq(Queued) /\ domainIn = <<>> /\ e \in Queued
  BY <1>3 DEF Typed, QueuesTyped, Settled, Queued
<1>5. /\ \A d \in ToSet(domainIn'): d.type = "thread.checkpoint-revert-requested"
      /\ Len(domainIn') = 1
  <2>1. ToSet(domainIn') = ToSet(domainIn) \union {e}  BY <1>1, <1>4, SetOfAppend
  <2>2. ToSet(domainIn) = {}  BY <1>4 DEF ToSet
  <2> QED  BY <1>1, <1>4, <2>1, <2>2 DEF Requests
<1>6. ~UnderWay' /\ ~Reverting' /\ ~HearsOfCheckpoints'
  BY <1>3, <1>5 DEF UnderWay, Settled, Capturing, NoJob, HearsOfCheckpoints, Reverting
<1>7. OneTurn'  BY <1>2, <1>3, <1>6, OneTurnStays DEF Tale
<1>8. History'  BY <1>3 DEF Tale, History
<1>9. OneCheckpoint'  BY <1>3, <1>5 DEF Tale, OneCheckpoint, Capturing
<1>10. Matching'  BY <1>2, <1>3, MatchingStays DEF Tale, Still
<1>11. Complete'
  BY <1>2, <1>3, <1>6 DEF Tale, Complete, Awaited, Still, Capturing, Reverting
<1>12. GoesBack'  BY <1>3, <1>5, <1>6 DEF GoesBack, Silence, Settled
<1> QED  BY <1>6, <1>7, <1>8, <1>9, <1>10, <1>11, <1>12 DEF Tale
(* A turn starts when nothing of the one before it is left. *)
LEMMA TaleStartTurn ==
  ASSUME Typed, Tale, StartTurn  PROVE Tale'
<1>1. PICK t: t = provider.turn + 1  OBVIOUS
<1>2. /\ provider.turn \in Nat /\ sent \in Nat /\ provider.turn < sent /\ t \in Turns
      /\ ~provider.running /\ provider'.turn = t /\ provider'.running = TRUE
      /\ UNCHANGED <<th, sent, seen, domainIn, job>>
      /\ conversation' = Append(conversation, t)
  BY <1>1, BoundsAssumption DEF StartTurn, Typed, WorldTyped, Turns, engine, reactor
<1>3. provider.turn + 1 = sent /\ t = sent  BY <1>1, <1>2 DEF Tale, OneTurn
<1>4. ~UnderWay /\ ~Requested /\ ~Reverting
  BY <1>2, <1>3 DEF Tale, OneTurn, LatestIsLast, GoesBack, Silence
<1>5. /\ ingest = <<>> /\ seen = None /\ runtimeIn = <<>> /\ ~Capturing
      /\ ~HearsOfCheckpoints
  BY <1>4 DEF UnderWay
<1>6. PICK e: e = [type |-> "turn.started", turn |-> t]  OBVIOUS
<1>7. e \in Reports \union Bounds /\ e.type = "turn.started" /\ e.turn = t
  BY <1>2, <1>6 DEF Bounds
<1>8. ingest' = Append(ingest, e) /\ runtimeIn' = Append(runtimeIn, e)
  <2>1. Emit(e)  BY <1>1, <1>6 DEF StartTurn
  <2> QED  BY <1>7, <2>1 DEF Emit
<1>9. OfLatest(ingest', provider') /\ OfLatest(runtimeIn', provider')
  <2>1. ingest' = <<e>> /\ runtimeIn' = <<e>>  BY <1>5, <1>8
  <2>2. OfLatest(<<e>>, provider')  BY <1>2, <1>7 DEF OfLatest
  <2> QED  BY <2>1, <2>2
<1>10. SessionFollows'
  <2>1. th.session.turn = None
    BY <1>2, <1>5 DEF Tale, OneTurn, SessionFollows, EndsTurn, EndInHand
  <2> QED  BY <1>2, <1>5, <2>1 DEF SessionFollows, EndInHand
<1>11. PICK cs: cs = conversation  OBVIOUS
<1>12. /\ cs \in Seq(Turns)
       /\ \A i, j \in 1 .. Len(cs): cs[i] = cs[j] => i = j
       /\ \A i \in 1 .. Len(cs): cs[i] <= provider.turn
  BY <1>11 DEF Tale, History
<1>13. PICK ds: ds = Append(cs, t)  OBVIOUS
<1>14. /\ ds \in Seq(Turns) /\ Len(ds) = Len(cs) + 1 /\ Len(cs) \in Nat
       /\ ds[Len(cs) + 1] = t /\ \A i \in 1 .. Len(cs): ds[i] = cs[i]
  BY <1>2, <1>12, <1>13
<1>15. conversation' = ds  BY <1>2, <1>11, <1>13
<1>16. LatestIsLast'  BY <1>2, <1>3, <1>14, <1>15 DEF LatestIsLast
<1>17. OneTurn'  BY <1>2, <1>3, <1>9, <1>10, <1>16 DEF OneTurn
<1>18. History'
  <2>1. \A i \in 1 .. Len(ds): i \in 1 .. Len(cs) \/ i = Len(cs) + 1  BY <1>14
  <2>2. \A i \in 1 .. Len(cs): cs[i] \in Nat
    BY <1>12, BoundsAssumption DEF Turns
  <2>3. \A i \in 1 .. Len(cs): ds[i] # t  BY <1>1, <1>2, <1>12, <1>14, <2>2
  <2>4. \A i, j \in 1 .. Len(ds): ds[i] = ds[j] => i = j
    BY <1>12, <1>14, <2>1, <2>3
  <2>5. \A i \in 1 .. Len(ds): ds[i] <= t
    BY <1>1, <1>2, <1>12, <1>14, <2>1, <2>2
  <2> QED  BY <1>2, <1>14, <1>15, <2>4, <2>5 DEF History
<1>19. OneCheckpoint'
  BY <1>2, <1>5 DEF OneCheckpoint, Capturing, HearsOfCheckpoints
<1>20. Len(cs) = Len(th.checkpoints)
  BY <1>2, <1>4, <1>5, <1>11 DEF Tale, Complete, Awaited, EndsTurn
<1>21. Matching'
  <2>1. \A i \in 1 .. Len(th.checkpoints):
          th.checkpoints[i].count = i /\ th.checkpoints[i].turn = ds[i]
    <3>1. \A i \in 1 .. Len(cs): i <= Len(cs)  BY <1>14
    <3> QED  BY <1>11, <1>14, <1>20, <3>1 DEF Tale, Matching
  <2> QED  BY <1>2, <1>15, <2>1 DEF Matching
<1>22. Complete'  BY <1>2, <1>14, <1>15, <1>20 DEF Complete, Awaited
<1>23. GoesBack'
  BY <1>2, <1>4 DEF GoesBack, Requested, Reverting
<1> QED  BY <1>17, <1>18, <1>19, <1>21, <1>22, <1>23 DEF Tale

LEMMA TaleEditFiles ==
  ASSUME Typed, Tale, EditFiles  PROVE Tale'
<1>1. PICK e: e = [type |-> "turn.diff.updated", turn |-> provider.turn]  OBVIOUS
<1>2. /\ e.type = "turn.diff.updated" /\ e.turn = provider.turn
      /\ e \in Reports \union Bounds
  BY <1>1, BoundsAssumption DEF EditFiles, Typed, WorldTyped, Reports, Turns
<1>3. Emit(e)  BY <1>1 DEF EditFiles
<1>4. ingest' = Append(ingest, e) /\ runtimeIn' = runtimeIn  BY <1>2, <1>3 DEF Emit
<1>5. /\ provider.running
      /\ UNCHANGED <<th, sent, provider, conversation, seen, domainIn, job>>
  BY DEF EditFiles, engine, reactor
<1>6. OfLatest(ingest', provider')
  <2>1. PICK q, r: q = ingest /\ r = Append(q, e)  OBVIOUS
  <2>2. q \in Seq(Reports \union Bounds) /\ OfLatest(q, provider)
    BY <2>1 DEF Typed, QueuesTyped, Tale, OneTurn
  <2>3. Appended(q, e, r)  BY <1>2, <2>1, <2>2, Appending
  <2>4. OfLatest(r, provider)  BY <1>2, <1>5, <2>2, <2>3, LatestAppended
  <2> QED  BY <1>4, <1>5, <2>1, <2>4
<1>7. SessionFollows'
  BY <1>5 DEF Tale, OneTurn, SessionFollows, EndInHand
<1>8. OneTurn'
  BY <1>4, <1>5, <1>6, <1>7 DEF Tale, OneTurn, UnderWay, LatestIsLast
<1>9. History' /\ OneCheckpoint'
  BY <1>5 DEF Tale, History, OneCheckpoint, Capturing
<1>10. Matching'  BY <1>5, MatchingStays DEF Tale
<1>11. Complete' /\ GoesBack'
  BY <1>4, <1>5 DEF Tale, Complete, Awaited, Reverting, GoesBack, Silence, Requested
<1> QED  BY <1>8, <1>9, <1>10, <1>11 DEF Tale

LEMMA TaleEndTurn ==
  ASSUME Typed, Tale, EndTurn  PROVE Tale'
<1>1. PICK st \in TurnEnd: Emit([type |-> "turn.completed", turn |-> provider.turn,
                                 state |-> st, at |-> clock'])
  BY DEF EndTurn
<1>2. PICK e: e = [type |-> "turn.completed", turn |-> provider.turn, state |-> st,
                   at |-> clock']  OBVIOUS
<1>3. /\ e \in Bounds /\ e.type = "turn.completed" /\ e.turn = provider.turn
      /\ provider'.turn = provider.turn /\ ~provider'.running
  <2>1. provider.turn \in Turns /\ clock' \in Nat
    BY BoundsAssumption DEF EndTurn, Typed, WorldTyped, Turns
  <2>2. e \in Bounds  BY <1>2, <2>1 DEF Bounds
  <2> QED  BY <1>2, <2>2 DEF EndTurn, Typed, WorldTyped
<1>4. Emit(e)  BY <1>1, <1>2
<1>5. ingest' = Append(ingest, e) /\ runtimeIn' = Append(runtimeIn, e)
  BY <1>3, <1>4 DEF Emit
<1>6. /\ provider.running
      /\ UNCHANGED <<th, sent, conversation, seen, domainIn, job>>
  BY DEF EndTurn, engine, reactor
<1>7. OfLatest(ingest', provider') /\ EndsTurn(ingest')
  <2>1. PICK q, r: q = ingest /\ r = Append(q, e)  OBVIOUS
  <2>2. q \in Seq(Reports \union Bounds) /\ OfLatest(q, provider)
    BY <2>1 DEF Typed, QueuesTyped, Tale, OneTurn
  <2>3. PICK o, p: o = provider' /\ p = provider  OBVIOUS
  <2>4. /\ OfLatest(q, p) /\ p.running /\ o.turn = e.turn
        /\ o.turn = p.turn /\ ~o.running /\ e.type = "turn.completed"
    BY <1>3, <1>6, <2>2, <2>3
  <2>5. Appended(q, e, r)  BY <1>3, <2>1, <2>2, Appending
  <2>6. OfLatest(r, o) /\ EndsTurn(r)  BY <2>4, <2>5, LatestAppended
  <2> QED  BY <1>5, <2>1, <2>3, <2>6
<1>8. OfLatest(runtimeIn', provider') /\ EndsTurn(runtimeIn')
  <2>1. PICK q, r: q = runtimeIn /\ r = Append(q, e)  OBVIOUS
  <2>2. q \in Seq(Bounds) /\ OfLatest(q, provider)
    BY <2>1 DEF Typed, QueuesTyped, Tale, OneTurn
  <2>3. PICK o, p: o = provider' /\ p = provider  OBVIOUS
  <2>4. /\ OfLatest(q, p) /\ p.running /\ o.turn = e.turn
        /\ o.turn = p.turn /\ ~o.running /\ e.type = "turn.completed"
    BY <1>3, <1>6, <2>2, <2>3
  <2>5. Appended(q, e, r)  BY <1>3, <2>1, <2>2, Appending
  <2>6. OfLatest(r, o) /\ EndsTurn(r)  BY <2>4, <2>5, LatestAppended
  <2> QED  BY <1>5, <2>1, <2>3, <2>6
<1>9. ~EndInHand  BY <1>6 DEF Tale, OneTurn, SessionFollows
<1>10. SessionFollows'
  BY <1>3, <1>6, <1>7, <1>9 DEF Tale, OneTurn, SessionFollows, EndInHand
<1>11. LatestIsLast'
  BY <1>3, <1>6 DEF Tale, OneTurn, UnderWay, LatestIsLast
<1>12. OneTurn'  BY <1>3, <1>6, <1>7, <1>8, <1>10, <1>11 DEF Tale, OneTurn
<1>13. History' /\ OneCheckpoint'
  BY <1>3, <1>6 DEF Tale, History, OneCheckpoint, Capturing
<1>14. Matching'  BY <1>6, MatchingStays DEF Tale
<1>15. Complete' /\ GoesBack'
  BY <1>6, <1>8 DEF Tale, Complete, Awaited, Reverting, GoesBack, Silence, Requested
<1> QED  BY <1>12, <1>13, <1>14, <1>15 DEF Tale

(* What the ingestion reads tells it the count of the turn in hand. *)
LEMMA TaleIngest ==
  ASSUME None \notin Seen, Typed, Tale, Ingest  PROVE Tale'
<1>1. PICK q: q = ingest  OBVIOUS
<1>2. /\ q \in Seq(Reports \union Bounds) /\ q # <<>> /\ OfLatest(q, provider)
      /\ seen = None /\ ingest' = Tail(q) /\ seen'.event = Head(q)
      /\ seen'.active = th.session.turn /\ seen'.checkpoints = th.checkpoints
      /\ UNCHANGED <<th, sent, provider, conversation, runtimeIn, domainIn, job>>
  BY <1>1 DEF Ingest, Typed, QueuesTyped, Tale, OneTurn, engine, world, reactor
<1>3. PICK r: r = Tail(q)  OBVIOUS
<1>4. /\ OfLatest(r, provider) /\ Head(q).turn = provider.turn
      /\ Head(q).type = "turn.completed" => r = <<>> /\ ~provider.running
      /\ EndsTurn(q) => EndsTurn(r) \/ (r = <<>> /\ Head(q).type = "turn.completed")
  <2>1. PICK p: p = provider  OBVIOUS
  <2>2. PICK U: U = Reports \union Bounds  OBVIOUS
  <2>3. q \in Seq(U) /\ q # <<>> /\ OfLatest(q, p)  BY <1>2, <2>1, <2>2
  <2>4. OfLatest(r, p)
    BY <1>3, <2>3, LatestTaken
  <2>5. Head(q).turn = p.turn
    BY <1>3, <2>3, LatestTaken
  <2>6. Head(q).type = "turn.completed" => r = <<>> /\ ~p.running
    BY <1>3, <2>3, LatestTaken
  <2>7. EndsTurn(q) => EndsTurn(r) \/ (r = <<>> /\ Head(q).type = "turn.completed")
    BY <1>3, <2>3, LatestTaken DEF EndsTurn
  <2> QED  BY <2>1, <2>4, <2>5, <2>6, <2>7
<1>5. seen' # None  BY StepIngest
<1>6. SessionFollows'
  BY <1>1, <1>2, <1>3, <1>4, <1>5 DEF Tale, OneTurn, SessionFollows, EndInHand
<1>7. LatestIsLast /\ ~Requested /\ ~Reverting
  BY <1>1, <1>2 DEF Tale, OneTurn, UnderWay, GoesBack, Silence
<1>8. OneTurn'  BY <1>2, <1>3, <1>4, <1>6, <1>7 DEF Tale, OneTurn, LatestIsLast
<1>9. PICK cs: cs = th.checkpoints  OBVIOUS
<1>10. /\ cs \in Seq(Checkpoint) /\ DOMAIN cs = 1 .. Len(cs) /\ Len(cs) \in Nat
       /\ \A i \in 1 .. Len(cs): cs[i].count = i
  <2>1. \A i \in 1 .. Len(cs): cs[i].count = i  BY <1>9 DEF Tale, Matching
  <2> QED  BY <1>9, <2>1, Listed
<1>11. \/ \E c \in ToSet(cs): c.turn = provider.turn
       \/ MaxCount(cs) + 1 = Len(conversation)
  <2>1. CASE Len(conversation) = Len(cs)
    <3>1. Len(cs) \in 1 .. Len(cs)
      BY <1>7, <1>10, <2>1 DEF LatestIsLast, Tale, History
    <3>2. cs[Len(cs)].turn = provider.turn
      BY <1>7, <1>9, <1>10, <2>1, <3>1 DEF LatestIsLast, Tale, Matching
    <3> QED  BY <1>10, <3>1, <3>2 DEF ToSet
  <2>2. CASE Len(conversation) = Len(cs) + 1
    <3>1. MaxCount(cs) = Len(cs)  BY <1>10, HighestIsLast
    <3> QED  BY <2>2, <3>1
  <2> QED  BY <1>7, <1>9, <2>1, <2>2 DEF Tale, Complete
<1>12. OneCheckpoint'
  BY <1>2, <1>9, <1>11 DEF Tale, OneCheckpoint, Capturing
<1>13. History'  BY <1>2 DEF Tale, History
<1>14. Matching'  BY <1>2, MatchingStays DEF Tale
<1>15. Complete' /\ GoesBack'
  BY <1>2, <1>7 DEF Tale, Complete, Awaited, Capturing, Reverting, GoesBack, Requested
<1> QED  BY <1>8, <1>12, <1>13, <1>14, <1>15 DEF Tale

(* The checkpoint of the last turn is recorded once. *)
LEMMA CapturedIsLast ==
  ASSUME Typed, Matching, History, LatestIsLast, NEW cs, cs = th.checkpoints,
         Len(conversation) \in {Len(cs), Len(cs) + 1},
         NEW c \in ToSet(cs), c.turn = provider.turn
  PROVE  c.count = Len(conversation) /\ Len(conversation) = Len(cs)
         /\ cs # <<>> /\ cs[Len(cs)] = c
<1>1. /\ cs \in Seq(Checkpoint) /\ DOMAIN cs = 1 .. Len(cs) /\ Len(cs) \in Nat
  BY Listed
<1>2. PICK i \in 1 .. Len(cs): c = cs[i]  BY <1>1 DEF ToSet
<1>3. PICK q: q = conversation  OBVIOUS
<1>4. /\ q \in Seq(Turns) /\ q # <<>> /\ q[Len(q)] = provider.turn /\ Len(q) \in Nat \ {0}
      /\ \A j, k \in 1 .. Len(q): q[j] = q[k] => j = k
  <2>1. q \in Seq(Turns) /\ q # <<>> /\ q[Len(q)] = provider.turn
    BY <1>3 DEF History, LatestIsLast
  <2>2. \A j, k \in 1 .. Len(q): q[j] = q[k] => j = k  BY <1>3 DEF History
  <2> QED  BY <2>1, <2>2
<1>5. i \in 1 .. Len(q) /\ Len(q) \in 1 .. Len(q)  BY <1>1, <1>2, <1>3, <1>4
<1>6. c.count = i /\ c.turn = q[i]  BY <1>2, <1>3, <1>5 DEF Matching
<1>7. i = Len(q)  BY <1>4, <1>5, <1>6
<1> QED  BY <1>1, <1>2, <1>3, <1>6, <1>7

LEMMA LastIsRecorded ==
  ASSUME MaxTurns <= MaxCheckpoints, Typed, Matching, History, LatestIsLast,
         Len(conversation) \in {Len(th.checkpoints), Len(th.checkpoints) + 1},
         NEW e \in Diffs, Recorded(e), e.turn = provider.turn,
         e.count = Len(conversation), conversation' = conversation
  PROVE  /\ Matching' /\ Len(th'.checkpoints) = Len(conversation)
         /\ e.ref = e.count /\ RefsAreCounts => RefsAreCounts'
<1>1. PICK cs: cs = th.checkpoints  OBVIOUS
<1>2. /\ cs \in Seq(Checkpoint) /\ DOMAIN cs = 1 .. Len(cs) /\ Len(cs) \in Nat
      /\ \A i, j \in 1 .. Len(cs): cs[i].turn = cs[j].turn => i = j
  BY <1>1, Listed
<1>3. Len(conversation) \in {Len(cs), Len(cs) + 1}  BY <1>1
<1>4. \A c \in ToSet(cs): c.turn = e.turn =>
        /\ c.count = Len(conversation) /\ Len(conversation) = Len(cs)
        /\ cs # <<>> /\ cs[Len(cs)] = c
  BY <1>1, <1>3, CapturedIsLast
<1>5. CASE e.status = "missing" /\ Captured(cs, e.turn)
  <2>1. th'.checkpoints = th.checkpoints  BY <1>1, <1>5 DEF Recorded
  <2>2. Len(conversation) = Len(cs)  BY <1>4, <1>5 DEF Captured
  <2> QED  BY <1>1, <2>1, <2>2, MatchingStays DEF RefsAreCounts
<1>6. CASE ~ (e.status = "missing" /\ Captured(cs, e.turn))
  <2>1. PICK x: x = Point(e)  OBVIOUS
  <2>2. x \in Checkpoint /\ x.turn = e.turn /\ x.count = e.count /\ x.ref = e.ref
    BY <2>1 DEF Point, Diffs, Checkpoint
  <2>3. PICK us: us = UpsertCheckpoint(cs, x)  OBVIOUS
  <2>4. /\ us \in Seq(Checkpoint)
        /\ \A i, j \in 1 .. Len(us): us[i].turn = us[j].turn => i = j
    BY <1>2, <2>2, <2>3, Upserting
  <2>5. th'.checkpoints = us
    <3>1. th'.checkpoints = KeepLast(us, MaxCheckpoints)
      BY <1>1, <1>6, <2>1, <2>3 DEF Recorded
    <3>2. Len(us) <= MaxTurns  BY <2>4, FewCheckpoints
    <3>3. Len(us) <= MaxCheckpoints  BY <2>4, <3>2, BoundsAssumption
    <3> QED  BY <2>4, <3>1, <3>3, BoundsAssumption, KeepLastTyped
  <2>6. PICK n \in Nat: n = Len(conversation)  BY <1>2, <1>3
  <2>7. /\ n # 0 /\ conversation[n] = e.turn /\ x.count = n
        /\ \A i \in 1 .. Len(cs): cs[i].count = i /\ (i <= n => cs[i].turn = conversation[i])
    <3>1. conversation \in Seq(Turns) /\ conversation # <<>>
      BY DEF History, LatestIsLast
    <3>2. n # 0  BY <2>6, <3>1
    <3> QED  BY <1>1, <2>2, <2>6, <3>2 DEF LatestIsLast, Matching
  <2>8. /\ Len(us) = n /\ us[n] = x /\ \A i \in 1 .. n - 1: us[i] = cs[i]
        /\ n - 1 <= Len(cs)
    <3>1. CASE n = Len(cs) + 1
      <4>1. \A i \in 1 .. Len(cs): cs[i].turn # x.turn /\ cs[i].count <= x.count
        <5>1. \A i \in 1 .. Len(cs): cs[i].turn # e.turn
          <6>1. \A i \in 1 .. Len(cs): cs[i] \in ToSet(cs)  BY <1>2 DEF ToSet
          <6>2. PICK m \in Nat: m = Len(cs)  BY <1>2
          <6>3. Len(conversation) # Len(cs)
            <7>1. n = m + 1  BY <3>1, <6>2
            <7>2. n # m  BY <7>1
            <7> QED  BY <2>6, <6>2, <7>2
          <6> QED  BY <1>4, <6>1, <6>3
        <5>2. \A i \in 1 .. Len(cs): cs[i].count <= n  BY <2>7, <3>1, <1>2
        <5> QED  BY <2>2, <2>7, <5>1, <5>2
      <4>2. \A c \in ToSet(cs): c.turn # x.turn /\ c.count <= x.count
        BY <1>2, <4>1 DEF ToSet
      <4>3. us = Append(cs, x)  BY <1>2, <2>2, <2>3, <4>2, UpsertingLast
      <4>4. /\ Len(us) = Len(cs) + 1 /\ us[Len(cs) + 1] = x
            /\ \A i \in 1 .. Len(cs): us[i] = cs[i]
        BY <1>2, <2>2, <4>3
      <4> QED  BY <1>2, <3>1, <4>4
    <3>2. CASE n = Len(cs)
      <4>1. n \in 1 .. Len(cs) /\ cs # <<>>  BY <1>2, <2>7, <3>2
      <4>2. cs[n].turn = x.turn  BY <2>2, <2>7, <4>1
      <4>3. \A i \in 1 .. n - 1: i \in 1 .. Len(cs) /\ i # n /\ i <= n
        BY <3>2
      <4>4. \A i \in 1 .. n - 1: cs[i].turn # x.turn /\ cs[i].count <= x.count
        BY <1>2, <2>7, <4>1, <4>2, <4>3
      <4>5. us = Append(SubSeq(cs, 1, Len(cs) - 1), x)
        BY <1>2, <2>2, <2>3, <3>2, <4>1, <4>2, <4>4, UpsertingAgain
      <4>6. PICK s: s = SubSeq(cs, 1, n - 1)  OBVIOUS
      <4>7. /\ s \in Seq(Checkpoint) /\ Len(s) = n - 1
            /\ \A i \in 1 .. n - 1: s[i] = cs[i]
        BY <1>2, <3>2, <4>1, <4>6
      <4>8. us = Append(s, x)  BY <3>2, <4>5, <4>6
      <4>9. Len(us) = n - 1 + 1 /\ us[n - 1 + 1] = x /\ \A i \in 1 .. n - 1: us[i] = s[i]
        BY <2>2, <4>7, <4>8
      <4>10. n - 1 + 1 = n  OBVIOUS
      <4> QED  BY <3>2, <4>7, <4>9, <4>10
    <3> QED  BY <1>3, <2>6, <3>1, <3>2
  <2>9. \A i \in 1 .. n: us[i].count = i /\ us[i].turn = conversation[i]
    <3>1. \A i \in 1 .. n: i = n \/ i \in 1 .. n - 1  OBVIOUS
    <3>2. \A i \in 1 .. n - 1: i \in 1 .. Len(cs) /\ i <= n  BY <1>2, <2>8
    <3> QED  BY <2>2, <2>7, <2>8, <3>1, <3>2
  <2>10. e.ref = e.count /\ RefsAreCounts => RefsAreCounts'
    <3>1. SUFFICES ASSUME e.ref = e.count, RefsAreCounts PROVE RefsAreCounts'  OBVIOUS
    <3>2. \A i \in 1 .. Len(cs): cs[i].ref = i  BY <1>1, <3>1 DEF RefsAreCounts
    <3>3. \A i \in 1 .. n: i = n \/ i \in 1 .. n - 1  OBVIOUS
    <3>4. \A i \in 1 .. n - 1: i \in 1 .. Len(cs)  BY <1>2, <2>8
    <3>5. \A i \in 1 .. n: us[i].ref = i  BY <2>2, <2>7, <2>8, <3>1, <3>2, <3>3, <3>4
    <3> QED  BY <2>5, <2>8, <3>5 DEF RefsAreCounts
  <2> QED  BY <2>5, <2>6, <2>8, <2>9, <2>10 DEF Matching
<1> QED  BY <1>5, <1>6

(* What the ingestion makes of an event of the latest turn keeps the story. *)
LEMMA TaleIngestDispatch ==
  ASSUME MaxTurns <= MaxCheckpoints, Typed, Tale, IngestDispatch, failures' = failures
  PROVE  Tale'
<1>1. /\ seen # None /\ seen' = None
      /\ UNCHANGED <<sent, provider, conversation, ingest, runtimeIn, job>>
  BY DEF IngestDispatch, world, reactor
<1>2. UnderWay /\ LatestIsLast /\ ~Requested /\ ~Reverting
  BY <1>1 DEF UnderWay, Tale, OneTurn, GoesBack, Silence
<1>3. /\ seen.event.turn = provider.turn /\ AppliesLifecycle
      /\ th.session.turn \in {None, provider.turn}
  BY <1>1 DEF Tale, OneTurn, SessionFollows, AppliesLifecycle
<1>4. History'  BY <1>1 DEF Tale, History
<1>5. CASE Still /\ domainIn' = domainIn /\ SessionHears
  <2>1. /\ EndInHand => th'.session.turn = None
        /\ th'.session.turn \in {None, provider.turn}
    BY <1>1, <1>3, <1>5 DEF SessionHears, EndInHand
  <2>2. SessionFollows'
    BY <1>1, <2>1 DEF Tale, OneTurn, SessionFollows, EndInHand
  <2>3. OneTurn'  BY <1>1, <1>2, <2>2 DEF Tale, OneTurn, LatestIsLast
  <2>4. OneCheckpoint'  BY <1>1, <1>5 DEF Tale, OneCheckpoint, Capturing
  <2>5. Matching'  BY <1>1, <1>5, MatchingStays DEF Tale, Still
  <2>6. Complete' /\ GoesBack'
    BY <1>1, <1>2, <1>5
    DEF Tale, Complete, Awaited, Capturing, Reverting, GoesBack, Requested, Still
  <2> QED  BY <1>4, <2>3, <2>4, <2>5, <2>6 DEF Tale
<1>6. ASSUME NEW e \in Diffs, Places(e), Recorded(e), th'.session = th.session
      PROVE  Tale'
  <2>1. /\ e.turn = provider.turn /\ e.count = Len(conversation) /\ ~EndInHand
        /\ e.type = "thread.turn-diff-completed"
    BY <1>1, <1>3, <1>6 DEF Places, Tale, OneCheckpoint, EndInHand, Diffs
  <2>2. Len(conversation) \in {Len(th.checkpoints), Len(th.checkpoints) + 1}
    BY <1>2 DEF Tale, Complete
  <2>3. Matching' /\ Len(th'.checkpoints) = Len(conversation)
    BY <1>1, <1>2, <1>6, <2>1, <2>2, LastIsRecorded DEF Tale
  <2>4. SessionFollows'
    BY <1>1, <1>3, <1>6, <2>1 DEF Tale, OneTurn, SessionFollows, EndInHand
  <2>5. OneTurn'  BY <1>1, <1>2, <2>4 DEF Tale, OneTurn, LatestIsLast
  <2>6. ToSet(domainIn') = ToSet(domainIn) \union {e}
    <3>1. PICK q, r: q = domainIn /\ r = domainIn'  OBVIOUS
    <3>2. q \in Seq(Queued) /\ e \in Queued /\ r = Append(q, e)
      BY <1>6, <3>1 DEF Recorded, Typed, QueuesTyped, Queued
    <3> QED  BY <3>1, <3>2, SetOfAppend
  <2>7. OneCheckpoint'  BY <1>1, <2>1, <2>6 DEF Tale, OneCheckpoint, Capturing
  <2>8. Complete' /\ GoesBack'
    BY <1>1, <1>2, <2>1, <2>3, <2>6 DEF Complete, GoesBack, Requested, Reverting
  <2> QED  BY <1>4, <2>3, <2>5, <2>7, <2>8 DEF Tale
<1>7. \/ Still /\ domainIn' = domainIn /\ SessionHears
      \/ \E e \in Diffs: Places(e) /\ Recorded(e) /\ th'.session = th.session
  BY <1>3, StepIngestDispatch
<1> QED  BY <1>5, <1>6, <1>7

(* A step of the reactor that takes a job from an event of the latest turn. *)
LEMMA TaleTakeDomain ==
  ASSUME Typed, Tale, TakeDomain  PROVE Tale'
<1>1. PICK q, e, r: q = domainIn /\ e = Head(q) /\ r = Tail(q)  OBVIOUS
<1>2. /\ q \in Seq(Queued) /\ q # <<>> /\ domainIn' = r /\ Idle
      /\ UNCHANGED <<th, sent, provider, conversation, ingest, seen, runtimeIn>>
  BY <1>1 DEF TakeDomain, Typed, QueuesTyped, engine, world
<1>3. /\ e \in Queued /\ e \in ToSet(q) /\ ToSet(r) \subseteq ToSet(q)
      /\ Len(q) = 1 => r = <<>> /\ ToSet(r) = {}
  BY <1>1, <1>2, SetOfTail
<1>4. ~Capturing /\ ~Reverting  BY <1>2 DEF Idle, Capturing, Reverting
<1>5. History' /\ Matching'
  BY <1>2, MatchingStays DEF Tale, History
<1>6. ~Requested'
  BY <1>1, <1>2, <1>3 DEF Requested, Tale, GoesBack
<1>7. HearsOfCheckpoints' => HearsOfCheckpoints
  BY <1>1, <1>2, <1>3 DEF HearsOfCheckpoints
<1>8. ASSUME job'.step \in {"idle", "baseline"}  PROVE Tale'
  <2>1. ~Capturing' /\ ~Reverting'  BY <1>8 DEF Capturing, Reverting
  <2>2. OneTurn'
    BY <1>2, <1>4, <1>7, <2>1 DEF Tale, OneTurn, SessionFollows, EndInHand, LatestIsLast, UnderWay
  <2>3. OneCheckpoint'  BY <1>1, <1>2, <1>3, <2>1 DEF Tale, OneCheckpoint
  <2>4. Complete' /\ GoesBack'
    BY <1>2, <1>4, <1>6, <2>1 DEF Tale, Complete, Awaited, GoesBack
  <2> QED  BY <1>5, <2>2, <2>3, <2>4 DEF Tale
<1>9. CASE e \in Starts
  <2>1. e.type = "thread.turn-start-requested"  BY <1>9 DEF Starts
  <2>2. EnsureBaseline  BY <1>1, <2>1 DEF TakeDomain
  <2> QED  BY <1>8, <2>2, BaselineTyped
<1>10. CASE e \in Diffs
  <2>1. e.type = "thread.turn-diff-completed"  BY <1>10 DEF Diffs
  <2>2. CapturePlaceholder(e)  BY <1>1, <2>1 DEF TakeDomain
  <2>3. CASE job' = NoJob  BY <1>8, <2>3 DEF NoJob
  <2>4. CASE job' = CaptureJob(e.turn, e.count, "ready")
    <3>1. job'.step = "capture" /\ job'.turn = e.turn /\ job'.count = e.count
      BY <2>4 DEF CaptureJob, NoJob
    <3>2. e.turn = provider.turn /\ e.count = Len(conversation) /\ HearsOfCheckpoints
      BY <1>1, <1>3, <2>1 DEF Tale, OneCheckpoint, HearsOfCheckpoints
    <3>3. ~Reverting' /\ Capturing'  BY <3>1 DEF Capturing, Reverting
    <3>4. OneTurn'
      BY <1>2, <3>2 DEF Tale, OneTurn, SessionFollows, EndInHand, LatestIsLast, UnderWay
    <3>5. OneCheckpoint'  BY <1>1, <1>2, <1>3, <3>1, <3>2 DEF Tale, OneCheckpoint
    <3>6. Complete' /\ GoesBack'
      BY <1>2, <1>4, <1>6, <3>3 DEF Tale, Complete, Awaited, GoesBack
    <3> QED  BY <1>5, <3>4, <3>5, <3>6 DEF Tale
  <2> QED  BY <2>2, <2>3, <2>4 DEF CapturePlaceholder
<1>11. CASE e \in Requests
  <2>1. e.type = "thread.checkpoint-revert-requested" /\ e.count \in Nat
    BY <1>11 DEF Requests
  <2>2. PICK n: n = e.count  OBVIOUS
  <2>3. n \in Nat /\ BeginRevert(n)  BY <1>1, <2>1, <2>2 DEF TakeDomain
  <2>4. CASE job' = NoJob  BY <1>8, <2>4 DEF NoJob
  <2>5. CASE /\ job'.step = "restore" /\ job'.count = n
             /\ n <= MaxCount(th.checkpoints)
             /\ job'.current = MaxCount(th.checkpoints)
    <3>1. Silence /\ domainIn' = <<>>
      BY <1>1, <1>2, <1>3, <2>1 DEF Tale, GoesBack, Requested
    <3>2. ~Capturing' /\ ~HearsOfCheckpoints'
      BY <1>2, <2>5, <1>3, <1>1, <2>1 DEF Capturing, HearsOfCheckpoints, Tale, GoesBack, Requested
    <3>3. OneTurn'
      BY <1>2, <3>1, <3>2
      DEF Tale, OneTurn, SessionFollows, EndInHand, LatestIsLast, UnderWay, Silence
    <3>4. OneCheckpoint'  BY <1>1, <1>2, <1>3, <3>2 DEF Tale, OneCheckpoint
    <3>5. MaxCount(th.checkpoints) = Len(th.checkpoints)
      <4>1. PICK cs: cs = th.checkpoints  OBVIOUS
      <4>2. cs \in Seq(Checkpoint)  BY <4>1, Listed
      <4>3. \A i \in 1 .. Len(cs): cs[i].count = i  BY <4>1 DEF Tale, Matching
      <4> QED  BY <4>1, <4>2, <4>3, HighestIsLast
    <3>6. Len(conversation) = Len(th.checkpoints)
      BY <1>4, <3>1 DEF Tale, Complete, Awaited, Silence, EndsTurn
    <3>7. GoesBack'
      BY <1>2, <1>6, <2>5, <3>1, <3>5, <3>6 DEF GoesBack, Silence
    <3>8. Reverting'  BY <2>5 DEF Reverting
    <3> QED  BY <1>5, <3>3, <3>4, <3>7, <3>8 DEF Tale
  <2> QED  BY <2>3, <2>4, <2>5, RevertTyped
<1> QED  BY <1>3, <1>9, <1>10, <1>11 DEF Queued

LEMMA TaleTakeRuntime ==
  ASSUME Typed, Tale, TakeRuntime  PROVE Tale'
<1>1. PICK q, e, r: q = runtimeIn /\ e = Head(q) /\ r = Tail(q)  OBVIOUS
<1>2. /\ q \in Seq(Bounds) /\ q # <<>> /\ runtimeIn' = r /\ Idle /\ OfLatest(q, provider)
      /\ UNCHANGED <<th, sent, provider, conversation, ingest, seen, domainIn>>
  BY <1>1 DEF TakeRuntime, Typed, QueuesTyped, engine, world, Tale, OneTurn
<1>3. /\ OfLatest(r, provider) /\ e \in Bounds /\ e.turn = provider.turn
      /\ e.type = "turn.completed" => r = <<>> /\ ~provider.running
      /\ EndsTurn(q) => EndsTurn(r) \/ (r = <<>> /\ e.type = "turn.completed")
  <2>1. PICK p: p = provider  OBVIOUS
  <2>2. OfLatest(q, p)  BY <1>2, <2>1
  <2>3. OfLatest(r, p)  BY <1>1, <1>2, <2>2, LatestTaken
  <2>4. e \in Bounds /\ e.turn = p.turn  BY <1>1, <1>2, <2>2, LatestTaken
  <2>5. e.type = "turn.completed" => r = <<>> /\ ~p.running
    BY <1>1, <1>2, <2>2, LatestTaken
  <2>6. EndsTurn(q) => EndsTurn(r) \/ (r = <<>> /\ e.type = "turn.completed")
    BY <1>1, <1>2, <2>2, LatestTaken DEF EndsTurn
  <2> QED  BY <2>1, <2>3, <2>4, <2>5, <2>6
<1>4. ~Capturing /\ ~Reverting /\ ~Requested /\ LatestIsLast
  BY <1>1, <1>2
  DEF Idle, Capturing, Reverting, Tale, OneTurn, UnderWay, GoesBack, Silence
<1>5. History' /\ Matching'
  BY <1>2, MatchingStays DEF Tale, History
<1>6. OneTurn'
  <2>1. SessionFollows'  BY <1>2 DEF Tale, OneTurn, SessionFollows, EndInHand
  <2> QED  BY <1>2, <1>3, <1>4, <2>1 DEF Tale, OneTurn, LatestIsLast
<1>7. CASE e.type = "turn.started"
  <2>1. EnsureBaseline  BY <1>1, <1>7 DEF TakeRuntime
  <2>2. ~Capturing' /\ ~Reverting'  BY <2>1, BaselineTyped DEF Capturing, Reverting
  <2>3. OneCheckpoint'  BY <1>2, <2>2 DEF Tale, OneCheckpoint
  <2>4. EndsTurn(q) => EndsTurn(r)  BY <1>3, <1>7
  <2>5. Complete'  BY <1>1, <1>2, <1>4, <2>4 DEF Tale, Complete, Awaited
  <2>6. GoesBack'  BY <1>2, <1>4, <2>2 DEF GoesBack, Requested
  <2> QED  BY <1>5, <1>6, <2>3, <2>5, <2>6 DEF Tale
<1>8. CASE e.type = "turn.completed"
  <2>1. CaptureCompletion(e)  BY <1>1, <1>8 DEF TakeRuntime
  <2>2. PICK cs: cs = th.checkpoints  OBVIOUS
  <2>3. Len(conversation) \in {Len(cs), Len(cs) + 1}
    BY <1>4, <2>2 DEF Tale, Complete
  <2>4. \A c \in ToSet(cs): c.turn = provider.turn =>
          c.count = Len(conversation) /\ Len(conversation) = Len(cs)
    BY <1>4, <2>2, <2>3, CapturedIsLast DEF Tale
  <2>5. CASE job' = NoJob
    <3>1. ~Capturing' /\ ~Reverting'  BY <2>5 DEF Capturing, Reverting, NoJob
    <3>2. Captured(cs, e.turn)
      <4>1. ~ (th.session.turn # None /\ th.session.turn # e.turn)
        BY <1>3 DEF Tale, OneTurn, SessionFollows
      <4>2. \A n: CaptureJob(e.turn, n, StatusFromRuntime(e.state)) # NoJob
        <5>1. ASSUME NEW n PROVE CaptureJob(e.turn, n, StatusFromRuntime(e.state)) # NoJob
          <6>1. PICK j: j = CaptureJob(e.turn, n, StatusFromRuntime(e.state))  OBVIOUS
          <6>2. j.step = "capture"  BY <6>1 DEF CaptureJob, NoJob
          <6> QED  BY <6>1, <6>2 DEF NoJob
        <5> QED  BY <5>1
      <4> QED  BY <2>1, <2>2, <2>5, <4>1, <4>2 DEF CaptureCompletion
    <3>3. Len(conversation) = Len(cs)  BY <1>3, <2>4, <3>2 DEF Captured
    <3>4. Complete'  BY <1>2, <2>2, <3>3 DEF Complete
    <3>5. OneCheckpoint'  BY <1>2, <3>1 DEF Tale, OneCheckpoint
    <3>6. GoesBack'  BY <1>2, <1>4, <3>1 DEF GoesBack, Requested
    <3> QED  BY <1>5, <1>6, <3>4, <3>5, <3>6 DEF Tale
  <2>6. ASSUME NEW n \in Nat \ {0}, NEW st \in Statuses, job' = CaptureJob(e.turn, n, st),
               \/ \E c \in ToSet(cs): c.turn = e.turn /\ c.count = n
               \/ /\ ~ \E c \in ToSet(cs): c.turn = e.turn
                  /\ n = MaxCount(cs) + 1
        PROVE  Tale'
    <3>1. job'.step = "capture" /\ job'.turn = provider.turn /\ job'.count = n
      BY <1>3, <2>6 DEF CaptureJob, NoJob
    <3>2. Capturing' /\ ~Reverting'  BY <3>1 DEF Capturing, Reverting
    <3>3. n = Len(conversation)
      <4>1. CASE \E c \in ToSet(cs): c.turn = e.turn /\ c.count = n
        BY <1>3, <2>4, <4>1
      <4>2. CASE /\ ~ \E c \in ToSet(cs): c.turn = e.turn
                 /\ n = MaxCount(cs) + 1
        <5>1. /\ cs \in Seq(Checkpoint) /\ DOMAIN cs = 1 .. Len(cs) /\ Len(cs) \in Nat
          BY <2>2, Listed
        <5>2. MaxCount(cs) = Len(cs)
          <6>1. \A i \in 1 .. Len(cs): cs[i].count = i  BY <2>2 DEF Tale, Matching
          <6> QED  BY <5>1, <6>1, HighestIsLast
        <5>3. Len(conversation) # Len(cs)
          <6>1. SUFFICES ASSUME Len(conversation) = Len(cs) PROVE FALSE  OBVIOUS
          <6>2. Len(cs) \in 1 .. Len(cs)
            BY <1>4, <5>1, <6>1 DEF LatestIsLast, Tale, History
          <6>3. cs[Len(cs)].turn = provider.turn /\ cs[Len(cs)] \in ToSet(cs)
            BY <1>4, <2>2, <5>1, <6>1, <6>2 DEF LatestIsLast, Tale, Matching, ToSet
          <6> QED  BY <1>3, <4>2, <6>3
        <5> QED  BY <2>3, <4>2, <5>2, <5>3
      <4> QED  BY <2>6, <4>1, <4>2
    <3>4. OneCheckpoint'  BY <1>2, <3>1, <3>3 DEF Tale, OneCheckpoint
    <3>5. Complete'  BY <1>2, <2>2, <2>3, <3>2 DEF Complete, Awaited
    <3>6. GoesBack'  BY <1>2, <1>4, <3>2 DEF GoesBack, Requested
    <3> QED  BY <1>5, <1>6, <3>2, <3>4, <3>5, <3>6 DEF Tale
  <2> QED  BY <1>3, <1>8, <2>1, <2>2, <2>5, <2>6, CompletionJob
<1> QED  BY <1>3, <1>7, <1>8 DEF Bounds

LEMMA TaleCaptures ==
  ASSUME Typed, Tale, CaptureBaseline \/ CaptureRef  PROVE Tale'
<1>1. UNCHANGED <<th, sent, provider, conversation, ingest, seen, runtimeIn, domainIn>>
  BY DEF CaptureBaseline, CaptureRef, Outside, engine, world
<1>2. /\ ~Reverting /\ ~Reverting' /\ Capturing' = Capturing
      /\ Capturing' => job'.turn = job.turn /\ job'.count = job.count
      /\ ~Requested
  <2>1. job.step \in {"baseline", "capture"}  BY DEF CaptureBaseline, CaptureRef
  <2>2. ~Requested  BY <2>1 DEF Tale, GoesBack, NoJob
  <2>3. CASE CaptureBaseline
    BY <2>2, <2>3 DEF CaptureBaseline, NoJob, Capturing, Reverting
  <2>4. CASE CaptureRef
    <3>1. PICK s: s = "record"  OBVIOUS
    <3>2. /\ s \in {"record", "rollback", "delete", "complete"} /\ Capturing
          /\ job' = [job EXCEPT !.step = s]
      BY <2>4, <3>1 DEF CaptureRef, Capturing
    <3>3. job'.step = "record" /\ job'.turn = job.turn /\ job'.count = job.count
      BY <3>1, <3>2, JobAdvances
    <3> QED  BY <2>1, <2>2, <3>2, <3>3 DEF Capturing, Reverting
  <2> QED  BY <2>3, <2>4
<1>3. OneTurn'  BY <1>1, <1>2, OneTurnStays DEF Tale, UnderWay, HearsOfCheckpoints
<1>4. History' /\ OneCheckpoint'  BY <1>1, <1>2 DEF Tale, History, OneCheckpoint
<1>5. Matching'  BY <1>1, MatchingStays DEF Tale
<1>6. Complete' /\ GoesBack'
  BY <1>1, <1>2 DEF Tale, Complete, Awaited, GoesBack, Requested
<1> QED  BY <1>3, <1>4, <1>5, <1>6 DEF Tale

LEMMA TaleRecordCheckpoint ==
  ASSUME MaxTurns <= MaxCheckpoints, Typed, Tale, RecordCheckpoint  PROVE Tale'
<1>1. /\ job.step = "record" /\ job' = NoJob
      /\ UNCHANGED <<sent, provider, conversation, ingest, seen, runtimeIn>>
  BY DEF RecordCheckpoint, Outside, world
<1>2. PICK e: e = Recording  OBVIOUS
<1>3. /\ e \in Diffs /\ e.turn = job.turn /\ e.count = job.count
      /\ Recorded(e) /\ th'.session = th.session
      /\ e.type = "thread.turn-diff-completed"
  BY <1>1, <1>2, RecordingTyped, StepRecordCheckpoint DEF Diffs
<1>4. Capturing /\ ~Reverting /\ ~Reverting' /\ ~Capturing' /\ ~Requested
  BY <1>1 DEF Capturing, Reverting, NoJob, Tale, GoesBack
<1>5. /\ LatestIsLast /\ e.turn = provider.turn /\ e.count = Len(conversation)
      /\ Len(conversation) \in {Len(th.checkpoints), Len(th.checkpoints) + 1}
  BY <1>3, <1>4 DEF Tale, OneTurn, UnderWay, OneCheckpoint, Complete
<1>6. Matching' /\ Len(th'.checkpoints) = Len(conversation)
  BY <1>1, <1>3, <1>5, LastIsRecorded DEF Tale
<1>7. OneTurn'
  <2>1. SessionFollows'  BY <1>1, <1>3 DEF Tale, OneTurn, SessionFollows, EndInHand
  <2> QED  BY <1>1, <1>5, <2>1 DEF Tale, OneTurn, LatestIsLast
<1>8. ToSet(domainIn') = ToSet(domainIn) \union {e}
  <2>1. PICK q, r: q = domainIn /\ r = domainIn'  OBVIOUS
  <2>2. q \in Seq(Queued) /\ e \in Queued /\ r = Append(q, e)
    BY <1>3, <2>1 DEF Recorded, Typed, QueuesTyped, Queued
  <2> QED  BY <2>1, <2>2, SetOfAppend
<1>9. History' /\ OneCheckpoint'
  BY <1>1, <1>3, <1>4, <1>5, <1>8 DEF Tale, History, OneCheckpoint
<1>10. Complete' /\ GoesBack'
  BY <1>1, <1>3, <1>4, <1>6, <1>8 DEF Complete, GoesBack, Requested
<1> QED  BY <1>6, <1>7, <1>9, <1>10 DEF Tale

LEMMA TaleRestoreFiles ==
  ASSUME Typed, Tale, RestoreFiles  PROVE Tale'
<1>1. /\ job.step = "restore"
      /\ UNCHANGED <<th, sent, provider, conversation, ingest, seen, runtimeIn, domainIn>>
      /\ job' = NoJob \/ job' = [job EXCEPT !.step = "rollback"]
  BY DEF RestoreFiles, engine
<1>2. /\ Reverting /\ Silence /\ domainIn = <<>> /\ ~Capturing
      /\ job.current = Len(th.checkpoints) /\ job.count <= Len(th.checkpoints)
      /\ Len(conversation) = Len(th.checkpoints)
  BY <1>1 DEF Reverting, Capturing, Tale, GoesBack
<1>3. \/ job' = NoJob
      \/ /\ job'.step = "rollback" /\ job'.count = job.count
         /\ job'.current = job.current
  <2>1. CASE job' = [job EXCEPT !.step = "rollback"]
    <3>1. PICK s: s = "rollback"  OBVIOUS
    <3>2. /\ s \in {"record", "rollback", "delete", "complete"} /\ s # "record"
          /\ job' = [job EXCEPT !.step = s]
      BY <2>1, <3>1
    <3> QED  BY <3>1, <3>2, JobAdvances
  <2> QED  BY <1>1, <2>1
<1>4. ~Capturing' /\ ~HearsOfCheckpoints' /\ ~Requested'
  <2>1. ToSet(domainIn) = {}  BY <1>2 DEF ToSet
  <2> QED  BY <1>1, <1>3, <2>1 DEF Capturing, NoJob, HearsOfCheckpoints, Requested
<1>5. OneTurn'
  BY <1>1, <1>2, <1>4, OneTurnStays DEF Tale, UnderWay, Silence
<1>6. History' /\ OneCheckpoint'  BY <1>1, <1>4 DEF Tale, History, OneCheckpoint
<1>7. Matching'  BY <1>1, MatchingStays DEF Tale
<1>8. Complete' /\ GoesBack'
  BY <1>1, <1>2, <1>3, <1>4 DEF Complete, GoesBack, Silence, Reverting, NoJob
<1> QED  BY <1>5, <1>6, <1>7, <1>8 DEF Tale

(* The provider forgets the turns of the checkpoints that are to go. *)
LEMMA TaleRollback ==
  ASSUME Typed, Tale, RollbackConversation  PROVE Tale'
<1>1. /\ job.step = "rollback" /\ job' = [job EXCEPT !.step = "delete"]
      /\ UNCHANGED <<th, sent, provider, ingest, seen, runtimeIn, domainIn>>
  BY DEF RollbackConversation, engine
<1>2. /\ Reverting /\ Silence /\ domainIn = <<>>
      /\ job.current = Len(th.checkpoints) /\ job.count <= Len(th.checkpoints)
      /\ Len(conversation) = Len(th.checkpoints) /\ job.count \in Nat
  BY <1>1 DEF Reverting, Tale, GoesBack, Typed, JobTyped, Job
<1>3. job'.step = "delete" /\ job'.count = job.count /\ job'.current = job.current
  <2>1. PICK s: s = "delete"  OBVIOUS
  <2>2. /\ s \in {"record", "rollback", "delete", "complete"} /\ s # "record"
        /\ job' = [job EXCEPT !.step = s]
    BY <1>1, <2>1
  <2> QED  BY <2>1, <2>2, JobAdvances
<1>4. ~Capturing' /\ ~HearsOfCheckpoints' /\ ~Requested' /\ Reverting'
  <2>1. ToSet(domainIn) = {}  BY <1>2 DEF ToSet
  <2> QED  BY <1>1, <1>3, <2>1 DEF Capturing, Reverting, HearsOfCheckpoints, Requested
<1>5. PICK q: q = conversation  OBVIOUS
<1>6. /\ q \in Seq(Turns) /\ \A i, j \in 1 .. Len(q): q[i] = q[j] => i = j
      /\ \A i \in 1 .. Len(q): q[i] <= provider.turn
  BY <1>5 DEF Tale, History
<1>7. PICK n \in 0 .. Len(q): n = job.count
  <2>1. Len(q) \in Nat  BY <1>6
  <2>2. job.count \in 0 .. Len(q)  BY <1>2, <1>5, <2>1
  <2> QED  BY <2>2
<1>8. PICK p: p = SubSeq(q, 1, n)  OBVIOUS
<1>9. p \in Seq(Turns) /\ Len(p) = n /\ \A i \in 1 .. n: p[i] = q[i] /\ i \in 1 .. Len(q)
  BY <1>6, <1>7, <1>8
<1>10. conversation' = p
  <2>1. PICK m \in Nat: m = Len(q)  BY <1>6
  <2>2. m - (m - n) = n /\ ~(n < 0) /\ n \in Nat  BY <1>7, <2>1
  <2>3. Len(conversation) - (job.current - job.count) = n
    BY <1>2, <1>5, <1>7, <2>1, <2>2
  <2> QED  BY <1>5, <1>8, <2>2, <2>3 DEF RollbackConversation
<1>11. OneTurn'
  BY <1>1, <1>2, <1>4
  DEF Tale, OneTurn, SessionFollows, EndInHand, UnderWay, Silence
<1>12. History'  BY <1>1, <1>6, <1>9, <1>10 DEF History
<1>13. OneCheckpoint'  BY <1>1, <1>2, <1>4 DEF OneCheckpoint, HearsOfCheckpoints, Silence
<1>14. Matching'
  <2>1. PICK cs: cs = th.checkpoints  OBVIOUS
  <2>2. \A i \in 1 .. Len(cs): cs[i].count = i /\ (i <= Len(q) => cs[i].turn = q[i])
    BY <1>5, <2>1 DEF Tale, Matching
  <2>3. PICK l \in Nat: l = Len(cs)
    <3>1. Len(cs) \in Nat  BY <2>1, Listed
    <3> QED  BY <3>1
  <2>4. PICK m \in Nat: m = Len(q)  BY <1>6
  <2>5. \A i \in 1 .. l: i <= n => i \in 1 .. n /\ i <= m
    BY <1>7, <2>4
  <2>6. \A i \in 1 .. l: cs[i].count = i /\ (i <= n => cs[i].turn = p[i])
    BY <1>9, <2>2, <2>3, <2>4, <2>5
  <2> QED  BY <1>1, <1>9, <1>10, <2>1, <2>3, <2>6 DEF Matching
<1>15. GoesBack'
  BY <1>1, <1>2, <1>3, <1>4, <1>7, <1>9, <1>10 DEF GoesBack, Silence
<1> QED  BY <1>4, <1>11, <1>12, <1>13, <1>14, <1>15 DEF Tale

LEMMA TaleDeleteStaleRefs ==
  ASSUME Typed, Tale, DeleteStaleRefs  PROVE Tale'
<1>1. /\ job.step = "delete" /\ job' = [job EXCEPT !.step = "complete"]
      /\ UNCHANGED <<th, sent, provider, conversation, ingest, seen, runtimeIn, domainIn>>
  BY DEF DeleteStaleRefs, Outside, engine, world
<1>2. job'.step = "complete" /\ job'.count = job.count /\ job'.current = job.current
  <2>1. PICK s: s = "complete"  OBVIOUS
  <2>2. /\ s \in {"record", "rollback", "delete", "complete"} /\ s # "record"
        /\ job' = [job EXCEPT !.step = s]
    BY <1>1, <2>1
  <2> QED  BY <2>1, <2>2, JobAdvances
<1>3. /\ Reverting /\ Reverting' /\ ~Capturing' /\ ~Capturing
  BY <1>1, <1>2 DEF Reverting, Capturing
<1>4. OneTurn'
  BY <1>1, <1>3, OneTurnStays DEF Tale, UnderWay, HearsOfCheckpoints
<1>5. History' /\ OneCheckpoint'  BY <1>1, <1>3 DEF Tale, History, OneCheckpoint
<1>6. Matching'  BY <1>1, MatchingStays DEF Tale
<1>7. GoesBack'
  <2>1. ~Requested  BY <1>1 DEF Tale, GoesBack, NoJob
  <2> QED  BY <1>1, <1>2, <1>3, <2>1 DEF Tale, GoesBack, Silence, Requested
<1> QED  BY <1>3, <1>4, <1>5, <1>6, <1>7 DEF Tale

(* A revert keeps the checkpoints up to its count. *)
LEMMA RevertKeepsPrefix ==
  ASSUME MaxTurns <= MaxCheckpoints, Typed, Matching, RecordRevert,
         job.count <= Len(th.checkpoints)
  PROVE  /\ Len(th'.checkpoints) = job.count
         /\ \A i \in 1 .. job.count: /\ i \in 1 .. Len(th.checkpoints)
                                    /\ th'.checkpoints[i] = th.checkpoints[i]
<1>1. RevertedTo(job.count) /\ job.count \in Nat
  BY StepRecordRevert DEF Typed, JobTyped, Job
<1>2. PICK cs: cs = th.checkpoints  OBVIOUS
<1>3. /\ cs \in Seq(Checkpoint) /\ DOMAIN cs = 1 .. Len(cs) /\ Len(cs) \in Nat
      /\ \A i, j \in 1 .. Len(cs): cs[i].turn = cs[j].turn => i = j
  BY <1>2, Listed
<1>4. PICK n \in 0 .. Len(cs): n = job.count  BY <1>1, <1>2, <1>3
<1>5. PICK l \in Nat: l = Len(cs)  BY <1>3
<1>6. \A i \in 1 .. l: cs[i].count = i  BY <1>2, <1>5 DEF Matching
<1>7. PICK S: S = {c \in ToSet(cs): c.count <= n}  OBVIOUS
<1>8. /\ \A i \in 1 .. n: cs[i] \in S
      /\ \A i \in n + 1 .. Len(cs): cs[i] \notin S
  <2>1. \A i \in 1 .. n: i \in 1 .. l /\ i <= n  BY <1>4, <1>5
  <2>2. \A i \in n + 1 .. l: i \in 1 .. l /\ ~ (i <= n)  BY <1>4, <1>5
  <2>3. \A i \in 1 .. l: cs[i] \in ToSet(cs)  BY <1>3, <1>5 DEF ToSet
  <2>4. \A i \in 1 .. n: cs[i] \in S  BY <1>6, <1>7, <2>1, <2>3
  <2>5. \A i \in n + 1 .. l: cs[i] \notin S  BY <1>6, <1>7, <2>2
  <2> QED  BY <1>5, <2>4, <2>5
<1>9. PICK of: of = Select(cs, S)  OBVIOUS
<1>10. of = SubSeq(cs, 1, n)  BY <1>3, <1>4, <1>8, <1>9, SelectPrefix
<1>11. of \in Seq(Checkpoint) /\ Len(of) = n /\ \A i \in 1 .. n: of[i] = cs[i]
  BY <1>3, <1>4, <1>10
<1>12. th'.checkpoints = of
  <2>1. th'.checkpoints = KeepLast(of, MaxCheckpoints)
    BY <1>1, <1>2, <1>4, <1>7, <1>9 DEF RevertedTo
  <2>2. Len(cs) <= MaxTurns  BY <1>3, FewCheckpoints
  <2>3. Len(of) <= MaxCheckpoints  BY <1>3, <1>4, <1>11, <2>2, BoundsAssumption
  <2> QED  BY <1>11, <2>1, <2>3, BoundsAssumption, KeepLastTyped
<1>13. \A i \in 1 .. n: i \in 1 .. Len(cs)  BY <1>3, <1>4
<1> QED  BY <1>2, <1>4, <1>11, <1>12, <1>13

LEMMA TaleRecordRevert ==
  ASSUME MaxTurns <= MaxCheckpoints, Typed, Tale, RecordRevert  PROVE Tale'
<1>1. /\ job.step = "complete" /\ job' = NoJob
      /\ UNCHANGED <<sent, provider, conversation, ingest, seen, runtimeIn>>
      /\ th'.session = th.session /\ domainIn' = domainIn
  BY StepRecordRevert DEF RecordRevert, Outside, world, RevertedTo
<1>2. /\ Reverting /\ Silence /\ domainIn = <<>> /\ job.count <= Len(th.checkpoints)
      /\ Len(conversation) = job.count
  BY <1>1 DEF Reverting, Tale, GoesBack
<1>3. ~Capturing' /\ ~HearsOfCheckpoints' /\ ~Requested' /\ ~Reverting'
  <2>1. ToSet(domainIn) = {}  BY <1>2 DEF ToSet
  <2> QED
    BY <1>1, <2>1 DEF Capturing, NoJob, HearsOfCheckpoints, Requested, Reverting
<1>4. OneTurn'
  BY <1>1, <1>2, <1>3, OneTurnStays DEF Tale, UnderWay, Silence
<1>5. History'  BY <1>1 DEF Tale, History
<1>6. OneCheckpoint'  BY <1>1, <1>2, <1>3 DEF OneCheckpoint, HearsOfCheckpoints, Silence
<1>7. /\ Len(th'.checkpoints) = job.count
      /\ \A i \in 1 .. job.count: /\ i \in 1 .. Len(th.checkpoints)
                                 /\ th'.checkpoints[i] = th.checkpoints[i]
  BY <1>2, RevertKeepsPrefix DEF Tale
<1>8. Matching' /\ Complete'
  BY <1>1, <1>2, <1>7 DEF Tale, Matching, Complete
<1>9. GoesBack'  BY <1>3 DEF GoesBack
<1> QED  BY <1>4, <1>5, <1>6, <1>8, <1>9 DEF Tale

LEMMA TaleInit ==
  Init => Tale
<1> SUFFICES ASSUME Init PROVE Tale  OBVIOUS
<1>1. /\ th.checkpoints = <<>> /\ th.session.turn = None /\ domainIn = <<>>
      /\ ToSet(domainIn) = {}
  BY DEF Init, EmptyThread, NoSession, ToSet
<1>2. ~Capturing /\ ~Reverting /\ ~Requested /\ ~HearsOfCheckpoints
  BY <1>1 DEF Init, NoJob, Capturing, Reverting, Requested, HearsOfCheckpoints
<1>3. OneTurn
  BY <1>1, <1>2 DEF Init, OneTurn, OfLatest, SessionFollows, EndInHand, UnderWay
<1>4. History /\ OneCheckpoint /\ Matching
  BY <1>1, <1>2 DEF Init, History, OneCheckpoint, Matching
<1>5. Complete /\ GoesBack  BY <1>1, <1>2 DEF Init, Complete, GoesBack
<1> QED  BY <1>3, <1>4, <1>5 DEF Tale

LEMMA TaleStep ==
  ASSUME Calm, MaxTurns <= MaxCheckpoints, None \notin Seen, Typed, Tale, [Next]_vars,
         failures' = failures
  PROVE  Tale'
<1>1. CASE UNCHANGED vars
  <2>1. UNCHANGED <<th, sent, provider, conversation, ingest, seen, runtimeIn, domainIn, job>>
    BY <1>1 DEF vars, engine, world, reactor
  <2> QED
    BY <2>1 DEF Tale, OneTurn, SessionFollows, EndInHand, UnderWay, Capturing,
                HearsOfCheckpoints, LatestIsLast, History, OneCheckpoint, Matching,
                Complete, Awaited, Silence, Requested, Reverting, GoesBack
<1>2. ~CaptureFails /\ ~RevertFails /\ ~RefuseRevert
  <2>1. failures \in Nat  BY DEF Typed, WorldTyped
  <2> QED  BY <2>1, FailuresAdd
<1>3. CASE SendMessage  BY <1>3, TaleSendMessage
<1>4. CASE AskRevert  BY <1>4, TaleAskRevert
<1>5. CASE StartTurn  BY <1>5, TaleStartTurn
<1>6. CASE EditFiles  BY <1>6, TaleEditFiles
<1>7. CASE EndTurn  BY <1>7, TaleEndTurn
<1>8. CASE Ingest  BY <1>8, TaleIngest
<1>9. CASE IngestDispatch  BY <1>9, TaleIngestDispatch
<1>10. CASE TakeDomain  BY <1>10, TaleTakeDomain
<1>11. CASE TakeRuntime  BY <1>11, TaleTakeRuntime
<1>12. CASE CaptureBaseline \/ CaptureRef  BY <1>12, TaleCaptures
<1>13. CASE RecordCheckpoint  BY <1>13, TaleRecordCheckpoint
<1>14. CASE RestoreFiles  BY <1>14, TaleRestoreFiles
<1>15. CASE RollbackConversation  BY <1>15, TaleRollback
<1>16. CASE DeleteStaleRefs  BY <1>16, TaleDeleteStaleRefs
<1>17. CASE RecordRevert  BY <1>17, TaleRecordRevert
<1> QED
  BY <1>1, <1>2, <1>3, <1>4, <1>5, <1>6, <1>7, <1>8, <1>9, <1>10, <1>11, <1>12, <1>13,
     <1>14, <1>15, <1>16, <1>17 DEF Next, ReactorStep

LEMMA NothingFailed ==
  ASSUME Typed, [Next]_vars, failures' = 0  PROVE failures = 0 /\ failures' = failures
<1>1. failures \in Nat /\ failures' >= failures
  BY FailuresAdd DEF Typed, WorldTyped
<1> QED  BY <1>1

(* At rest the checkpoints are the turns of the conversation. *)
LEMMA TaleAtRest ==
  ASSUME Typed, Tale, Settled
  PROVE  /\ [i \in DOMAIN th.checkpoints |-> th.checkpoints[i].turn] = conversation
         /\ \A i \in DOMAIN th.checkpoints: th.checkpoints[i].count = i
<1>1. PICK cs, q: cs = th.checkpoints /\ q = conversation  OBVIOUS
<1>2. DOMAIN cs = 1 .. Len(cs) /\ Len(cs) \in Nat  BY <1>1, Listed
<1>3. ~Reverting /\ ~Awaited
  BY DEF Settled, NoJob, Reverting, Awaited, EndsTurn, Capturing
<1>4. Len(q) = Len(cs)  BY <1>1, <1>3 DEF Tale, Complete
<1>5. \A i \in 1 .. Len(cs): cs[i].count = i /\ cs[i].turn = q[i]
  <2>1. \A i \in 1 .. Len(cs): i <= Len(cs)  BY <1>2
  <2> QED  BY <1>1, <1>4, <2>1 DEF Tale, Matching
<1>6. q = [i \in 1 .. Len(cs) |-> q[i]]  BY <1>1, <1>4 DEF Tale, History
<1>7. [i \in 1 .. Len(cs) |-> cs[i].turn] = q  BY <1>5, <1>6
<1> QED  BY <1>1, <1>2, <1>5, <1>7

(* For a user who waits until everything is processed, and while nothing      *)
(* fails: the checkpoints are the turns the provider remembers, counted from  *)
(* one, so that a revert rolls back the turns it names.                       *)
THEOREM CheckpointsAreTheTurns ==
  ASSUME Calm, MaxTurns <= MaxCheckpoints, None \notin Seen
  PROVE  Spec => []CheckpointsAreTheConversation
<1>1. Init => Typed /\ Told  BY TypedInit, TaleInit DEF Told
<1>2. Typed /\ Told /\ [Next]_vars => Typed' /\ Told'
  <2> SUFFICES ASSUME Typed, Told, [Next]_vars PROVE Typed' /\ Told'  OBVIOUS
  <2>1. Typed'  BY TypedStep
  <2>2. ASSUME failures' = 0 PROVE Tale'
    <3>1. failures = 0 /\ failures' = failures  BY <2>2, NothingFailed
    <3> QED  BY <3>1, TaleStep DEF Told
  <2> QED  BY <2>1, <2>2 DEF Told
<1>3. Typed /\ Told => CheckpointsAreTheConversation
  BY TaleAtRest DEF Told, CheckpointsAreTheConversation
<1> QED  BY <1>1, <1>2, <1>3, PTL DEF Spec
LEMMA HearsNothingNew ==
  ASSUME Typed, NEW e \in Queued, domainIn' = Append(domainIn, e),
         e.type # "thread.turn-diff-completed"
  PROVE  HearsOfCheckpoints' => HearsOfCheckpoints
<1>1. ToSet(domainIn') = ToSet(domainIn) \union {e}
  <2>1. PICK q, r: q = domainIn /\ r = domainIn'  OBVIOUS
  <2>2. q \in Seq(Queued) /\ r = Append(q, e)  BY <2>1 DEF Typed, QueuesTyped
  <2> QED  BY <2>1, <2>2, SetOfAppend
<1> QED  BY <1>1 DEF HearsOfCheckpoints

LEMMA SavedStays ==
  ASSUME Saved, Unreported', th'.checkpoints = th.checkpoints,
         UNCHANGED <<conversation, refs, workspace, job>>,
         provider'.running \/ runtimeIn' # <<>> => provider.running \/ runtimeIn # <<>>,
         HearsOfCheckpoints' => HearsOfCheckpoints
  PROVE  Saved'
BY DEF Saved, Capturing, Reverting, HaveRefs, HasRef, Version, RefsAreCounts

(* The reactor takes a job. *)
LEMMA SavedTaken ==
  ASSUME Saved, job.step = "idle",
         UNCHANGED <<th, conversation, refs, workspace, provider, ingest, seen>>,
         runtimeIn' # <<>> => runtimeIn # <<>>,
         HearsOfCheckpoints' => HearsOfCheckpoints,
         job'.step \in {"idle", "baseline", "capture", "restore"},
         job'.step = "baseline" => job'.count = Len(th.checkpoints),
         job'.step = "capture" => ~provider.running /\ runtimeIn' = <<>>,
         job'.step = "restore" => job'.ref = job'.count /\ HaveRefs(job'.count)
  PROVE  Saved'
<1>1. ~Reverting /\ ~Capturing  BY DEF Reverting, Capturing
<1>2. Unreported' /\ RefsAreCounts'  BY DEF Saved, Unreported, RefsAreCounts
<1>3. /\ provider'.running \/ runtimeIn' # <<>> =>
           /\ Len(conversation') = Len(th'.checkpoints) + 1
           /\ ~Capturing' /\ ~HearsOfCheckpoints'
      /\ HearsOfCheckpoints' => Len(conversation') = Len(th'.checkpoints)
  BY DEF Saved, Capturing
<1>4. /\ job'.step = "baseline" => job'.count = Len(th'.checkpoints)
      /\ job'.step # "record"
  OBVIOUS
<1>5. /\ HaveRefs(Len(th.checkpoints))'
      /\ Len(conversation') = Len(th'.checkpoints) => workspace' = Version(Len(th.checkpoints))'
  BY <1>1 DEF Saved, HaveRefs, HasRef, Version
<1>6. Reverting' => job'.step = "restore"  BY DEF Reverting
<1>7. Reverting' => job'.ref = job'.count /\ HaveRefs(job.count)'
  BY <1>6 DEF HaveRefs, HasRef
<1> QED  BY <1>2, <1>3, <1>4, <1>5, <1>6, <1>7 DEF Saved

LEMMA SavedSendMessage ==
  ASSUME Typed, Saved, SendMessage  PROVE Saved'
<1>1. PICK e \in Starts: domainIn' = Append(domainIn, e)  BY StepSendMessage
<1>2. Still  BY StepSendMessage
<1>3. HearsOfCheckpoints' => HearsOfCheckpoints
  BY <1>1, HearsNothingNew DEF Starts, Queued
<1>4. UNCHANGED <<provider, conversation, workspace, ingest, seen, runtimeIn, job, refs>>
  BY DEF SendMessage, reactor
<1>5. Unreported'  BY <1>4 DEF Saved, Unreported
<1> QED  BY <1>2, <1>3, <1>4, <1>5, SavedStays DEF Still

LEMMA SavedAskRevert ==
  ASSUME Typed, Saved, AskRevert  PROVE Saved'
<1>1. PICK e \in Requests: domainIn' = Append(domainIn, e)  BY StepAskRevert
<1>2. Still  BY StepAskRevert
<1>3. HearsOfCheckpoints' => HearsOfCheckpoints
  BY <1>1, HearsNothingNew DEF Requests, Queued
<1>4. UNCHANGED <<provider, conversation, workspace, ingest, seen, runtimeIn, job, refs>>
  BY DEF AskRevert, reactor, world
<1>5. Unreported'  BY <1>4 DEF Saved, Unreported
<1> QED  BY <1>2, <1>3, <1>4, <1>5, SavedStays DEF Still

(* A turn starts when the one before it has its checkpoint. *)
LEMMA SavedStartTurn ==
  ASSUME Typed, Tale, Saved, StartTurn  PROVE Saved'
<1>1. /\ provider.turn \in Nat /\ sent \in Nat /\ provider.turn < sent /\ ~provider.running
      /\ UNCHANGED <<th, sent, seen, domainIn, job, refs, workspace>>
      /\ conversation' = Append(conversation, provider.turn + 1)
  BY BoundsAssumption DEF StartTurn, Typed, WorldTyped, engine, reactor
<1>2. ~UnderWay /\ ~Reverting
  BY <1>1 DEF Tale, OneTurn, LatestIsLast, GoesBack, Silence
<1>3. ~Capturing /\ ~HearsOfCheckpoints /\ runtimeIn = <<>>  BY <1>2 DEF UnderWay
<1>4. Len(conversation) = Len(th.checkpoints)
  BY <1>1, <1>2, <1>3 DEF Tale, Complete, Awaited, EndsTurn
<1>5. /\ Len(conversation') = Len(th.checkpoints) + 1 /\ Len(th.checkpoints) \in Nat
      /\ Len(conversation') # Len(th.checkpoints)
  <2>1. PICK q: q = conversation  OBVIOUS
  <2>2. q \in Seq(Turns)  BY <2>1 DEF Tale, History
  <2>3. Len(Append(q, provider.turn + 1)) = Len(q) + 1 /\ Len(q) \in Nat  BY <2>2
  <2> QED  BY <1>1, <1>4, <2>1, <2>3
<1>6. Unreported'
  <2>1. PICK e: e = [type |-> "turn.started", turn |-> provider.turn + 1]  OBVIOUS
  <2>2. e.type = "turn.started" /\ Emit(e)  BY <2>1 DEF StartTurn
  <2>3. ingest' = Append(ingest, e)  BY <2>2 DEF Emit
  <2> QED  BY <1>1, <2>2, <2>3, UnreportedEmitted DEF Saved
<1>7. ~Capturing' /\ ~Reverting' /\ ~HearsOfCheckpoints' /\ job'.step # "record"
  BY <1>1, <1>2, <1>3 DEF Capturing, Reverting, HearsOfCheckpoints
<1>8. HaveRefs(Len(th.checkpoints))'
  BY <1>1, <1>2 DEF Saved, HaveRefs, HasRef
<1>9. RefsAreCounts' /\ (job'.step = "baseline" => job'.count = Len(th'.checkpoints))
  BY <1>1 DEF Saved, RefsAreCounts
<1> QED  BY <1>1, <1>5, <1>6, <1>7, <1>8, <1>9 DEF Saved

LEMMA SavedEndTurn ==
  ASSUME Typed, Tale, Saved, EndTurn  PROVE Saved'
<1>1. /\ provider.running
      /\ UNCHANGED <<th, conversation, seen, domainIn, job, refs>>
  BY DEF EndTurn, engine, reactor
<1>2. /\ Len(conversation) = Len(th.checkpoints) + 1 /\ ~Capturing /\ ~HearsOfCheckpoints
  BY <1>1 DEF Saved
<1>3. Len(conversation) # Len(th.checkpoints)
  <2>1. PICK cs: cs = th.checkpoints  OBVIOUS
  <2>2. Len(cs) \in Nat  BY <2>1, Listed
  <2> QED  BY <1>2, <2>1, <2>2
<1>4. Unreported'
  <2>1. PICK st \in TurnEnd: Emit([type |-> "turn.completed", turn |-> provider.turn,
                                   state |-> st, at |-> clock'])
    BY DEF EndTurn
  <2>2. PICK e: e = [type |-> "turn.completed", turn |-> provider.turn, state |-> st,
                     at |-> clock']  OBVIOUS
  <2>3. e.type = "turn.completed" /\ Emit(e)  BY <2>1, <2>2
  <2>4. ingest' = Append(ingest, e)  BY <2>3 DEF Emit
  <2> QED  BY <1>1, <2>3, <2>4, UnreportedEmitted DEF Saved
<1>5. ~Reverting  BY <1>1 DEF Tale, GoesBack, Silence
<1>6. ~Capturing' /\ ~Reverting' /\ ~HearsOfCheckpoints' /\ job'.step # "record"
  BY <1>1, <1>2, <1>5 DEF Capturing, Reverting, HearsOfCheckpoints
<1>7. HaveRefs(Len(th.checkpoints))'
  BY <1>1, <1>5 DEF Saved, HaveRefs, HasRef
<1> QED
  BY <1>1, <1>2, <1>3, <1>4, <1>6, <1>7 DEF Saved, RefsAreCounts
LEMMA SavedIngest ==
  ASSUME Typed, Saved, Ingest  PROVE Saved'
<1>1. Unreported'  BY UnreportedRead DEF Saved
<1>2. UNCHANGED <<th, provider, conversation, workspace, domainIn, runtimeIn, job, refs>>
  BY DEF Ingest, engine, world, reactor
<1> QED  BY <1>1, <1>2, SavedStays DEF HearsOfCheckpoints

(* Without reports of diffs the ingestion places no checkpoint. *)
LEMMA SavedIngestDispatch ==
  ASSUME Typed, Saved, IngestDispatch  PROVE Saved'
<1>1. /\ seen' = None
      /\ UNCHANGED <<provider, conversation, workspace, ingest, runtimeIn, job, refs>>
  BY DEF IngestDispatch, world, reactor
<1>2. \A e \in Diffs: ~Places(e)  BY DEF Places, Saved, Unreported
<1>3. Still /\ domainIn' = domainIn  BY <1>2, StepIngestDispatch
<1>4. Unreported'  BY <1>1 DEF Saved, Unreported
<1> QED  BY <1>1, <1>3, <1>4, SavedStays DEF HearsOfCheckpoints, Still

LEMMA HighestIsLength ==
  ASSUME Typed, Matching
  PROVE  MaxCount(th.checkpoints) = Len(th.checkpoints) /\ Len(th.checkpoints) \in Nat
<1>1. PICK cs: cs = th.checkpoints  OBVIOUS
<1>2. cs \in Seq(Checkpoint) /\ Len(cs) \in Nat  BY <1>1, Listed
<1>3. \A i \in 1 .. Len(cs): cs[i].count = i  BY <1>1 DEF Matching
<1> QED  BY <1>1, <1>2, <1>3, HighestIsLast

(* The ref a revert restores is that of its turn count. *)
LEMMA TargetIsCount ==
  ASSUME Typed, Matching, RefsAreCounts, NEW n \in Nat, n <= Len(th.checkpoints)
  PROVE  RevertTarget(n) = n
<1>1. PICK cs: cs = th.checkpoints  OBVIOUS
<1>2. cs \in Seq(Checkpoint) /\ DOMAIN cs = 1 .. Len(cs) /\ Len(cs) \in Nat
  BY <1>1, Listed
<1>3. \A i \in 1 .. Len(cs): cs[i].count = i /\ cs[i].ref = i
  BY <1>1 DEF Matching, RefsAreCounts
<1>4. PICK S: S = {c \in ToSet(cs): c.count = n}  OBVIOUS
<1>5. PICK of: of = Select(cs, S)  OBVIOUS
<1>6. RevertTarget(n) = IF n = 0 THEN 0 ELSE IF of = <<>> THEN None ELSE Head(of).ref
  BY <1>1, <1>4, <1>5 DEF RevertTarget
<1>7. of \in Seq(Checkpoint) /\ ToSet(of) = ToSet(cs) \intersect S
  BY <1>2, <1>5, SelectTyped
<1>8. CASE n = 0  BY <1>6, <1>8
<1>9. CASE n # 0
  <2>1. n \in 1 .. Len(cs)  BY <1>1, <1>2, <1>9
  <2>2. cs[n] \in ToSet(of)  BY <1>2, <1>3, <1>4, <1>7, <2>1 DEF ToSet
  <2>3. of # <<>>  BY <2>2 DEF ToSet
  <2>4. Head(of) = of[1] /\ 1 \in DOMAIN of  BY <1>7, <2>3
  <2>5. Head(of) \in ToSet(cs) /\ Head(of).count = n
    <3>1. Head(of) \in ToSet(of)  BY <2>4 DEF ToSet
    <3> QED  BY <1>4, <1>7, <3>1
  <2>6. PICK i \in 1 .. Len(cs): Head(of) = cs[i]  BY <1>2, <2>5 DEF ToSet
  <2>7. Head(of).ref = n  BY <1>3, <2>5, <2>6
  <2> QED  BY <1>6, <1>9, <2>3, <2>7
<1> QED  BY <1>8, <1>9

LEMMA SavedTakeDomain ==
  ASSUME Typed, Tale, Saved, TakeDomain  PROVE Saved'
<1>1. PICK q, e, r: q = domainIn /\ e = Head(q) /\ r = Tail(q)  OBVIOUS
<1>2. /\ q \in Seq(Queued) /\ q # <<>> /\ domainIn' = r /\ job.step = "idle"
      /\ UNCHANGED <<th, provider, conversation, workspace, ingest, seen, runtimeIn, refs>>
  BY <1>1 DEF TakeDomain, Typed, QueuesTyped, engine, world, Idle, Unjobbed
<1>3. e \in Queued /\ e \in ToSet(q) /\ ToSet(r) \subseteq ToSet(q)
  BY <1>1, <1>2, SetOfTail
<1>4. HearsOfCheckpoints' => HearsOfCheckpoints
  BY <1>1, <1>2, <1>3 DEF HearsOfCheckpoints
<1>5. MaxCount(th.checkpoints) = Len(th.checkpoints) /\ Len(th.checkpoints) \in Nat
  BY HighestIsLength DEF Tale
<1>6. CASE e \in Starts
  <2>1. e.type = "thread.turn-start-requested"  BY <1>6 DEF Starts
  <2>2. EnsureBaseline  BY <1>1, <2>1 DEF TakeDomain
  <2>3. /\ job'.step \in {"idle", "baseline"}
        /\ job'.step = "baseline" => job'.count = Len(th.checkpoints)
    BY <1>5, <2>2, BaselineTyped
  <2> QED  BY <1>2, <1>4, <2>3, SavedTaken
<1>7. CASE e \in Diffs
  <2>1. e.type = "thread.turn-diff-completed"  BY <1>7 DEF Diffs
  <2>2. CapturePlaceholder(e)  BY <1>1, <2>1 DEF TakeDomain
  <2>3. job'.step \in {"idle", "capture"}
    BY <2>2 DEF CapturePlaceholder, CaptureJob, NoJob
  <2>4. HearsOfCheckpoints  BY <1>1, <1>3, <2>1 DEF HearsOfCheckpoints
  <2>5. ~provider.running /\ runtimeIn' = <<>>  BY <1>2, <2>4 DEF Saved
  <2> QED  BY <1>2, <1>4, <2>3, <2>5, SavedTaken
<1>8. CASE e \in Requests
  <2>1. e.type = "thread.checkpoint-revert-requested" /\ e.count \in Nat
    BY <1>8 DEF Requests
  <2>2. PICK n: n = e.count  OBVIOUS
  <2>3. n \in Nat /\ BeginRevert(n)  BY <1>1, <2>1, <2>2 DEF TakeDomain
  <2>4. CASE job' = NoJob
    <3>1. job'.step = "idle"  BY <2>4 DEF NoJob
    <3> QED  BY <1>2, <1>4, <3>1, SavedTaken
  <2>5. CASE /\ job'.step = "restore" /\ job'.count = n
             /\ n <= MaxCount(th.checkpoints) /\ job'.ref = RevertTarget(n)
    <3>1. n <= Len(th.checkpoints)  BY <1>5, <2>5
    <3>2. RevertTarget(n) = n  BY <2>3, <3>1, TargetIsCount DEF Tale, Saved
    <3>3. HaveRefs(Len(th.checkpoints))  BY <1>2 DEF Saved, Reverting
    <3>4. HaveRefs(n)  BY <1>5, <2>3, <3>1, <3>3 DEF HaveRefs
    <3> QED  BY <1>2, <1>4, <2>5, <3>2, <3>4, SavedTaken
  <2> QED  BY <2>3, <2>4, <2>5, RevertTyped
<1> QED  BY <1>3, <1>6, <1>7, <1>8 DEF Queued

LEMMA SavedTakeRuntime ==
  ASSUME Typed, Tale, Saved, TakeRuntime  PROVE Saved'
<1>1. PICK q, e, r: q = runtimeIn /\ e = Head(q) /\ r = Tail(q)  OBVIOUS
<1>2. /\ q \in Seq(Bounds) /\ q # <<>> /\ runtimeIn' = r /\ job.step = "idle"
      /\ OfLatest(q, provider)
      /\ UNCHANGED <<th, provider, conversation, workspace, ingest, seen, domainIn, refs>>
  BY <1>1
  DEF TakeRuntime, Typed, QueuesTyped, engine, world, Idle, Unjobbed, Tale, OneTurn
<1>3. e \in Bounds /\ (e.type = "turn.completed" => r = <<>> /\ ~provider.running)
  <2>1. PICK p: p = provider  OBVIOUS
  <2>2. OfLatest(q, p)  BY <1>2, <2>1
  <2>3. e \in Bounds  BY <1>1, <1>2, <2>2, LatestTaken
  <2>4. e.type = "turn.completed" => r = <<>> /\ ~p.running
    BY <1>1, <1>2, <2>2, LatestTaken
  <2> QED  BY <2>1, <2>3, <2>4
<1>4. HearsOfCheckpoints' => HearsOfCheckpoints  BY <1>2 DEF HearsOfCheckpoints
<1>5. CASE e.type = "turn.started"
  <2>1. EnsureBaseline  BY <1>1, <1>5 DEF TakeRuntime
  <2>2. MaxCount(th.checkpoints) = Len(th.checkpoints)  BY HighestIsLength DEF Tale
  <2>3. /\ job'.step \in {"idle", "baseline"}
        /\ job'.step = "baseline" => job'.count = Len(th.checkpoints)
    BY <2>1, <2>2, BaselineTyped
  <2> QED  BY <1>1, <1>2, <1>4, <2>3, SavedTaken
<1>6. CASE e.type = "turn.completed"
  <2>1. CaptureCompletion(e)  BY <1>1, <1>6 DEF TakeRuntime
  <2>2. job'.step \in {"idle", "capture"}
    BY <2>1 DEF CaptureCompletion, CaptureJob, NoJob
  <2> QED  BY <1>1, <1>2, <1>3, <1>4, <1>6, <2>2, SavedTaken
<1> QED  BY <1>3, <1>5, <1>6 DEF Bounds

(* A capture adds or renews one ref. *)
LEMMA CaptureKeepsRefs ==
  ASSUME Typed, Capture, NEW n \in Nat, HaveRefs(n)
  PROVE  HaveRefs(n)' /\ job.count \in DOMAIN refs' /\ refs'[job.count] = workspace
<1>1. DOMAIN refs' = DOMAIN refs \union {job.count} /\ refs'[job.count] = workspace
  BY CaptureWrites
<1>2. \A i \in 1 .. n: i \in DOMAIN refs'  BY <1>1 DEF HaveRefs, HasRef
<1> QED  BY <1>1, <1>2 DEF HaveRefs, HasRef

LEMMA SavedCaptureBaseline ==
  ASSUME Typed, Tale, Saved, CaptureBaseline  PROVE Saved'
<1>1. /\ job.step = "baseline" /\ Capture /\ job'.step = "idle"
      /\ UNCHANGED <<th, provider, conversation, workspace, ingest, seen, runtimeIn, domainIn>>
  BY DEF CaptureBaseline, Outside, engine, world, NoJob
<1>2. PICK n \in Nat: n = Len(th.checkpoints)  BY HighestIsLength DEF Tale
<1>3. n = job.count /\ ~Reverting /\ HaveRefs(n)  BY <1>1, <1>2 DEF Saved, Reverting
<1>4. HaveRefs(n)' /\ HasRef(n)' /\ refs'[n] = workspace
  <2>1. HaveRefs(n)'  BY <1>1, <1>3, CaptureKeepsRefs
  <2>2. job.count \in DOMAIN refs' /\ refs'[job.count] = workspace
    BY <1>1, <1>3, CaptureKeepsRefs
  <2> QED
    BY <1>1, <1>3, <2>1, <2>2 DEF HasRef
<1>5. ~Capturing' /\ ~Reverting'  BY <1>1 DEF Capturing, Reverting
<1>6. Unreported' /\ RefsAreCounts' /\ HearsOfCheckpoints' = HearsOfCheckpoints
  BY <1>1 DEF Saved, Unreported, RefsAreCounts, HearsOfCheckpoints
<1>7. /\ HaveRefs(Len(th.checkpoints))'
      /\ workspace' = Version(Len(th.checkpoints))'
  BY <1>1, <1>2, <1>4 DEF HaveRefs, HasRef, Version
<1> QED  BY <1>1, <1>5, <1>6, <1>7 DEF Saved

LEMMA SavedCaptureRef ==
  ASSUME Typed, Tale, Saved, CaptureRef  PROVE Saved'
<1>1. /\ job.step = "capture" /\ Capture /\ job' = [job EXCEPT !.step = "record"]
      /\ UNCHANGED <<th, provider, conversation, workspace, ingest, seen, runtimeIn, domainIn>>
  BY DEF CaptureRef, Outside, engine, world
<1>2. job'.step = "record" /\ job'.count = job.count
  <2>1. PICK s: s = "record"  OBVIOUS
  <2>2. /\ s \in {"record", "rollback", "delete", "complete"} /\ Capturing
        /\ job' = [job EXCEPT !.step = s]
    BY <1>1, <2>1 DEF Capturing
  <2> QED  BY <2>1, <2>2, JobAdvances
<1>3. Capturing /\ ~Reverting /\ ~Reverting'  BY <1>1, <1>2 DEF Capturing, Reverting
<1>4. PICK n \in Nat: n = Len(th.checkpoints)  BY HighestIsLength DEF Tale
<1>5. job.count = Len(conversation) /\ HaveRefs(n) /\ ~provider.running /\ runtimeIn = <<>>
  BY <1>3, <1>4 DEF Tale, OneCheckpoint, Saved
<1>6. HaveRefs(n)'  BY <1>1, <1>5, CaptureKeepsRefs
<1>7. job.count \in DOMAIN refs' /\ refs'[job.count] = workspace
  BY <1>1, <1>5, CaptureKeepsRefs
<1>9. Unreported' /\ RefsAreCounts' /\ HearsOfCheckpoints' = HearsOfCheckpoints
  BY <1>1 DEF Saved, Unreported, RefsAreCounts, HearsOfCheckpoints
<1>10. /\ HaveRefs(Len(th.checkpoints))'
       /\ Len(conversation') = Len(th'.checkpoints) => workspace' = Version(Len(th.checkpoints))'
  BY <1>1, <1>2, <1>4, <1>5, <1>6, <1>7 DEF HaveRefs, HasRef, Version
<1>11. HasRef(job.count)' /\ refs'[job'.count] = workspace'
  BY <1>1, <1>2, <1>7 DEF HasRef
<1> QED  BY <1>1, <1>2, <1>3, <1>5, <1>9, <1>10, <1>11 DEF Saved

LEMMA SavedRecordCheckpoint ==
  ASSUME MaxTurns <= MaxCheckpoints, Typed, Tale, Saved, RecordCheckpoint  PROVE Saved'
<1>1. /\ job.step = "record" /\ job'.step = "idle"
      /\ UNCHANGED <<provider, conversation, workspace, ingest, seen, runtimeIn, refs>>
  BY DEF RecordCheckpoint, Outside, world, NoJob
<1>2. PICK e: e = Recording  OBVIOUS
<1>3. /\ e \in Diffs /\ e.turn = job.turn /\ e.count = job.count /\ e.ref = job.count
      /\ Recorded(e)
  BY <1>1, <1>2, RecordingTyped, StepRecordCheckpoint
<1>4. Capturing /\ ~Reverting /\ ~Reverting' /\ ~Capturing'
  BY <1>1 DEF Capturing, Reverting
<1>5. /\ LatestIsLast /\ e.turn = provider.turn /\ e.count = Len(conversation)
      /\ Len(conversation) \in {Len(th.checkpoints), Len(th.checkpoints) + 1}
      /\ ~provider.running /\ runtimeIn = <<>>
  BY <1>3, <1>4 DEF Tale, OneTurn, UnderWay, OneCheckpoint, Complete, Saved
<1>6. Len(th'.checkpoints) = Len(conversation) /\ RefsAreCounts'
  <2>1. Matching /\ History /\ RefsAreCounts  BY DEF Tale, Saved
  <2> QED  BY <1>1, <1>3, <1>5, <2>1, LastIsRecorded
<1>7. PICK n \in Nat: n = Len(th.checkpoints)  BY HighestIsLength DEF Tale
<1>8. PICK m: m = Len(conversation)  OBVIOUS
<1>9. m \in {n, n + 1} /\ HasRef(m) /\ refs[m] = workspace /\ HaveRefs(n)
  BY <1>1, <1>3, <1>4, <1>5, <1>7, <1>8 DEF Saved
<1>10. HaveRefs(m)
  <2>1. \A i \in 1 .. n + 1: i \in 1 .. n \/ i = n + 1  OBVIOUS
  <2> QED  BY <1>9, <2>1 DEF HaveRefs
<1>11. HaveRefs(Len(th.checkpoints))' /\ workspace' = Version(Len(th.checkpoints))'
  BY <1>1, <1>6, <1>8, <1>9, <1>10 DEF HaveRefs, HasRef, Version
<1>12. Unreported'  BY <1>1 DEF Saved, Unreported
<1> QED  BY <1>1, <1>4, <1>5, <1>6, <1>11, <1>12 DEF Saved

(* While a revert runs, nothing else does. *)
LEMMA SavedReverting ==
  ASSUME Tale, Saved, Reverting, job'.step \in {"rollback", "delete", "complete"},
         job'.ref = job.ref, job'.count = job.count,
         UNCHANGED <<th, provider, ingest, seen, runtimeIn, domainIn>>,
         HaveRefs(job.count)', workspace' = Version(job.count)'
  PROVE  Saved'
<1>1. /\ ~provider.running /\ runtimeIn = <<>> /\ ~HearsOfCheckpoints'
  <2>1. Silence /\ domainIn = <<>>  BY DEF Tale, GoesBack
  <2>2. ToSet(domainIn) = {}  BY <2>1 DEF ToSet
  <2> QED  BY <2>1, <2>2 DEF Silence, HearsOfCheckpoints
<1>2. Unreported' /\ RefsAreCounts'  BY DEF Saved, Unreported, RefsAreCounts
<1>3. Reverting' /\ ~Capturing'  BY DEF Reverting, Capturing
<1>4. job'.ref = job'.count  BY DEF Saved
<1> QED  BY <1>1, <1>2, <1>3, <1>4 DEF Saved

(* The files go back to those of the count reverted to ... *)
LEMMA SavedRestoreFiles ==
  ASSUME Typed, Tale, Saved, RestoreFiles  PROVE Saved'
<1>1. /\ job.step = "restore"
      /\ UNCHANGED <<th, provider, ingest, seen, runtimeIn, domainIn, refs>>
  BY DEF RestoreFiles, engine
<1>2. Reverting /\ job.count \in Nat  BY <1>1 DEF Reverting, Typed, JobTyped, Job
<1>3. job.ref = job.count /\ HaveRefs(job.count)  BY <1>2 DEF Saved
<1>4. IsGitRef(job.ref) /\ (HasRef(job.ref) \/ job.count = 0)
  <2>1. job.count # 0 => job.count \in 1 .. job.count  BY <1>2
  <2> QED  BY <1>2, <1>3, <2>1, ValuesAssumption DEF IsGitRef, HaveRefs
<1>5. workspace' = Version(job.count) /\ job' = [job EXCEPT !.step = "rollback"]
  BY <1>3, <1>4 DEF RestoreFiles, Version
<1>6. job'.step = "rollback" /\ job'.count = job.count /\ job'.ref = job.ref
  <2>1. PICK s: s = "rollback"  OBVIOUS
  <2>2. /\ s \in {"record", "rollback", "delete", "complete"} /\ s # "record"
        /\ job' = [job EXCEPT !.step = s]
    BY <1>5, <2>1
  <2> QED  BY <2>1, <2>2, JobAdvances
<1>7. HaveRefs(job.count)' /\ workspace' = Version(job.count)'
  BY <1>1, <1>3, <1>5, <1>6 DEF HaveRefs, HasRef, Version
<1> QED  BY <1>1, <1>2, <1>6, <1>7, SavedReverting

LEMMA SavedRollback ==
  ASSUME Typed, Tale, Saved, RollbackConversation  PROVE Saved'
<1>1. /\ job.step = "rollback" /\ job' = [job EXCEPT !.step = "delete"]
      /\ UNCHANGED <<th, provider, ingest, seen, runtimeIn, domainIn, refs, workspace>>
  BY DEF RollbackConversation, engine
<1>2. Reverting  BY <1>1 DEF Reverting
<1>3. HaveRefs(job.count) /\ workspace = Version(job.count)  BY <1>1, <1>2 DEF Saved
<1>4. job'.step = "delete" /\ job'.count = job.count /\ job'.ref = job.ref
  <2>1. PICK s: s = "delete"  OBVIOUS
  <2>2. /\ s \in {"record", "rollback", "delete", "complete"} /\ s # "record"
        /\ job' = [job EXCEPT !.step = s]
    BY <1>1, <2>1
  <2> QED  BY <2>1, <2>2, JobAdvances
<1>5. HaveRefs(job.count)' /\ workspace' = Version(job.count)'
  BY <1>1, <1>3, <1>4 DEF HaveRefs, HasRef, Version
<1> QED  BY <1>1, <1>2, <1>4, <1>5, SavedReverting

(* ... and only refs past it are deleted. *)
LEMMA SavedDeleteStaleRefs ==
  ASSUME Typed, Tale, Saved, DeleteStaleRefs  PROVE Saved'
<1>1. /\ job.step = "delete" /\ job' = [job EXCEPT !.step = "complete"]
      /\ UNCHANGED <<th, provider, ingest, seen, runtimeIn, domainIn, workspace>>
      /\ refs' = [n \in DOMAIN refs \ job.stale |-> refs[n]]
  BY DEF DeleteStaleRefs, Outside, engine, world
<1>2. Reverting  BY <1>1 DEF Reverting
<1>3. HaveRefs(job.count) /\ workspace = Version(job.count)  BY <1>1, <1>2 DEF Saved
<1>4. job'.step = "complete" /\ job'.count = job.count /\ job'.ref = job.ref
  <2>1. PICK s: s = "complete"  OBVIOUS
  <2>2. /\ s \in {"record", "rollback", "delete", "complete"} /\ s # "record"
        /\ job' = [job EXCEPT !.step = s]
    BY <1>1, <2>1
  <2> QED  BY <2>1, <2>2, JobAdvances
<1>5. PICK n \in Nat: n = job.count  BY DEF Typed, JobTyped, Job
<1>6. \A i \in 0 .. n: i \notin job.stale
  <2>1. \A r \in job.stale: r = ProviderDiff \/ r > n  BY <1>5 DEF Typed, JobTyped
  <2> QED  BY <2>1, ValuesAssumption
<1>7. PICK D: D = DOMAIN refs \ job.stale  OBVIOUS
<1>8. DOMAIN refs' = D /\ \A i \in D: refs'[i] = refs[i]  BY <1>1, <1>7
<1>9. \A i \in 0 .. n: i \in D <=> HasRef(i)  BY <1>6, <1>7 DEF HasRef
<1>10. HaveRefs(n)' /\ workspace' = Version(n)'
  <2>1. \A i \in 1 .. n: i \in 0 .. n  OBVIOUS
  <2>2. HaveRefs(n)'  BY <1>3, <1>5, <1>8, <1>9, <2>1 DEF HaveRefs, HasRef
  <2>3. n \in 0 .. n  OBVIOUS
  <2>4. workspace' = Version(n)'
    BY <1>1, <1>3, <1>5, <1>8, <1>9, <2>3 DEF HasRef, Version
  <2> QED  BY <2>2, <2>4
<1>11. HaveRefs(job.count)' /\ workspace' = Version(job.count)'
  BY <1>4, <1>5, <1>10 DEF HaveRefs, Version
<1> QED  BY <1>1, <1>2, <1>4, <1>11, SavedReverting

LEMMA SavedRecordRevert ==
  ASSUME MaxTurns <= MaxCheckpoints, Typed, Tale, Saved, RecordRevert  PROVE Saved'
<1>1. /\ job.step = "complete" /\ job'.step = "idle"
      /\ UNCHANGED <<provider, conversation, workspace, ingest, seen, runtimeIn, refs>>
      /\ domainIn' = domainIn
  BY StepRecordRevert DEF RecordRevert, Outside, world, NoJob, RevertedTo
<1>2. /\ Reverting /\ Silence /\ domainIn = <<>> /\ job.count <= Len(th.checkpoints)
      /\ Len(conversation) = job.count
  BY <1>1 DEF Reverting, Tale, GoesBack
<1>3. HaveRefs(job.count) /\ workspace = Version(job.count)  BY <1>1, <1>2 DEF Saved
<1>4. ~Capturing' /\ ~HearsOfCheckpoints' /\ ~Reverting'
  <2>1. ToSet(domainIn) = {}  BY <1>2 DEF ToSet
  <2> QED  BY <1>1, <2>1 DEF Capturing, HearsOfCheckpoints, Reverting
<1>5. /\ Len(th'.checkpoints) = job.count
      /\ \A i \in 1 .. job.count: /\ i \in 1 .. Len(th.checkpoints)
                                 /\ th'.checkpoints[i] = th.checkpoints[i]
  BY <1>2, RevertKeepsPrefix DEF Tale
<1>6. RefsAreCounts'  BY <1>5 DEF Saved, RefsAreCounts
<1>7. HaveRefs(Len(th.checkpoints))' /\ workspace' = Version(Len(th.checkpoints))'
  BY <1>1, <1>3, <1>5 DEF HaveRefs, HasRef, Version
<1>8. Unreported' /\ ~provider'.running /\ runtimeIn' = <<>>
  BY <1>1, <1>2 DEF Saved, Unreported, Silence
<1> QED  BY <1>1, <1>4, <1>6, <1>7, <1>8 DEF Saved

LEMMA SavedInit ==
  Init => Saved
<1> SUFFICES ASSUME Init PROVE Saved  OBVIOUS
<1>1. th.checkpoints = <<>> /\ domainIn = <<>> /\ ToSet(domainIn) = {}
  BY DEF Init, EmptyThread, ToSet
<1>2. ~Capturing /\ ~Reverting /\ ~HearsOfCheckpoints /\ job.step = "idle"
  BY <1>1 DEF Init, NoJob, Capturing, Reverting, HearsOfCheckpoints
<1>3. Version(0) = 0 /\ workspace = 0
  <2>1. DOMAIN refs = {}  BY DEF Init
  <2> QED  BY <2>1 DEF Init, Version, HasRef, HeadVersion
<1> QED  BY <1>1, <1>2, <1>3 DEF Init, Saved, Unreported, RefsAreCounts, HaveRefs

LEMMA SavedStep ==
  ASSUME MaxDiffs = 0, MaxTurns <= MaxCheckpoints, Typed, Tale, Saved, [Next]_vars,
         failures' = failures
  PROVE  Saved'
<1>1. CASE UNCHANGED vars
  <2>1. UNCHANGED <<th, provider, conversation, workspace, ingest, seen, runtimeIn,
                    domainIn, job, refs>>
    BY <1>1 DEF vars, engine, world, reactor
  <2>2. Unreported'  BY <2>1 DEF Saved, Unreported
  <2> QED  BY <2>1, <2>2, SavedStays DEF HearsOfCheckpoints
<1>2. ~CaptureFails /\ ~RevertFails /\ ~RefuseRevert
  <2>1. failures \in Nat  BY DEF Typed, WorldTyped
  <2> QED  BY <2>1, FailuresAdd
<1>3. CASE SendMessage  BY <1>3, SavedSendMessage
<1>4. CASE AskRevert  BY <1>4, SavedAskRevert
<1>5. CASE StartTurn  BY <1>5, SavedStartTurn
<1>6. CASE EditFiles
  <2>1. diffs \in Nat /\ diffs < 0  BY <1>6 DEF EditFiles, Typed, WorldTyped
  <2> QED  BY <2>1
<1>7. CASE EndTurn  BY <1>7, SavedEndTurn
<1>8. CASE Ingest  BY <1>8, SavedIngest
<1>9. CASE IngestDispatch  BY <1>9, SavedIngestDispatch
<1>10. CASE TakeDomain  BY <1>10, SavedTakeDomain
<1>11. CASE TakeRuntime  BY <1>11, SavedTakeRuntime
<1>12. CASE CaptureBaseline  BY <1>12, SavedCaptureBaseline
<1>13. CASE CaptureRef  BY <1>13, SavedCaptureRef
<1>14. CASE RecordCheckpoint  BY <1>14, SavedRecordCheckpoint
<1>15. CASE RestoreFiles  BY <1>15, SavedRestoreFiles
<1>16. CASE RollbackConversation  BY <1>16, SavedRollback
<1>17. CASE DeleteStaleRefs  BY <1>17, SavedDeleteStaleRefs
<1>18. CASE RecordRevert  BY <1>18, SavedRecordRevert
<1> QED
  BY <1>1, <1>2, <1>3, <1>4, <1>5, <1>6, <1>7, <1>8, <1>9, <1>10, <1>11, <1>12, <1>13,
     <1>14, <1>15, <1>16, <1>17, <1>18 DEF Next, ReactorStep

LEMMA SavedAtRest ==
  ASSUME Typed, Tale, Saved, Settled
  PROVE  workspace = Version(MaxCount(th.checkpoints))
<1>1. ~Reverting /\ ~Awaited
  BY DEF Settled, NoJob, Reverting, Awaited, EndsTurn, Capturing
<1>2. Len(conversation) = Len(th.checkpoints)  BY <1>1 DEF Tale, Complete
<1>3. MaxCount(th.checkpoints) = Len(th.checkpoints)  BY HighestIsLength DEF Tale
<1> QED  BY <1>1, <1>2, <1>3 DEF Saved

(* ... and, with a provider that reports no diffs, the files at rest are those *)
(* captured for the last checkpoint: whatever was asked for and taken back,    *)
(* no ref of a checkpoint that stays is missing, renamed or overwritten with   *)
(* other files, so that files, conversation and thread go back together.       *)
THEOREM FilesGoBackTogether ==
  ASSUME Calm, MaxDiffs = 0, MaxTurns <= MaxCheckpoints, None \notin Seen
  PROVE  Spec => []FilesAreTheLastCheckpoint
<1>1. Init => Typed /\ Told /\ FilesKept
  BY TypedInit, TaleInit, SavedInit DEF Told, FilesKept
<1>2. Typed /\ Told /\ FilesKept /\ [Next]_vars => Typed' /\ Told' /\ FilesKept'
  <2> SUFFICES ASSUME Typed, Told, FilesKept, [Next]_vars
               PROVE  Typed' /\ Told' /\ FilesKept'
    OBVIOUS
  <2>1. Typed'  BY TypedStep
  <2>2. ASSUME failures' = 0 PROVE Tale' /\ Saved'
    <3>1. failures = 0 /\ failures' = failures  BY <2>2, NothingFailed
    <3>2. Tale'  BY <3>1, TaleStep DEF Told
    <3>3. Saved'  BY <3>1, SavedStep DEF Told, FilesKept
    <3> QED  BY <3>2, <3>3
  <2> QED  BY <2>1, <2>2 DEF Told, FilesKept
<1>3. Typed /\ Told /\ FilesKept => FilesAreTheLastCheckpoint
  BY SavedAtRest DEF Told, FilesKept, FilesAreTheLastCheckpoint, Version
<1> QED  BY <1>1, <1>2, <1>3, PTL DEF Spec
=============================================================================
