---------------------- MODULE CheckpointMessagesProofs ----------------------
(***************************************************************************)
(* What Checkpointing promises of the messages of a thread, for any number *)
(* of turns and reverts, to a user who waits (Calm): the SQL rows keep     *)
(* those that the read model keeps.                                        *)
(*                                                                         *)
(* First what reading the rows back in their order returns, and what the   *)
(* two rules of a revert retain: the projector's, which takes the first    *)
(* user messages by counting, and the pipeline's, which takes those that   *)
(* the remaining turns own.  Then the invariant, on top of Typed and Told: *)
(*   Ascending  turns are remembered in the order they were asked for      *)
(*   Counted    both parts have checkpoints of the same turns              *)
(*   Gathered   both hold the same messages, and not too many              *)
(*   Spoken     one user message for each turn asked for, in their order,  *)
(*              and at most one of the assistant for each that ended       *)
(*   Owned      the row of a turn owns its messages, those of the user     *)
(*              only once the turn has started                             *)
(* The projector keeps the newest MaxMessages (2000) of a thread, the rows *)
(* all, so the hypothesis is that two for each turn are not too many.      *)
(***************************************************************************)
EXTENDS CheckpointingProofs

(* A finite set, one member after the other. *)
Peels(f, S, F) ==
  /\ f = [T \in SUBSET S |-> f[T]] /\ f[{}] = <<>>
  /\ \A T \in SUBSET S: T # {} => f[T] = <<F[T]>> \o f[T \ {F[T]}]

LEMMA Peeling ==
  ASSUME NEW S, IsFiniteSet(S), NEW F, \A T \in SUBSET S: T # {} => F[T] \in T
  PROVE  \E f: Peels(f, S, F)
<1> DEFINE Step(f, T) == IF T = {} THEN <<>> ELSE <<F[T]>> \o f[T \ {F[T]}]
           Size(n) == {T \in SUBSET S: Cardinality(T) <= n}
           Is(f, n) == f = [T \in Size(n) |-> Step(f, T)]
           Good == {n \in Nat: \E f: Is(f, n)}
<1>1. \A T \in SUBSET S: IsFiniteSet(T) /\ Cardinality(T) \in Nat
                            /\ Cardinality(T) <= Cardinality(S)
  BY FS_Subset, FS_CardinalityType
<1>2. 0 \in Good
  <2>1. \A T \in Size(0): T = {}  BY <1>1, FS_EmptySet
  <2>2. PICK f: f = [T \in Size(0) |-> <<>>]  OBVIOUS
  <2>3. Is(f, 0)  BY <2>1, <2>2
  <2> QED  BY <2>3
<1>3. ASSUME NEW n \in Nat, n # 0, n - 1 \in Good PROVE n \in Good
  <2>1. PICK f: Is(f, n - 1)  BY <1>3
  <2>2. PICK g: g = [T \in Size(n) |-> Step(f, T)]  OBVIOUS
  <2>3. \A T \in Size(n - 1): g[T] = f[T]
    <3> SUFFICES ASSUME NEW T \in Size(n - 1) PROVE g[T] = f[T]  OBVIOUS
    <3>1. T \in Size(n)  BY <1>1
    <3>2. g[T] = Step(f, T)  BY <2>2, <3>1
    <3>3. f[T] = Step(f, T)  BY <2>1
    <3> QED  BY <3>2, <3>3
  <2>4. \A T \in Size(n): T # {} => T \ {F[T]} \in Size(n - 1)
    <3> SUFFICES ASSUME NEW T \in Size(n), T # {} PROVE T \ {F[T]} \in Size(n - 1)
      OBVIOUS
    <3>1. T \in SUBSET S /\ F[T] \in T /\ IsFiniteSet(T)  BY <1>1
    <3>2. Cardinality(T \ {F[T]}) = Cardinality(T) - 1  BY <3>1, FS_RemoveElement
    <3>3. Cardinality(T) \in Nat /\ Cardinality(T) <= n  BY <1>1, <3>1
    <3> QED  BY <3>1, <3>2, <3>3
  <2>5. \A T \in Size(n): Step(f, T) = Step(g, T)
    <3> SUFFICES ASSUME NEW T \in Size(n), T # {}
                 PROVE  f[T \ {F[T]}] = g[T \ {F[T]}]
      OBVIOUS
    <3> QED  BY <2>3, <2>4
  <2>6. g = [T \in Size(n) |-> Step(g, T)]  BY <2>2, <2>5
  <2> QED  BY <2>6
<1> HIDE DEF Good
<1>4. PICK n \in Nat: n = Cardinality(S)  BY <1>1
<1>5. n \in Good
  <2>1. \A k \in 1 .. n: k - 1 \in Good => k \in Good  BY <1>3
  <2>2. \A k \in 0 .. n: k \in Good  BY <1>2, <2>1, UpTo
  <2> QED  BY <2>2
<1>6. Size(n) = SUBSET S  BY <1>1, <1>4
<1>7. PICK f: f = [T \in SUBSET S |-> Step(f, T)]  BY <1>5, <1>6 DEF Good
<1>8. Peels(f, S, F)  BY <1>7 DEF Peels
<1> QED  BY <1>8

LEMMA Peeled ==
  ASSUME NEW S, IsFiniteSet(S), NEW F, \A T \in SUBSET S: T # {} => F[T] \in T,
         NEW f, Peels(f, S, F)
  PROVE  f[S] \in Seq(S) /\ ToSet(f[S]) = S
<1> DEFINE Good == {n \in Nat: \A T \in SUBSET S: Cardinality(T) = n =>
                                 f[T] \in Seq(S) /\ ToSet(f[T]) = T}
<1>1. \A T \in SUBSET S: IsFiniteSet(T) /\ Cardinality(T) \in Nat
  BY FS_Subset, FS_CardinalityType
<1>2. \A T \in SUBSET S: f[T] = IF T = {} THEN <<>> ELSE <<F[T]>> \o f[T \ {F[T]}]
  BY DEF Peels
<1>3. 0 \in Good
  <2>1. \A T \in SUBSET S: Cardinality(T) = 0 => T = {}  BY <1>1, FS_EmptySet
  <2>2. <<>> \in Seq(S) /\ ToSet(<<>>) = {}  BY DEF ToSet
  <2> QED  BY <1>2, <2>1, <2>2
<1>4. ASSUME NEW n \in Nat, n # 0, n - 1 \in Good PROVE n \in Good
  <2> SUFFICES ASSUME NEW T \in SUBSET S, Cardinality(T) = n
               PROVE  f[T] \in Seq(S) /\ ToSet(f[T]) = T
    OBVIOUS
  <2>1. T # {}  BY <1>4, FS_EmptySet
  <2>2. PICK x \in T: x = F[T] /\ f[T] = <<x>> \o f[T \ {x}]  BY <1>2, <2>1
  <2>3. Cardinality(T \ {x}) = n - 1 /\ T \ {x} \in SUBSET S  BY <1>1, FS_RemoveElement
  <2>4. PICK s: s = f[T \ {x}]  OBVIOUS
  <2>5. s \in Seq(S) /\ ToSet(s) = T \ {x}  BY <1>4, <2>3, <2>4
  <2>6. PICK y: y = <<x>>  OBVIOUS
  <2>7. y \in Seq(S) /\ ToSet(y) = {x}
    <3>1. DOMAIN y = {1} /\ y[1] = x /\ x \in S  BY <2>6
    <3>2. y \in Seq(S)  BY <2>6
    <3> QED  BY <3>1, <3>2 DEF ToSet
  <2>8. y \o s \in Seq(S) /\ ToSet(y \o s) = T
    <3>1. ToSet(y \o s) = ToSet(y) \union ToSet(s)  BY <2>5, <2>7, ConcatSet
    <3>2. y \o s \in Seq(S)  BY <2>5, <2>7
    <3> QED  BY <2>5, <2>7, <3>1, <3>2
  <2> QED  BY <2>2, <2>4, <2>6, <2>8
<1> HIDE DEF Good
<1>5. PICK n \in Nat: n = Cardinality(S)  BY <1>1
<1>6. n \in Good
  <2>1. \A k \in 1 .. n: k - 1 \in Good => k \in Good  BY <1>4
  <2>2. \A k \in 0 .. n: k \in Good  BY <1>3, <2>1, UpTo
  <2> QED  BY <2>2
<1> QED  BY <1>5, <1>6 DEF Good

(* Rows read back by time and id are the rows. *)
LEMMA RowsReadBack ==
  ASSUME NEW S, IsFiniteSet(S), \A x \in S: x.at \in Nat /\ x.id \in Nat,
         \A x, y \in S: x.id = y.id => x = y
  PROVE  RowsInOrder(S) \in Seq(S) /\ ToSet(RowsInOrder(S)) = S
<1> DEFINE First(T) == CHOOSE x \in T: \A y \in T \ {x}:
                         y.at > x.at \/ (y.at = x.at /\ y.id > x.id)
<1>1. \A T \in SUBSET S: T # {} => First(T) \in T
  <2> SUFFICES ASSUME NEW T \in SUBSET S, T # {}
               PROVE  \E x \in T: \A y \in T \ {x}:
                        y.at > x.at \/ (y.at = x.at /\ y.id > x.id)
    OBVIOUS
  <2>1. PICK C: C = {x.at: x \in T}  OBVIOUS
  <2>2. C \subseteq Nat /\ C # {}  BY <2>1
  <2>3. PICK a \in C: \A k \in C: a <= k  BY <2>2, Least
  <2>4. PICK D: D = {x.id: x \in {z \in T: z.at = a}}  OBVIOUS
  <2>5. D \subseteq Nat /\ D # {}  BY <2>1, <2>4
  <2>6. PICK i \in D: \A k \in D: i <= k  BY <2>5, Least
  <2>7. PICK x \in T: x.at = a /\ x.id = i  BY <2>4
  <2>8. ASSUME NEW y \in T \ {x}  PROVE y.at > x.at \/ (y.at = x.at /\ y.id > x.id)
    <3>1. y.at \in Nat /\ x.at \in Nat /\ y.id \in Nat /\ x.id \in Nat /\ y.id # x.id
      OBVIOUS
    <3>2. x.at <= y.at  BY <2>1, <2>3, <2>7
    <3>3. y.at = x.at => x.id <= y.id  BY <2>4, <2>6, <2>7
    <3> QED  BY <3>1, <3>2, <3>3
  <2> QED  BY <2>8
<1>2. PICK F: F = [T \in SUBSET S |-> First(T)]  OBVIOUS
<1>3. \A T \in SUBSET S: F[T] = First(T)  BY <1>2
<1>4. \A T \in SUBSET S: T # {} => F[T] \in T  BY <1>1, <1>3
<1> DEFINE Is(f) == f = [T \in SUBSET S |->
                           IF T = {} THEN <<>> ELSE <<F[T]>> \o f[T \ {F[T]}]]
           IsToo(f) == f = [T \in SUBSET S |->
                              IF T = {} THEN <<>> ELSE <<First(T)>> \o f[T \ {First(T)}]]
<1>5. \A f: Is(f) <=> IsToo(f)
  <2> HIDE DEF First
  <2> QED  BY <1>3
<1>6. \E f: Is(f)
  <2>1. PICK f: Peels(f, S, F)  BY <1>4, Peeling
  <2>2. Is(f)  BY <2>1 DEF Peels
  <2> QED  BY <2>2
<1>7. PICK f: f = CHOOSE h: IsToo(h)  OBVIOUS
<1>8. Is(f)
  <2> HIDE DEF Is, IsToo
  <2> QED  BY <1>5, <1>6, <1>7
<1>9. RowsInOrder(S) = f[S]
  BY <1>7 DEF RowsInOrder, InOrder, MapThenFoldSet, Later
<1>10. f[S] \in Seq(S) /\ ToSet(f[S]) = S
  <2>1. Peels(f, S, F)  BY <1>8 DEF Peels
  <2> QED  BY <1>4, <2>1, Peeled
<1> QED  BY <1>9, <1>10

LEMMA SelectShorter ==
  ASSUME NEW U, NEW s \in Seq(U), NEW S  PROVE Len(Select(s, S)) <= Len(s)
<1>1. PICK f: /\ f[0] = <<>> /\ Select(s, S) = f[Len(s)]
              /\ \A n \in 1 .. Len(s):
                   f[n] = IF s[n] \in S THEN Append(f[n - 1], s[n]) ELSE f[n - 1]
  BY Selecting
<1> DEFINE T == {n \in 0 .. Len(s): f[n] \in Seq(U) /\ Len(f[n]) <= n}
<1>2. Len(s) \in Nat  OBVIOUS
<1>3. 0 \in T
  <2>1. f[0] \in Seq(U) /\ Len(f[0]) = 0  BY <1>1
  <2> QED  BY <1>2, <2>1
<1>4. ASSUME NEW n \in 1 .. Len(s), n - 1 \in T PROVE n \in T
  <2>1. PICK g: g = f[n - 1]  OBVIOUS
  <2>2. g \in Seq(U) /\ Len(g) <= n - 1 /\ Len(g) \in Nat  BY <1>4, <2>1
  <2>3. s[n] \in U /\ f[n] = IF s[n] \in S THEN Append(g, s[n]) ELSE g
    BY <1>1, <2>1
  <2>4. Len(Append(g, s[n])) = Len(g) + 1 /\ Append(g, s[n]) \in Seq(U)  BY <2>2, <2>3
  <2>5. f[n] \in Seq(U) /\ Len(f[n]) <= n  BY <1>2, <2>2, <2>3, <2>4
  <2> QED  BY <2>5
<1> HIDE DEF T
<1>5. \A n \in 0 .. Len(s): n \in T  BY <1>2, <1>3, <1>4, UpTo
<1> QED  BY <1>1, <1>2, <1>5 DEF T

(* So many different things are so many. *)
LEMMA Counting ==
  ASSUME NEW L \in Nat, NEW u, \A i, j \in 1 .. L: u[i] = u[j] => i = j,
         NEW S, S = {u[i]: i \in 1 .. L}
  PROVE  IsFiniteSet(S) /\ Cardinality(S) = L
<1> DEFINE f == [i \in 1 .. L |-> u[i]]
<1>1. f \in Bijection(1 .. L, S)
  <2>1. f \in [1 .. L -> S]  OBVIOUS
  <2>2. \A i, j \in 1 .. L: f[i] = f[j] => i = j  OBVIOUS
  <2>3. \A x \in S: \E i \in 1 .. L: f[i] = x  OBVIOUS
  <2> HIDE DEF f
  <2> QED  BY <2>1, <2>2, <2>3 DEF Bijection, Injection, IsInjective, Surjection
<1>2. IsFiniteSet(1 .. L) /\ Cardinality(1 .. L) = L
  <2>1. 1 \in Int /\ L \in Int  OBVIOUS
  <2> QED  BY <2>1, FS_Interval
<1> HIDE DEF f
<1>3. ExistsBijection(1 .. L, S)  BY <1>1 DEF ExistsBijection
<1> QED  BY <1>2, <1>3, FS_Bijection

Message ==
  [id: Nat, role: {"user", "assistant"}, text: {<<>>}, turn: Turns \union {None},
   streaming: {FALSE}, at: Nat]

UsersOf(M) == {m \in M: m.role = "user"}
OnlyUsersAreTurnless(M) == \A m \in M: m.role = "user" <=> m.turn = None

(* The oldest of some that are told apart by their times. *)
Lists(u, L, U) == U = {u[i]: i \in 1 .. L}
Aged(u, L) == \A i, j \in 1 .. L: i < j => u[i].at < u[j].at
Dated(U) == \A m \in U: m.at \in Nat /\ m.id \in Nat
OldestOf(U, n) == {m \in U: Cardinality({o \in U: Later(m, o)}) < n}

LEMMA Oldest ==
  ASSUME NEW L \in Nat, NEW u, Aged(u, L), NEW U, Lists(u, L, U), Dated(U),
         NEW n \in 0 .. L, NEW V, Lists(u, n, V)
  PROVE  OldestOf(U, n) = V /\ Cardinality(V) = n
<1> USE DEF Lists, Aged, Dated
<1>1. \A i, j \in 1 .. L: u[i] = u[j] => i = j
  <2> SUFFICES ASSUME NEW i \in 1 .. L, NEW j \in 1 .. L, u[i] = u[j], i # j PROVE FALSE
    OBVIOUS
  <2>1. u[i] \in U  OBVIOUS
  <2>2. u[i].at \in Nat  BY <2>1
  <2>3. i < j \/ j < i  OBVIOUS
  <2> QED  BY <2>2, <2>3
<1>2. ASSUME NEW k \in 0 .. L  PROVE Cardinality({u[i]: i \in 1 .. k}) = k
  <2>1. \A i, j \in 1 .. k: u[i] = u[j] => i = j  BY <1>1
  <2>2. k \in Nat  OBVIOUS
  <2>3. PICK S: S = {u[i]: i \in 1 .. k}  OBVIOUS
  <2>4. Cardinality(S) = k  BY <2>1, <2>2, <2>3, Counting
  <2> QED  BY <2>3, <2>4
<1>3. ASSUME NEW k \in 1 .. L
      PROVE  /\ {o \in U: Later(u[k], o)} = {u[i]: i \in 1 .. k - 1}
             /\ Cardinality({o \in U: Later(u[k], o)}) = k - 1
  <2>1. u[k] \in U  OBVIOUS
  <2>2. ASSUME NEW j \in 1 .. L  PROVE Later(u[k], u[j]) <=> j < k
    <3>1. u[j] \in U  OBVIOUS
    <3>2. /\ u[k].at \in Nat /\ u[k].id \in Nat
          /\ u[j].at \in Nat /\ u[j].id \in Nat  BY <2>1, <3>1
    <3>3. CASE j < k  BY <3>2, <3>3 DEF Later
    <3>4. CASE j = k  BY <3>2, <3>4 DEF Later
    <3>5. CASE k < j  BY <3>2, <3>5 DEF Later
    <3> QED  BY <3>3, <3>4, <3>5
  <2>3. {o \in U: Later(u[k], o)} = {u[i]: i \in 1 .. k - 1}
    <3>1. \A i \in 1 .. k - 1: i \in 1 .. L /\ i < k  OBVIOUS
    <3>2. \A i \in 1 .. L: i < k => i \in 1 .. k - 1  OBVIOUS
    <3> QED  BY <2>2, <3>1, <3>2
  <2>4. k - 1 \in 0 .. L  OBVIOUS
  <2> QED  BY <1>2, <2>3, <2>4
<1>4. {m \in U: Cardinality({o \in U: Later(m, o)}) < n} = {u[i]: i \in 1 .. n}
  <2>1. \A i \in 1 .. L: Cardinality({o \in U: Later(u[i], o)}) < n <=> i \in 1 .. n
    <3> SUFFICES ASSUME NEW i \in 1 .. L
                 PROVE  Cardinality({o \in U: Later(u[i], o)}) < n <=> i \in 1 .. n
      OBVIOUS
    <3>1. Cardinality({o \in U: Later(u[i], o)}) = i - 1  BY <1>3
    <3>2. i - 1 < n <=> i \in 1 .. n  OBVIOUS
    <3> QED  BY <3>1, <3>2
  <2>2. \A i \in 1 .. n: i \in 1 .. L  OBVIOUS
  <2> DEFINE Early(m) == Cardinality({o \in U: Later(m, o)}) < n
  <2>3. \A i \in 1 .. L: Early(u[i]) <=> i \in 1 .. n  BY <2>1
  <2>4. {m \in U: Early(m)} = {u[i]: i \in 1 .. n}
    <3> HIDE DEF Early
    <3> QED  BY <2>2, <2>3
  <2> QED  BY <2>4
<1> QED  BY <1>2, <1>4 DEF OldestOf

(* A reverted thread keeps the messages of the turns it keeps: those it       *)
(* retains for their turns, and the user messages, which have none, by number *)
(* or because their turn owns them.                                           *)
MessagesOf(M, V, K) == V \union {m \in M: m.turn \in K}

LEMMA Retaining ==
  ASSUME NEW s \in Seq(Message), NEW M, M = ToSet(s), OnlyUsersAreTurnless(M),
         NEW K, K \subseteq Turns, NEW n \in Nat, NEW U, U = UsersOf(M),
         NEW V, V = OldestOf(U, n)
  PROVE  ToSet(RetainMessages(s, K, n)) = MessagesOf(M, V, K)
<1> USE DEF UsersOf, OnlyUsersAreTurnless
<1>1. None \notin K
  <2>1. \A t \in Turns: t \in Nat  BY BoundsAssumption DEF Turns
  <2> QED  BY <2>1, ValuesAssumption
<1>2. \A m \in M: m.role \in {"user", "assistant"} /\ m \in Message
  <2>1. \A m \in M: m \in Message
    <3>1. DOMAIN s = 1 .. Len(s) /\ \A i \in 1 .. Len(s): s[i] \in Message  OBVIOUS
    <3> QED  BY <3>1 DEF ToSet
  <2>2. \A m \in Message: m.role \in {"user", "assistant"}  BY DEF Message
  <2> QED  BY <2>1, <2>2
<1>3. PICK kept: kept = {m \in ToSet(s): m.role = "system" \/ m.turn \in K}  OBVIOUS
<1>4. kept = {m \in M: m.turn \in K}  BY <1>2, <1>3
<1>5. {m \in kept: m.role = "user"} = {} /\ {m \in M \ kept: m.role = "user"} = U
  BY <1>1, <1>4
<1>6. Cardinality({m \in kept: m.role = "user"}) = 0  BY <1>5, FS_EmptySet
<1>7. Fallback(s, kept, "user", K, n) = V
  <2>1. PICK C: C = {m \in {x \in ToSet(s) \ kept: x.role = "user"}:
                       m.turn = None \/ m.turn \in K}  OBVIOUS
  <2>2. C = U  BY <1>5, <2>1
  <2>3. PICK k: k = n - Cardinality({m \in kept: m.role = "user"})  OBVIOUS
  <2>4. k = n  BY <1>6, <2>3
  <2>5. Fallback(s, kept, "user", K, n) = OldestOf(C, k)
    BY <2>1, <2>3 DEF Fallback, OldestOf
  <2> QED  BY <2>2, <2>4, <2>5
<1>8. PICK users: users = kept \union V  OBVIOUS
<1>9. Fallback(s, users, "assistant", K, n) = {}
  <2>1. {m \in {x \in ToSet(s) \ users: x.role = "assistant"}:
           m.turn = None \/ m.turn \in K} = {}
    BY <1>4, <1>8
  <2> QED  BY <2>1 DEF Fallback
<1>10. RetainMessages(s, K, n) = Select(s, users)
  BY <1>3, <1>7, <1>8, <1>9 DEF RetainMessages, WithFallbacks
<1>11. ToSet(Select(s, users)) = ToSet(s) \intersect users  BY SelectTyped
<1>12. V \subseteq M  BY DEF OldestOf
<1> QED  BY <1>4, <1>8, <1>10, <1>11, <1>12 DEF MessagesOf

LEMMA RetainingOwned ==
  ASSUME NEW U, NEW s \in Seq(U), NEW M, M = ToSet(s), M \subseteq Message,
         OnlyUsersAreTurnless(M), NEW K, K \subseteq Turns, NEW n \in Nat,
         NEW V, V \subseteq UsersOf(M), Cardinality(V) = n,
         NEW C, C = UsersOf(M) \ V, IsFiniteSet(C),
         NEW kept, kept = MessagesOf(M, V, K)
  PROVE  ToSet(WithFallbacks(s, kept, K, n)) = kept
<1> USE DEF UsersOf, OnlyUsersAreTurnless
<1>1. None \notin K
  <2>1. \A t \in Turns: t \in Nat  BY BoundsAssumption DEF Turns
  <2> QED  BY <2>1, ValuesAssumption
<1>2. {m \in kept: m.role = "user"} = V  BY <1>1 DEF MessagesOf
<1>3. Fallback(s, kept, "user", K, n) = {}
  <2>1. PICK D: D = {m \in {x \in ToSet(s) \ kept: x.role = "user"}:
                       m.turn = None \/ m.turn \in K}  OBVIOUS
  <2>2. D = C  BY <1>1, <2>1 DEF MessagesOf
  <2>3. PICK k: k = n - Cardinality({m \in kept: m.role = "user"})  OBVIOUS
  <2>4. k = 0
    <3>1. Cardinality({m \in kept: m.role = "user"}) = n  BY <1>2
    <3> QED  BY <2>3, <3>1
  <2>5. Fallback(s, kept, "user", K, n)
          = {m \in D: Cardinality({o \in D: Later(m, o)}) < k}
    BY <2>1, <2>3 DEF Fallback
  <2>6. ASSUME NEW m \in C  PROVE ~ (Cardinality({o \in C: Later(m, o)}) < 0)
    <3>1. PICK L: L = {o \in C: Later(m, o)}  OBVIOUS
    <3>2. L \subseteq C  BY <3>1
    <3>3. Cardinality(L) \in Nat  BY <3>2, FS_Subset, FS_CardinalityType
    <3> QED  BY <3>1, <3>3
  <2> DEFINE Early(m) == Cardinality({o \in C: Later(m, o)}) < 0
  <2>7. {m \in C: Early(m)} = {}
    <3>1. \A m \in C: ~Early(m)  BY <2>6
    <3> HIDE DEF Early
    <3> QED  BY <3>1
  <2> QED  BY <2>2, <2>4, <2>5, <2>7
<1>4. Fallback(s, kept, "assistant", K, n) = {}
  <2>1. {m \in {x \in ToSet(s) \ kept: x.role = "assistant"}:
           m.turn = None \/ m.turn \in K} = {}
    BY DEF MessagesOf
  <2> QED  BY <2>1 DEF Fallback
<1>5. kept \union {} = kept  OBVIOUS
<1>6. WithFallbacks(s, kept, K, n) = Select(s, kept)
  BY <1>3, <1>4, <1>5 DEF WithFallbacks
<1>7. ToSet(Select(s, kept)) = ToSet(s) \intersect kept  BY SelectTyped
<1> QED  BY <1>6, <1>7 DEF MessagesOf

(********************* What is said, asked and owned ***********************)
Said(e) ==
  [id |-> e.id, role |-> e.role, text |-> e.text, turn |-> e.turn,
   streaming |-> e.streaming, at |-> e.at]

LEMMA KeepAll ==
  ASSUME NEW s, NEW n, Len(s) <= n  PROVE KeepLast(s, n) = s
BY DEF KeepLast

(* A message with a new id is the last of the list, while there is room. *)
LEMMA SaidThread ==
  ASSUME NEW t, IsThread(t), t.messages \in Seq(Message),
         MaxMessages \in Nat, Len(t.messages) < MaxMessages,
         NEW e \in UserMessages \union AssistantMessages,
         \A m \in ToSet(t.messages): m.id # e.id
  PROVE  /\ ProjectThread(t, e).messages = Append(t.messages, Said(e))
         /\ Said(e) \in Message
<1>1. /\ e.type = "thread.message-sent" /\ e.streaming = FALSE /\ e.text = <<>>
      /\ e.role \in {"user", "assistant"} /\ e.id \in Nat /\ e.at \in Nat
      /\ e.turn \in Turns \union {None}
  BY DEF UserMessages, AssistantMessages
<1>2. PICK m: m = Said(e)  OBVIOUS
<1>3. m \in Message  BY <1>1, <1>2 DEF Said, Message
<1>4. PICK ms: ms = t.messages  OBVIOUS
<1>5. PICK all: all = Append(ms, m)  OBVIOUS
<1>6. ~ \E i \in DOMAIN ms: ms[i].id = e.id
  <2>1. \A i \in DOMAIN ms: ms[i] \in ToSet(ms)  BY DEF ToSet
  <2> QED  BY <1>4, <2>1
<1>7. MessageSent(t, e) = [t EXCEPT !.messages = KeepLast(all, MaxMessages)]
  BY <1>2, <1>4, <1>5, <1>6 DEF MessageSent, Said
<1>8. KeepLast(all, MaxMessages) = all
  <2>1. Len(all) = Len(ms) + 1 /\ Len(ms) \in Nat  BY <1>3, <1>4, <1>5
  <2>2. Len(all) <= MaxMessages  BY <1>4, <2>1
  <2> QED  BY <2>2, KeepAll
<1>9. ProjectThread(t, e) = [t EXCEPT !.messages = all]
  BY <1>1, <1>7, <1>8 DEF ProjectThread
<1>10. PICK u: u = [t EXCEPT !.messages = all]  OBVIOUS
<1>11. u.messages = all  BY <1>10 DEF IsThread, ThreadFields
<1> QED  BY <1>2, <1>3, <1>4, <1>5, <1>9, <1>10, <1>11

LEMMA UntoldThread ==
  ASSUME NEW t, IsThread(t), NEW e \in Starts \union Requests \union SessionSets \union Diffs
  PROVE  ProjectThread(t, e).messages = t.messages
<1>1. CASE e \in Starts \union Requests
  <2>1. e.type \in {"thread.turn-start-requested", "thread.checkpoint-revert-requested"}
    BY <1>1 DEF Starts, Requests
  <2> QED  BY <2>1 DEF ProjectThread
<1>2. CASE e \in SessionSets
  <2>1. e.type = "thread.session-set"  BY <1>2 DEF SessionSets
  <2>2. PICK s, l: ProjectThread(t, e) = [t EXCEPT !.session = s, !.latestTurn = l]
    BY <2>1 DEF ProjectThread, SessionSet
  <2>3. PICK u: u = [t EXCEPT !.session = s, !.latestTurn = l]  OBVIOUS
  <2>4. u.messages = t.messages  BY <2>3 DEF IsThread, ThreadFields
  <2> QED  BY <2>2, <2>3, <2>4
<1>3. CASE e \in Diffs
  <2>1. e.type = "thread.turn-diff-completed"  BY <1>3 DEF Diffs
  <2>2. ProjectThread(t, e) = TurnDiffCompleted(t, e)  BY <2>1 DEF ProjectThread
  <2>3. TurnDiffCompleted(t, e) = t
          \/ \E c, l: TurnDiffCompleted(t, e) = [t EXCEPT !.checkpoints = c,
                                                         !.latestTurn = l]
    BY DEF TurnDiffCompleted
  <2>4. CASE TurnDiffCompleted(t, e) = t  BY <2>2, <2>4
  <2>5. CASE TurnDiffCompleted(t, e) # t
    <3>1. PICK c, l: TurnDiffCompleted(t, e) = [t EXCEPT !.checkpoints = c,
                                                        !.latestTurn = l]
      BY <2>3, <2>5
    <3>2. PICK u: u = [t EXCEPT !.checkpoints = c, !.latestTurn = l]  OBVIOUS
    <3>3. u.messages = t.messages  BY <3>2 DEF IsThread, ThreadFields
    <3> QED  BY <2>2, <3>1, <3>2, <3>3
  <2> QED  BY <2>4, <2>5
<1> QED  BY <1>1, <1>2, <1>3

(* A revert prunes the messages, and does not cut them further. *)
LEMMA PrunedThread ==
  ASSUME NEW t, IsThread(t), t.messages \in Seq(Message),
         MaxMessages \in Nat, Len(t.messages) <= MaxMessages, NEW e \in Reverts,
         NEW K, K = {c.turn: c \in {x \in ToSet(t.checkpoints): x.count <= e.count}}
  PROVE  /\ ProjectThread(t, e).messages = RetainMessages(t.messages, K, e.count)
         /\ RetainMessages(t.messages, K, e.count) \in Seq(Message)
         /\ Len(RetainMessages(t.messages, K, e.count)) <= Len(t.messages)
<1>1. e.type = "thread.reverted"  BY DEF Reverts
<1>2. ProjectThread(t, e) = Reverted(t, e)  BY <1>1 DEF ProjectThread
<1>3. PICK S: S = {c \in ToSet(t.checkpoints): c.count <= e.count}  OBVIOUS
<1>4. PICK ts: ts = t.checkpoints  OBVIOUS
<1>5. ts \in Seq(Checkpoint)  BY <1>4 DEF IsThread
<1>6. PICK cs: cs = Select(ts, S)  OBVIOUS
<1>7. cs \in Seq(Checkpoint) /\ ToSet(cs) = ToSet(ts) \intersect S
  BY <1>5, <1>6, SelectTyped
<1>8. {cs[i].turn: i \in DOMAIN cs} = K
  <2>1. ToSet(cs) = S  BY <1>3, <1>4, <1>7
  <2>2. {cs[i].turn: i \in DOMAIN cs} = {c.turn: c \in ToSet(cs)}  BY DEF ToSet
  <2> QED  BY <1>3, <2>1, <2>2
<1>9. PICK rs: rs = RetainMessages(t.messages, K, e.count)  OBVIOUS
<1>10. Reverted(t, e).messages = KeepLast(rs, MaxMessages)
  <2> DEFINE of == Select(t.checkpoints, {c \in ToSet(t.checkpoints): c.count <= e.count})
             turns == {of[i].turn: i \in DOMAIN of}
  <2>1. of = cs  BY <1>3, <1>4, <1>6
  <2>2. turns = K  BY <1>8, <2>1
  <2>3. PICK ms: ms = KeepLast(RetainMessages(t.messages, turns, e.count), MaxMessages)
    OBVIOUS
  <2>4. ms = KeepLast(rs, MaxMessages)
    <3> HIDE DEF turns
    <3> QED  BY <1>9, <2>2, <2>3
  <2>5. PICK c, p, a, l:
          Reverted(t, e) = [t EXCEPT !.checkpoints = c, !.messages = ms, !.plans = p,
                                     !.activities = a, !.latestTurn = l]
    BY <2>3, Zenon DEF Reverted
  <2>6. PICK u: u = [t EXCEPT !.checkpoints = c, !.messages = ms, !.plans = p,
                              !.activities = a, !.latestTurn = l]
    OBVIOUS
  <2>7. u.messages = ms  BY <2>6 DEF IsThread, ThreadFields
  <2> QED  BY <2>4, <2>5, <2>6, <2>7
<1>11. rs \in Seq(Message) /\ Len(rs) <= Len(t.messages)
  <2>1. PICK A: rs = Select(t.messages, A)
    BY <1>9 DEF RetainMessages, WithFallbacks
  <2> QED  BY <2>1, SelectTyped, SelectShorter
<1>12. KeepLast(rs, MaxMessages) = rs
  <2>1. Len(rs) <= MaxMessages  BY <1>11
  <2> QED  BY <2>1, KeepAll
<1> QED  BY <1>2, <1>9, <1>10, <1>11, <1>12

(* The row of a turn owns the turn's messages; the user's it may lack while *)
(* the turn start is pending.                                               *)
Rightly(r, t) ==
  \A x \in r.turns:
    /\ x.message \in {None, UserMessageOf(x.turn)}
    /\ x.message = None => x.turn = t /\ r.pending # NoPending
    /\ x.assistant \in {None, AssistantMessageOf(x.turn)}
HasRow(r, t) == r.pending # NoPending \/ \E x \in r.turns: x.turn = t

LEMMA SaidRows ==
  ASSUME NEW r, IsRows(r), NEW e \in UserMessages \union AssistantMessages,
         \A m \in r.messages: m.id # e.id
  PROVE  /\ ProjectRows(r, e).messages = r.messages \union {Said(e)}
         /\ ProjectRows(r, e).pending = r.pending
         /\ e \in UserMessages => ProjectRows(r, e).turns = r.turns
<1>1. /\ e.type = "thread.message-sent" /\ e.streaming = FALSE /\ e.text = <<>>
      /\ e \in UserMessages => e.role = "user"
  BY DEF UserMessages, AssistantMessages
<1>2. {m \in r.messages: m.id = e.id} = {}  OBVIOUS
<1>3. MessageRow(r, e) = Said(e)  BY <1>2 DEF MessageRow, Said
<1>4. UpsertRow(r.messages, Said(e)) = r.messages \union {Said(e)}
  <2>1. Said(e).id = e.id  BY DEF Said
  <2>2. {x \in r.messages: x.id # Said(e).id} = r.messages  BY <2>1
  <2> QED  BY <2>2 DEF UpsertRow
<1>5. PICK ms: ms = r.messages \union {Said(e)}  OBVIOUS
<1>6. PICK ts: ts = IF e.role = "assistant" /\ e.turn # None
                    THEN UpsertTurn(r.turns, MessageTurn(r, e)) ELSE r.turns
  OBVIOUS
<1>7. PICK u: u = [r EXCEPT !.messages = ms, !.turns = ts]  OBVIOUS
<1>8. ProjectRows(r, e) = u
  BY <1>1, <1>3, <1>4, <1>5, <1>6, <1>7 DEF ProjectRows, ProjectMessage
<1>9. u.messages = ms /\ u.turns = ts /\ u.pending = r.pending
  BY <1>7 DEF IsRows, RowFields
<1> QED  BY <1>1, <1>5, <1>6, <1>8, <1>9

LEMMA TurnRowOwner ==
  ASSUME NEW r, NEW t, NEW at, NEW o, o = TurnRow(r, t, at)
  PROVE  /\ o.turn = t
         /\ o \in r.turns \/ (o.message = None /\ o.assistant = None
                                /\ \A x \in r.turns: x.turn # t)
<1>1. CASE \E x \in r.turns: x.turn = t
  <2>1. PICK x: x = CHOOSE y \in r.turns: y.turn = t  OBVIOUS
  <2>2. x \in r.turns /\ x.turn = t  BY <1>1, <2>1
  <2>3. TurnRow(r, t, at) = x  BY <1>1, <2>1 DEF TurnRow
  <2> QED  BY <2>2, <2>3
<1>2. CASE ~ \E x \in r.turns: x.turn = t  BY <1>2 DEF TurnRow
<1> QED  BY <1>1, <1>2

(* A turn's row is rewritten for the assistant; of the others the checkpoint *)
(* may be.                                                                   *)
LEMMA RewritingOwner ==
  ASSUME NEW r, NEW t, NEW at, Rightly(r, t), HasRow(r, t),
         NEW o, o = TurnRow(r, t, at),
         NEW q, q.turn = o.turn, q.message = o.message,
         q.assistant \in {o.assistant, AssistantMessageOf(t)},
         NEW T, \A y \in T: \E x \in r.turns:
                  x.turn = y.turn /\ x.message = y.message /\ x.assistant = y.assistant,
         NEW u, u.turns = UpsertTurn(T, q), u.pending = r.pending
  PROVE  Rightly(u, t) /\ HasRow(u, t)
<1>1. o.turn = t /\ (o \in r.turns \/ (o.message = None /\ o.assistant = None
                                         /\ \A x \in r.turns: x.turn # t))
  BY TurnRowOwner
<1>2. \A y \in u.turns: y = q \/ y \in T  BY DEF UpsertTurn
<1>3. q \in u.turns  BY DEF UpsertTurn
<1>4. /\ q.message \in {None, UserMessageOf(t)}
      /\ q.message = None => u.pending # NoPending
      /\ q.assistant \in {None, AssistantMessageOf(t)}
  BY <1>1 DEF Rightly, HasRow
<1>5. Rightly(u, t)
  <2> SUFFICES ASSUME NEW y \in u.turns
               PROVE  /\ y.message \in {None, UserMessageOf(y.turn)}
                      /\ y.message = None => y.turn = t /\ u.pending # NoPending
                      /\ y.assistant \in {None, AssistantMessageOf(y.turn)}
    BY DEF Rightly
  <2>1. CASE y = q  BY <1>1, <1>4, <2>1
  <2>2. CASE y \in T
    <3>1. PICK x \in r.turns:
             x.turn = y.turn /\ x.message = y.message /\ x.assistant = y.assistant
      BY <2>2
    <3> QED  BY <3>1 DEF Rightly
  <2> QED  BY <1>2, <2>1, <2>2
<1> QED  BY <1>1, <1>3, <1>5 DEF HasRow

LEMMA SaidOwner ==
  ASSUME NEW r, IsRows(r), NEW e \in AssistantMessages,
         e.id = AssistantMessageOf(e.turn), Rightly(r, e.turn), HasRow(r, e.turn)
  PROVE  Rightly(ProjectRows(r, e), e.turn) /\ HasRow(ProjectRows(r, e), e.turn)
<1>1. /\ e.type = "thread.message-sent" /\ e.role = "assistant" /\ e.streaming = FALSE
      /\ e.turn \in Turns
  BY DEF AssistantMessages
<1>2. e.turn # None  BY <1>1, ValuesAssumption DEF Turns
<1>3. PICK t: t = e.turn  OBVIOUS
<1>4. PICK o: o = TurnRow(r, t, e.at)  OBVIOUS
<1>5. PICK q: q = [o EXCEPT !.assistant = e.id,
                            !.state = IF @ \in {"interrupted", "error"} THEN @
                                      ELSE "completed"]
  OBVIOUS
<1>6. MessageTurn(r, e) = q  BY <1>1, <1>3, <1>4, <1>5 DEF MessageTurn
<1>7. e.at \in Nat  BY DEF AssistantMessages
<1>8. o \in TurnRecord  BY <1>1, <1>3, <1>4, <1>7, TurnRowTyped
<1>9. q.turn = o.turn /\ q.message = o.message /\ q.assistant = AssistantMessageOf(t)
  BY <1>3, <1>5, <1>8 DEF TurnRecord
<1>10. PICK ts: ts = UpsertTurn(r.turns, q)  OBVIOUS
<1>11. PICK ms: ms = UpsertRow(r.messages, MessageRow(r, e))  OBVIOUS
<1>12. PICK u: u = [r EXCEPT !.messages = ms, !.turns = ts]  OBVIOUS
<1>13. ProjectRows(r, e) = u
  BY <1>1, <1>2, <1>6, <1>10, <1>11, <1>12 DEF ProjectRows, ProjectMessage
<1>14. u.turns = ts /\ u.pending = r.pending  BY <1>12 DEF IsRows, RowFields
<1>15. PICK T: T = r.turns  OBVIOUS
<1>16. u.turns = UpsertTurn(T, q)  BY <1>10, <1>14, <1>15
<1>17. Rightly(u, t) /\ HasRow(u, t)
  BY <1>3, <1>4, <1>9, <1>14, <1>15, <1>16, RewritingOwner
<1> QED  BY <1>3, <1>13, <1>17

LEMMA DiffOwner ==
  ASSUME NEW r, IsRows(r), NEW e \in Diffs,
         e.assistant = AssistantMessageOf(e.turn), Rightly(r, e.turn), HasRow(r, e.turn)
  PROVE  /\ Rightly(ProjectRows(r, e), e.turn) /\ HasRow(ProjectRows(r, e), e.turn)
         /\ ProjectRows(r, e).messages = r.messages
         /\ ProjectRows(r, e).pending = r.pending
<1>1. /\ e.type = "thread.turn-diff-completed" /\ e.turn \in Turns /\ e.at \in Nat
      /\ e.count \in Nat
  BY DEF Diffs
<1>2. PICK t: t = e.turn  OBVIOUS
<1>3. PICK o: o = TurnRow(r, t, e.at)  OBVIOUS
<1>4. o \in TurnRecord  BY <1>1, <1>2, <1>3, TurnRowTyped
<1>5. PICK st: st = IF e.status = "error" THEN "error" ELSE "completed"  OBVIOUS
<1>6. PICK q: q = [o EXCEPT !.assistant = e.assistant, !.state = st, !.count = e.count,
                            !.ref = e.ref, !.status = e.status]  OBVIOUS
<1>7. DiffTurn(r, e) = q  BY <1>2, <1>3, <1>5, <1>6 DEF DiffTurn
<1>8. q.turn = o.turn /\ q.message = o.message /\ q.assistant = AssistantMessageOf(t)
  BY <1>2, <1>4, <1>6 DEF TurnRecord
<1>9. PICK T: T = ClearConflict(r.turns, t, e.count)  OBVIOUS
<1>10. \A y \in T: \E x \in r.turns:
          x.turn = y.turn /\ x.message = y.message /\ x.assistant = y.assistant
  <2> SUFFICES ASSUME NEW y \in T
               PROVE  \E x \in r.turns:
                        x.turn = y.turn /\ x.message = y.message /\ x.assistant = y.assistant
    OBVIOUS
  <2>1. PICK x \in r.turns:
           y = x \/ y = [x EXCEPT !.count = None, !.ref = None, !.status = None]
    BY <1>9 DEF ClearConflict
  <2>2. x \in TurnRecord  BY DEF IsRows, AreTurns
  <2>3. x.turn = y.turn /\ x.message = y.message /\ x.assistant = y.assistant
    BY <2>1, <2>2 DEF TurnRecord
  <2> QED  BY <2>3
<1>11. PICK ts: ts = UpsertTurn(T, q)  OBVIOUS
<1>12. PICK u: u = [r EXCEPT !.turns = ts]  OBVIOUS
<1>13. ProjectRows(r, e) = u
  BY <1>1, <1>2, <1>7, <1>9, <1>11, <1>12 DEF ProjectRows, ProjectDiff
<1>14. u.turns = ts /\ u.pending = r.pending /\ u.messages = r.messages
  BY <1>12 DEF IsRows, RowFields
<1>15. u.turns = UpsertTurn(T, q)  BY <1>11, <1>14
<1>16. Rightly(u, t) /\ HasRow(u, t)
  BY <1>2, <1>3, <1>8, <1>10, <1>14, <1>15, RewritingOwner
<1> QED  BY <1>2, <1>13, <1>14, <1>16

(* A running session gives the turn the message of the pending turn start. *)
LEMMA SessionOwner ==
  ASSUME NEW r, IsRows(r), NEW e \in SessionSets, e.status = "running", e.turn # None,
         Rightly(r, e.turn), HasRow(r, e.turn),
         r.pending # NoPending => r.pending.message = UserMessageOf(e.turn)
  PROVE  /\ Rightly(ProjectRows(r, e), e.turn) /\ HasRow(ProjectRows(r, e), e.turn)
         /\ ProjectRows(r, e).messages = r.messages
         /\ ProjectRows(r, e).pending = NoPending
<1>1. /\ e.type = "thread.session-set" /\ e.at \in Nat /\ e.turn \in Turns
  BY DEF SessionSets
<1>2. PICK t: t = e.turn  OBVIOUS
<1>3. PICK at: at = IF r.pending = NoPending THEN e.at ELSE r.pending.at  OBVIOUS
<1>4. at \in Nat  BY <1>1, <1>3 DEF IsRows
<1>5. PICK o: o = TurnRow(r, t, at)  OBVIOUS
<1>6. o \in TurnRecord  BY <1>1, <1>2, <1>4, <1>5, TurnRowTyped
<1>7. PICK ms: ms = IF o.message = None THEN r.pending.message ELSE o.message  OBVIOUS
<1>8. PICK st: st = IF o.state \in {"completed", "error"} THEN o.state ELSE "running"
  OBVIOUS
<1>9. PICK q: q = [o EXCEPT !.message = ms, !.state = st]  OBVIOUS
<1>10. RunningTurn(r, e) = q  BY <1>2, <1>3, <1>5, <1>7, <1>8, <1>9 DEF RunningTurn
<1>11. q.turn = o.turn /\ q.message = ms /\ q.assistant = o.assistant
  BY <1>6, <1>9 DEF TurnRecord
<1>12. o.turn = t /\ (o \in r.turns \/ (o.message = None /\ o.assistant = None
                                          /\ \A x \in r.turns: x.turn # t))
  BY <1>5, TurnRowOwner
<1>13. o.message \in {None, UserMessageOf(t)} /\ (o.message = None => r.pending # NoPending)
       /\ o.assistant \in {None, AssistantMessageOf(t)}
  BY <1>2, <1>12 DEF Rightly, HasRow
<1>14. ms = UserMessageOf(t) /\ ms # None
  <2>1. UserMessageOf(t) \in Nat
    BY <1>1, <1>2, BoundsAssumption DEF UserMessageOf, Turns
  <2>2. UserMessageOf(t) # None  BY <2>1, ValuesAssumption
  <2> QED  BY <1>2, <1>7, <1>13, <2>2
<1>15. PICK s: s = [status |-> e.status, turn |-> e.turn]  OBVIOUS
<1>16. PICK ts: ts = UpsertTurn(r.turns, q)  OBVIOUS
<1>17. PICK u: u = [r EXCEPT !.session = s, !.turns = ts, !.pending = NoPending]  OBVIOUS
<1>18. ProjectRows(r, e) = u
  BY <1>1, <1>10, <1>15, <1>16, <1>17 DEF ProjectRows, ProjectSession
<1>19. u.turns = ts /\ u.pending = NoPending /\ u.messages = r.messages
  BY <1>17 DEF IsRows, RowFields
<1>20. \A y \in ts: y = q \/ (y \in r.turns /\ y.turn # t)
  BY <1>11, <1>12, <1>16 DEF UpsertTurn
<1>21. q \in ts  BY <1>16 DEF UpsertTurn
<1>22. Rightly(u, t)
  <2> SUFFICES ASSUME NEW y \in ts
               PROVE  /\ y.message \in {None, UserMessageOf(y.turn)}
                      /\ y.message # None
                      /\ y.assistant \in {None, AssistantMessageOf(y.turn)}
    BY <1>19 DEF Rightly
  <2>1. CASE y = q  BY <1>11, <1>12, <1>13, <1>14, <2>1
  <2>2. CASE y \in r.turns /\ y.turn # t  BY <1>2, <2>2 DEF Rightly
  <2> QED  BY <1>20, <2>1, <2>2
<1>23. HasRow(u, t)  BY <1>11, <1>12, <1>19, <1>21 DEF HasRow
<1> QED  BY <1>2, <1>18, <1>19, <1>22, <1>23

LEMMA UntoldRows ==
  ASSUME NEW r, IsRows(r),
         NEW e \in Requests \union {s \in SessionSets: s.status # "running" \/ s.turn = None}
  PROVE  /\ ProjectRows(r, e).messages = r.messages
         /\ ProjectRows(r, e).turns = r.turns
         /\ ProjectRows(r, e).pending = r.pending
<1>1. CASE e \in Requests
  <2>1. e.type = "thread.checkpoint-revert-requested"  BY <1>1 DEF Requests
  <2>2. ProjectRows(r, e) = r  BY <2>1 DEF ProjectRows
  <2> QED  BY <2>2
<1>2. CASE e \in SessionSets /\ ~ (e.status = "running" /\ e.turn # None)
  <2>1. e.type = "thread.session-set"  BY <1>2 DEF SessionSets
  <2>2. PICK s: s = [status |-> e.status, turn |-> e.turn]  OBVIOUS
  <2>3. PICK u: u = [r EXCEPT !.session = s, !.turns = r.turns, !.pending = r.pending]
    OBVIOUS
  <2>4. ProjectRows(r, e) = u
    BY <1>2, <2>1, <2>2, <2>3 DEF ProjectRows, ProjectSession
  <2>5. u.messages = r.messages /\ u.turns = r.turns /\ u.pending = r.pending
    BY <2>3 DEF IsRows, RowFields
  <2> QED  BY <2>4, <2>5
<1> QED  BY <1>1, <1>2

LEMMA StartRows ==
  ASSUME NEW r, IsRows(r), NEW e \in Starts
  PROVE  /\ ProjectRows(r, e).messages = r.messages
         /\ ProjectRows(r, e).turns = r.turns
         /\ ProjectRows(r, e).pending # NoPending
         /\ ProjectRows(r, e).pending.message = e.id
<1>1. e.type = "thread.turn-start-requested" /\ e.id \in Nat  BY DEF Starts
<1>2. PICK p: p = [message |-> e.id, at |-> e.at]  OBVIOUS
<1>3. PICK u: u = [r EXCEPT !.pending = p]  OBVIOUS
<1>4. ProjectRows(r, e) = u  BY <1>1, <1>2, <1>3 DEF ProjectRows
<1>5. u.messages = r.messages /\ u.turns = r.turns /\ u.pending = p
  BY <1>3 DEF IsRows, RowFields
<1>6. p.message = e.id /\ NoPending.message = None /\ e.id # None
  BY <1>1, <1>2, ValuesAssumption DEF NoPending
<1> QED  BY <1>4, <1>5, <1>6

LEMMA PrunedRows ==
  ASSUME NEW r, IsRows(r), NEW e \in Reverts
  PROVE  /\ ProjectRows(r, e).messages = RetainRows(r, e.count)
         /\ ProjectRows(r, e).turns = KeptTurns(r, e.count)
         /\ ProjectRows(r, e).pending = NoPending
<1>1. e.type = "thread.reverted"  BY DEF Reverts
<1>2. PICK ts: ts = KeptTurns(r, e.count)  OBVIOUS
<1>3. PICK ms: ms = RetainRows(r, e.count)  OBVIOUS
<1>4. PICK p, a: ProjectRevert(r, e)
        = [r EXCEPT !.messages = ms, !.plans = p, !.activities = a, !.turns = ts,
                    !.pending = NoPending]
  BY <1>2, <1>3 DEF ProjectRevert
<1>5. PICK u: u = [r EXCEPT !.messages = ms, !.plans = p, !.activities = a, !.turns = ts,
                            !.pending = NoPending]
  OBVIOUS
<1>6. ProjectRows(r, e) = u  BY <1>1, <1>4, <1>5 DEF ProjectRows
<1>7. u.messages = ms /\ u.turns = ts /\ u.pending = NoPending
  BY <1>5 DEF IsRows, RowFields
<1> QED  BY <1>2, <1>3, <1>6, <1>7

LEMMA FiniteList ==
  ASSUME NEW U, NEW s \in Seq(U)  PROVE IsFiniteSet(ToSet(s))
<1>1. PICK D: D = 1 .. Len(s)  OBVIOUS
<1>2. IsFiniteSet(D)
  <2>1. 1 \in Int /\ Len(s) \in Int  OBVIOUS
  <2> QED  BY <1>1, <2>1, FS_Interval
<1>3. s \in [D -> ToSet(s)] /\ DOMAIN s = D
  <2>1. DOMAIN s = D /\ s = [i \in D |-> s[i]]  BY <1>1
  <2>2. \A i \in D: s[i] \in ToSet(s)  BY <2>1 DEF ToSet
  <2> QED  BY <2>1, <2>2
<1>4. \A x \in ToSet(s): \E i \in D: s[i] = x  BY <1>3 DEF ToSet
<1>5. s \in Surjection(D, ToSet(s))  BY <1>3, <1>4 DEF Surjection
<1> QED  BY <1>2, <1>5, FS_Surjection

(* The user messages of M are those of the turns c[1], ..., c[L], in order. *)
OwnedByTurns(M) ==
  \A m \in M: \/ m.role = "user" /\ m.turn = None
              \/ m.role = "assistant" /\ m.turn # None
                   /\ m.id = AssistantMessageOf(m.turn)
ByTime(M) ==
  /\ \A m, o \in M: m.id = o.id => m = o
  /\ \A m, o \in UsersOf(M): m.id < o.id => m.at < o.at
OnePerTurn(M, c, L) ==
  /\ \A i \in 1 .. L: c[i] \in Turns
  /\ \A i, j \in 1 .. L: i < j => c[i] < c[j]
  /\ \A m \in UsersOf(M): \E i \in 1 .. L: m.id = UserMessageOf(c[i])
  /\ \A i \in 1 .. L: \E m \in UsersOf(M): m.id = UserMessageOf(c[i])

UsersFor(M, K) == {m \in UsersOf(M): \E k \in K: m.id = UserMessageOf(k)}
TurnsKept(r, n) == {x.turn: x \in KeptTurns(r, n)}

(* Both prune to the messages of the turns they keep. *)
LEMMA PrunedAlike ==
  ASSUME NEW s \in Seq(Message), NEW M, M = ToSet(s),
         NEW r, IsRows(r), r.messages = M,
         NEW L \in Nat, NEW c, OwnedByTurns(M), ByTime(M), OnePerTurn(M, c, L),
         NEW n \in 0 .. L, NEW t, Rightly(r, t), r.pending = NoPending,
         NEW K, Lists(c, n, K), TurnsKept(r, n) = K,
         NEW V, V = UsersFor(M, K)
  PROVE  /\ ToSet(RetainMessages(s, K, n)) = MessagesOf(M, V, K)
         /\ RetainRows(r, n) = MessagesOf(M, V, K)
<1>1. M \subseteq Message
  <2>1. DOMAIN s = 1 .. Len(s) /\ \A i \in 1 .. Len(s): s[i] \in Message  OBVIOUS
  <2> QED  BY <2>1 DEF ToSet
<1>2. \A m \in M: /\ m.id \in Nat /\ m.at \in Nat /\ m.role \in {"user", "assistant"}
                  /\ m.turn \in Turns \union {None}
  BY <1>1 DEF Message
<1>3. /\ K \subseteq Turns /\ n \in Nat /\ \A k \in Turns: k \in Nat
      /\ \A i \in 1 .. n: i \in 1 .. L
      /\ \A i \in 1 .. L: c[i] \in Nat
  BY BoundsAssumption DEF Turns, Lists, OnePerTurn
<1>4. PICK U: U = UsersOf(M)  OBVIOUS
<1>5. PICK u: u = [i \in 1 .. L |-> CHOOSE m \in U: m.id = UserMessageOf(c[i])]  OBVIOUS
<1>6. \A i \in 1 .. L: u[i] \in U /\ u[i].id = UserMessageOf(c[i])
  BY <1>4, <1>5 DEF OnePerTurn
<1>7. U = {u[i]: i \in 1 .. L}
  <2>1. ASSUME NEW m \in U  PROVE \E i \in 1 .. L: m = u[i]
    <3>1. PICK i \in 1 .. L: m.id = UserMessageOf(c[i])  BY <1>4 DEF OnePerTurn
    <3>2. m.id = u[i].id /\ m \in M /\ u[i] \in M  BY <1>4, <1>6, <3>1 DEF UsersOf
    <3> QED  BY <3>2 DEF ByTime
  <2> QED  BY <1>6, <2>1
<1>8. \A i, j \in 1 .. L: i < j => u[i].at < u[j].at
  <2> SUFFICES ASSUME NEW i \in 1 .. L, NEW j \in 1 .. L, i < j
               PROVE  u[i].at < u[j].at
    OBVIOUS
  <2>1. c[i] < c[j] /\ c[i] \in Nat /\ c[j] \in Nat  BY <1>3 DEF OnePerTurn
  <2>2. u[i].id < u[j].id  BY <1>6, <2>1 DEF UserMessageOf
  <2> QED  BY <1>4, <1>6, <2>2 DEF ByTime
<1>9. V = {u[i]: i \in 1 .. n}
  <2>1. ASSUME NEW m \in V  PROVE \E i \in 1 .. n: m = u[i]
    <3>1. PICK k \in K: m.id = UserMessageOf(k)  BY DEF UsersFor
    <3>2. PICK i \in 1 .. n: k = c[i]  BY DEF Lists
    <3>3. m.id = u[i].id /\ m \in M /\ u[i] \in M
      BY <1>4, <1>3, <1>6, <3>1, <3>2 DEF UsersFor, UsersOf
    <3> QED  BY <3>3 DEF ByTime
  <2>2. ASSUME NEW i \in 1 .. n  PROVE u[i] \in V
    <3>1. c[i] \in K /\ u[i] \in U /\ u[i].id = UserMessageOf(c[i])
      BY <1>3, <1>6 DEF Lists
    <3> QED  BY <1>4, <3>1 DEF UsersFor
  <2> QED  BY <2>1, <2>2
<1>10. \A m \in U: m.at \in Nat /\ m.id \in Nat  BY <1>4, <1>2 DEF UsersOf
<1>11. Lists(u, L, U) /\ Aged(u, L) /\ Lists(u, n, V) /\ Dated(U)
  BY <1>7, <1>8, <1>9, <1>10 DEF Lists, Aged, Dated
<1>12. V = OldestOf(U, n) /\ Cardinality(V) = n  BY <1>11, Oldest
<1>13. OnlyUsersAreTurnless(M)  BY DEF OnlyUsersAreTurnless, OwnedByTurns
<1>14. ToSet(RetainMessages(s, K, n)) = MessagesOf(M, V, K)
  BY <1>4, <1>3, <1>12, <1>13, Retaining
<1>15. PICK kept: kept = KeptTurns(r, n)  OBVIOUS
<1>16. PICK owned: owned = {x.message: x \in kept} \union {x.assistant: x \in kept}  OBVIOUS
<1>17. PICK first: first = {m \in M: \/ m.id \in owned
                                     \/ m.role = "system"
                                     \/ m.turn # None /\ m.turn \in K}  OBVIOUS
<1>18. \A x \in kept: /\ x.turn \in K /\ x.turn \in Nat /\ x.message = UserMessageOf(x.turn)
                      /\ x.assistant \in {None, AssistantMessageOf(x.turn)}
  <2>1. kept \subseteq r.turns  BY <1>15 DEF KeptTurns
  <2>2. \A x \in kept: x.turn \in K  BY <1>15 DEF TurnsKept
  <2> QED  BY <1>3, <2>1, <2>2 DEF Rightly
<1>19. \A k \in K: \E x \in kept: x.turn = k
  <2>1. K = {x.turn: x \in kept}  BY <1>15 DEF TurnsKept
  <2> QED  BY <2>1
<1>20. None \notin K /\ None \notin Nat  BY <1>3, ValuesAssumption
<1>21. \A m \in M: m \in first <=> m \in V \/ m.turn \in K
  <2> SUFFICES ASSUME NEW m \in M  PROVE m \in first <=> m \in V \/ m.turn \in K
    OBVIOUS
  <2>1. m.role # "system" /\ m.id \in Nat  BY <1>2
  <2>2. CASE m.role = "user"
    <3>1. m \in U /\ m.turn = None  BY <1>4, <1>13, <2>2 DEF UsersOf, OnlyUsersAreTurnless
    <3>2. PICK i \in 1 .. L: m.id = UserMessageOf(c[i])  BY <1>4, <3>1 DEF OnePerTurn
    <3>3. c[i] \in Nat  BY <1>3
    <3>4. \A x \in kept: x.message = m.id <=> x.turn = c[i]
      BY <1>18, <3>2, <3>3 DEF UserMessageOf
    <3>5. \A x \in kept: x.assistant # m.id
      <4> SUFFICES ASSUME NEW x \in kept, x.assistant = m.id PROVE FALSE  OBVIOUS
      <4>1. m.id = AssistantMessageOf(x.turn) /\ x.turn \in Nat  BY <1>18, <1>20, <2>1
      <4>2. m.id = 2 * c[i] /\ m.id = 2 * x.turn + 1
        BY <3>2, <4>1 DEF UserMessageOf, AssistantMessageOf
      <4> QED  BY <3>3, <4>1, <4>2
    <3>6. m.id \in owned <=> \E x \in kept: x.turn = c[i]  BY <1>16, <3>4, <3>5
    <3>7. m.id \in owned <=> c[i] \in K  BY <1>18, <1>19, <3>6
    <3>8. \A k \in K: m.id = UserMessageOf(k) <=> k = c[i]
      <4>1. PICK a \in Nat: a = c[i]  BY <3>3
      <4>2. \A k \in K: k \in Nat  BY <1>3
      <4>3. \A k \in Nat: 2 * a = 2 * k <=> k = a  OBVIOUS
      <4> QED  BY <3>2, <4>1, <4>2, <4>3 DEF UserMessageOf
    <3>9. m \in V <=> c[i] \in K  BY <1>4, <3>1, <3>2, <3>8 DEF UsersFor
    <3> QED  BY <1>17, <1>20, <2>1, <3>1, <3>7, <3>9
  <2>3. CASE m.role = "assistant"
    <3>1. m \notin U /\ m.turn # None /\ m.id = AssistantMessageOf(m.turn) /\ m.turn \in Nat
      BY <1>4, <1>2, <1>3, <2>3 DEF UsersOf, OwnedByTurns
    <3>2. \A x \in kept: x.message # m.id
      <4> SUFFICES ASSUME NEW x \in kept, x.message = m.id PROVE FALSE  OBVIOUS
      <4>1. m.id = 2 * x.turn /\ m.id = 2 * m.turn + 1 /\ x.turn \in Nat
        BY <1>18, <3>1 DEF UserMessageOf, AssistantMessageOf
      <4> QED  BY <3>1, <4>1
    <3>3. \A x \in kept: x.assistant = m.id => x.turn = m.turn
      <4> SUFFICES ASSUME NEW x \in kept, x.assistant = m.id PROVE x.turn = m.turn  OBVIOUS
      <4>1. x.assistant = AssistantMessageOf(x.turn) /\ x.turn \in Nat
        BY <1>18, <1>20, <2>1
      <4> QED  BY <3>1, <4>1 DEF AssistantMessageOf
    <3>4. m.id \in owned => m.turn \in K
      <4> SUFFICES ASSUME m.id \in owned PROVE m.turn \in K  OBVIOUS
      <4>1. PICK x \in kept: x.message = m.id \/ x.assistant = m.id  BY <1>16
      <4>2. x.turn = m.turn  BY <3>2, <3>3, <4>1
      <4> QED  BY <1>18, <4>2
    <3>5. m \notin V  BY <1>4, <3>1 DEF UsersFor
    <3> QED  BY <1>17, <2>1, <3>1, <3>4, <3>5
  <2> QED  BY <1>2, <2>2, <2>3
<1>22. first = MessagesOf(M, V, K)
  <2>1. V \subseteq M  BY DEF UsersFor, UsersOf
  <2>2. first \subseteq M  BY <1>17
  <2> QED  BY <1>21, <2>1, <2>2 DEF MessagesOf
<1>23. PICK q: q = RowsInOrder(M)  OBVIOUS
<1>24. q \in Seq(M) /\ ToSet(q) = M
  <2>1. IsFiniteSet(M)  BY FiniteList
  <2>2. \A x, y \in M: x.id = y.id => x = y  BY DEF ByTime
  <2>3. \A x \in M: x.at \in Nat /\ x.id \in Nat  BY <1>2
  <2> QED  BY <1>23, <2>1, <2>2, <2>3, RowsReadBack
<1>25. ToSet(WithFallbacks(q, first, K, n)) = first
  <2>1. PICK C: C = UsersOf(M) \ V  OBVIOUS
  <2>2. IsFiniteSet(C)
    <3>1. IsFiniteSet(M) /\ C \subseteq M  BY <2>1, FiniteList DEF UsersOf
    <3> QED  BY <3>1, FS_Subset
  <2>3. V \subseteq UsersOf(M)  BY DEF UsersFor
  <2> QED  BY <1>1, <1>3, <1>12, <1>13, <1>22, <1>24, <2>1, <2>2, <2>3, RetainingOwned
<1>26. RetainRows(r, n) = ToSet(WithFallbacks(q, first, K, n))
  <2> DEFINE turns == {x.turn: x \in KeptTurns(r, n)}
             own == {x.message: x \in KeptTurns(r, n)}
                      \union {x.assistant: x \in KeptTurns(r, n)}
             some == {m \in r.messages: \/ m.id \in own
                                        \/ m.role = "system"
                                        \/ m.turn # None /\ m.turn \in turns}
  <2>1. RetainRows(r, n) = ToSet(WithFallbacks(RowsInOrder(r.messages), some, turns, n))
    BY Zenon DEF RetainRows
  <2>2. own = owned  BY <1>15, <1>16
  <2>3. turns = K  BY DEF TurnsKept
  <2>4. some = first
    <3> HIDE DEF own, turns
    <3> QED  BY <1>17, <2>2, <2>3
  <2> HIDE DEF some, turns
  <2> QED  BY <1>23, <2>1, <2>3, <2>4
<1> QED  BY <1>14, <1>22, <1>25, <1>26

OneForEach(M, A) ==
  /\ \A m \in UsersOf(M): \E t \in A: m.id = UserMessageOf(t)
  /\ \A t \in A: \E m \in UsersOf(M): m.id = UserMessageOf(t)

(* The user asks for one more turn, ... *)
LEMMA AddingUser ==
  ASSUME NEW M, M \subseteq Message, OwnedByTurns(M), ByTime(M),
         NEW A, A \subseteq Nat, OneForEach(M, A), NEW t \in Nat, \A a \in A: a < t,
         NEW m \in Message, m.role = "user", m.turn = None, m.id = UserMessageOf(t),
         \A o \in UsersOf(M): o.at < m.at,
         NEW N, N = M \union {m}, NEW B, B = A \union {t}
  PROVE  /\ OwnedByTurns(N) /\ ByTime(N) /\ OneForEach(N, B)
         /\ \A o \in M: o.id # m.id
<1>1. \A o \in M: o.id \in Nat /\ o.at \in Nat /\ o.turn \in Turns \union {None}
  BY DEF Message
<1>2. m.id \in Nat /\ m.at \in Nat /\ m.id = 2 * t  BY DEF Message, UserMessageOf
<1>3. UsersOf(N) = UsersOf(M) \union {m}  BY DEF UsersOf
<1>4. \A o \in UsersOf(M): o.id < m.id
  <2> SUFFICES ASSUME NEW o \in UsersOf(M) PROVE o.id < m.id  OBVIOUS
  <2>1. PICK a \in A: o.id = UserMessageOf(a)  BY DEF OneForEach
  <2>2. a \in Nat /\ a < t  OBVIOUS
  <2> QED  BY <1>2, <2>1, <2>2 DEF UserMessageOf
<1>5. \A o \in M: o.id # m.id
  <2> SUFFICES ASSUME NEW o \in M, o.id = m.id PROVE FALSE  OBVIOUS
  <2>1. CASE o.role = "user"
    <3>1. o.id < m.id  BY <1>4, <2>1 DEF UsersOf
    <3> QED  BY <1>2, <3>1
  <2>2. CASE o.role # "user"
    <3>1. o.turn # None /\ o.id = AssistantMessageOf(o.turn)  BY <2>2 DEF OwnedByTurns
    <3>2. o.turn \in Nat  BY <1>1, <3>1, BoundsAssumption DEF Turns
    <3>3. 2 * o.turn + 1 = 2 * t  BY <1>2, <3>1 DEF AssistantMessageOf
    <3> QED  BY <3>2, <3>3
  <2> QED  BY <2>1, <2>2
<1>6. OwnedByTurns(N)  BY DEF OwnedByTurns
<1>7. ByTime(N)
  <2>1. \A x, y \in N: x.id = y.id => x = y  BY <1>5 DEF ByTime
  <2>2. ASSUME NEW x \in UsersOf(N), NEW y \in UsersOf(N), x.id < y.id
        PROVE  x.at < y.at
    <3>1. CASE x \in UsersOf(M) /\ y \in UsersOf(M)  BY <2>2, <3>1 DEF ByTime
    <3>2. CASE x \in UsersOf(M) /\ y = m  BY <3>2
    <3>3. CASE x = m
      <4>1. y = m \/ y.id < m.id  BY <1>3, <1>4
      <4>2. y.id \in Nat  BY <1>1, <1>2, <1>3 DEF UsersOf
      <4> QED  BY <1>2, <2>2, <3>3, <4>1, <4>2
    <3> QED  BY <1>3, <3>1, <3>2, <3>3
  <2> QED  BY <2>1, <2>2 DEF ByTime
<1>8. OneForEach(N, B)  BY <1>3 DEF OneForEach
<1> QED  BY <1>5, <1>6, <1>7, <1>8

(* ... and the assistant has answered one more. *)
Unanswered(M, t) == \A o \in M: o.role = "assistant" => o.turn # t

LEMMA AddingAssistant ==
  ASSUME NEW M, M \subseteq Message, OwnedByTurns(M), ByTime(M),
         NEW A, A \subseteq Nat, OneForEach(M, A), NEW t \in Turns,
         NEW m \in Message, m.role = "assistant", m.turn = t, m.id = AssistantMessageOf(t),
         Unanswered(M, t),
         NEW N, N = M \union {m}
  PROVE  /\ OwnedByTurns(N) /\ ByTime(N) /\ OneForEach(N, A)
         /\ \A o \in M: o.id # m.id
<1>1. \A o \in M: /\ o.id \in Nat /\ o.at \in Nat /\ o.turn \in Turns \union {None}
                  /\ o.role \in {"user", "assistant"}
  BY DEF Message
<1>2. t \in Nat /\ t # None  BY BoundsAssumption, ValuesAssumption DEF Turns
<1>3. m.id = 2 * t + 1  BY DEF AssistantMessageOf
<1>4. UsersOf(N) = UsersOf(M)  BY DEF UsersOf
<1>5. \A o \in M: o.id # m.id
  <2> SUFFICES ASSUME NEW o \in M, o.id = m.id PROVE FALSE  OBVIOUS
  <2>1. CASE o.role = "user"
    <3>1. PICK a \in A: o.id = UserMessageOf(a)  BY <2>1 DEF UsersOf, OneForEach
    <3>2. a \in Nat /\ 2 * a = 2 * t + 1  BY <1>3, <3>1 DEF UserMessageOf
    <3> QED  BY <1>2, <3>2
  <2>2. CASE o.role = "assistant"
    <3>1. o.turn # None /\ o.id = AssistantMessageOf(o.turn)  BY <2>2 DEF OwnedByTurns
    <3>2. o.turn \in Nat  BY <1>1, <3>1, BoundsAssumption DEF Turns
    <3>3. 2 * o.turn + 1 = 2 * t + 1  BY <1>3, <3>1 DEF AssistantMessageOf
    <3>4. o.turn = t  BY <1>2, <3>2, <3>3
    <3> QED  BY <2>2, <3>4 DEF Unanswered
  <2> QED  BY <1>1, <2>1, <2>2
<1>6. OwnedByTurns(N)  BY <1>2 DEF OwnedByTurns
<1>7. ByTime(N)  BY <1>4, <1>5 DEF ByTime
<1>8. OneForEach(N, A)  BY <1>4 DEF OneForEach
<1> QED  BY <1>5, <1>6, <1>7, <1>8

LEMMA Pruning ==
  ASSUME NEW M, OwnedByTurns(M), ByTime(M), NEW A, OneForEach(M, A),
         NEW K, K \subseteq A, None \notin K,
         NEW N, N = MessagesOf(M, UsersFor(M, K), K)
  PROVE  N \subseteq M /\ OwnedByTurns(N) /\ ByTime(N) /\ OneForEach(N, K)
<1>1. N \subseteq M  BY DEF MessagesOf, UsersFor, UsersOf
<1>2. OwnedByTurns(N) /\ ByTime(N)
  <2>1. UsersOf(N) \subseteq UsersOf(M)  BY <1>1 DEF UsersOf
  <2>2. OwnedByTurns(N)  BY <1>1 DEF OwnedByTurns
  <2> QED  BY <1>1, <2>1, <2>2 DEF ByTime
<1>3. UsersOf(N) = UsersFor(M, K)
  <2>1. \A m \in M: m.role = "user" => m.turn = None  BY DEF OwnedByTurns
  <2> QED  BY <2>1 DEF UsersOf, UsersFor, MessagesOf
<1>4. \A t \in K: \E m \in UsersOf(N): m.id = UserMessageOf(t)
  <2> SUFFICES ASSUME NEW t \in K PROVE \E m \in UsersOf(N): m.id = UserMessageOf(t)
    OBVIOUS
  <2>1. PICK m \in UsersOf(M): m.id = UserMessageOf(t)  BY DEF OneForEach
  <2> QED  BY <1>3, <2>1 DEF UsersFor
<1>5. \A m \in UsersOf(N): \E t \in K: m.id = UserMessageOf(t)
  BY <1>3 DEF UsersFor
<1> QED  BY <1>1, <1>2, <1>4, <1>5 DEF OneForEach

(************************ What both parts remember *************************)
(* The turn the user asked for last, while it is not at its end.            *)
Unended == provider.running \/ ingest # <<>> \/ seen # None
Opening ==
  \/ \E i \in 1 .. Len(ingest): ingest[i].type = "turn.started"
  \/ seen # None /\ seen.event.type = "turn.started"

(* The turns whose user messages are in the thread: while it is reverted    *)
(* those that have checkpoints.                                             *)
TurnsOf(q) == {q[i]: i \in 1 .. Len(q)}
Remembered == TurnsOf(conversation) \union {t \in {sent}: provider.turn < sent}
Checkpointed == {th.checkpoints[i].turn: i \in 1 .. Len(th.checkpoints)}
Asked == IF Reverting THEN Checkpointed ELSE Remembered

Ascending ==
  /\ \A i, j \in 1 .. Len(conversation): i < j => conversation[i] < conversation[j]
  /\ Reverting => \A i, j \in 1 .. Len(th.checkpoints):
                    i < j => th.checkpoints[i].turn < th.checkpoints[j].turn

(* The rows hold the messages of the read model, which are not too many.    *)
Gathered ==
  /\ th.messages \in Seq(Message) /\ ToSet(th.messages) = rows.messages
  /\ Len(th.messages) + (IF Unended THEN 1 ELSE 0) <= sent + provider.turn

(* A user message for each turn asked for, in their order, and at most one  *)
(* of the assistant for each turn that ended.                               *)
Timely ==
  /\ \A m \in UsersOf(rows.messages): m.at <= clock
  /\ \A m \in rows.messages: m.role = "assistant" =>
       m.turn <= provider.turn /\ (m.turn = provider.turn => ~Unended)
Spoken ==
  /\ OwnedByTurns(rows.messages) /\ ByTime(rows.messages)
  /\ OneForEach(rows.messages, Asked) /\ Timely

Owned ==
  /\ Rightly(rows, sent)
  /\ rows.pending # NoPending => /\ rows.pending.message = UserMessageOf(sent)
                                 /\ provider.turn < sent \/ Opening
  /\ sent \in Remembered => HasRow(rows, sent)

(* The checkpoints of the rows are of the same turns as those of the thread. *)
SameTurns(S, T) == \A c \in S: \E d \in T: c.turn = d.turn /\ c.count = d.count
Counted == SameTurns(InThread, InRows) /\ SameTurns(InRows, InThread)

Hears == Gathered /\ Spoken /\ Owned
Heard == failures = 0 => Ascending /\ Counted /\ Hears

(* A step that says nothing and asks for nothing. *)
LEMMA SaysNothing ==
  ASSUME Hears, th'.messages = th.messages, rows'.messages = rows.messages,
         provider'.turn = provider.turn, sent' = sent,
         sent \in Nat, provider.turn \in Nat, clock \in Nat, clock' \in Nat,
         clock <= clock', rows.messages \subseteq Message,
         Asked' = Asked, Unended' => Unended
  PROVE  Gathered' /\ Spoken'
<1>1. Gathered'
  <2>1. /\ th'.messages \in Seq(Message) /\ ToSet(th'.messages) = rows'.messages
    BY DEF Hears, Gathered
  <2>2. Len(th.messages) \in Nat  BY DEF Hears, Gathered
  <2>3. Len(th'.messages) + (IF Unended' THEN 1 ELSE 0) <= sent' + provider'.turn
    <3>1. PICK n \in Nat: n = Len(th.messages)  BY <2>2
    <3>2. n + (IF Unended THEN 1 ELSE 0) <= sent + provider.turn
      BY <3>1 DEF Hears, Gathered
    <3>3. PICK k \in Nat: k = sent + provider.turn  OBVIOUS
    <3>4. sent' + provider'.turn = k  BY <3>3
    <3>5. Len(th'.messages) = n  BY <3>1
    <3>6. n + (IF Unended' THEN 1 ELSE 0) <= k
      <4>1. CASE Unended  BY <3>2, <3>3, <4>1
      <4>2. CASE ~Unended  BY <3>2, <3>3, <4>2
      <4> QED  BY <4>1, <4>2
    <3> QED  BY <3>4, <3>5, <3>6
  <2> QED  BY <2>1, <2>3 DEF Gathered
<1>2. Timely'
  <2>1. \A m \in UsersOf(rows.messages): m.at \in Nat  BY DEF UsersOf, Message
  <2>2. \A m \in UsersOf(rows.messages): m.at <= clock'
    BY <2>1 DEF Hears, Spoken, Timely
  <2> QED  BY <2>2 DEF Hears, Spoken, Timely
<1>3. Spoken'  BY <1>2 DEF Hears, Spoken
<1> QED  BY <1>1, <1>3

LEMMA HearsStays ==
  ASSUME Hears, th'.messages = th.messages, rows'.messages = rows.messages,
         rows'.turns = rows.turns, rows'.pending = rows.pending,
         provider'.turn = provider.turn, sent' = sent,
         sent \in Nat, provider.turn \in Nat, clock \in Nat, clock' \in Nat,
         clock <= clock', rows.messages \subseteq Message,
         Asked' = Asked, Remembered' \subseteq Remembered,
         Unended' => Unended, Opening => Opening'
  PROVE  Hears'
<1>1. Gathered' /\ Spoken'  BY SaysNothing
<1>2. Owned'
  <2>1. Rightly(rows', sent')
    BY DEF Hears, Owned, Rightly
  <2>2. sent' \in Remembered' => HasRow(rows', sent')
    BY DEF Hears, Owned, HasRow
  <2> QED  BY <2>1, <2>2 DEF Hears, Owned
<1> QED  BY <1>1, <1>2 DEF Hears

LEMMA HearsTyped ==
  ASSUME Typed, Hears
  PROVE  /\ IsThread(th) /\ IsRows(rows) /\ rows.messages \subseteq Message
         /\ th.messages \in Seq(Message) /\ Len(th.messages) \in Nat
         /\ Len(th.messages) <= sent + provider.turn
         /\ sent \in 0 .. MaxTurns /\ provider.turn \in 0 .. MaxTurns /\ clock \in Nat
         /\ sent \in Nat /\ provider.turn \in Nat /\ provider.turn <= sent
<1>1. PICK s: s = th.messages  OBVIOUS
<1>2. s \in Seq(Message) /\ ToSet(s) = rows.messages
  BY <1>1 DEF Hears, Gathered
<1>3. Len(s) \in Nat /\ ToSet(s) \subseteq Message  BY <1>2 DEF ToSet
<1>4. /\ sent \in 0 .. MaxTurns /\ provider.turn \in 0 .. MaxTurns /\ clock \in Nat
      /\ provider.turn <= sent
  BY DEF Typed, WorldTyped
<1>5. sent \in Nat /\ provider.turn \in Nat  BY <1>4, BoundsAssumption
<1>6. Len(s) + (IF Unended THEN 1 ELSE 0) <= sent + provider.turn
  BY <1>1 DEF Hears, Gathered
<1>7. Len(s) <= sent + provider.turn
  <2>1. CASE Unended  BY <1>3, <1>5, <1>6, <2>1
  <2>2. CASE ~Unended  BY <1>3, <1>5, <1>6, <2>2
  <2> QED  BY <2>1, <2>2
<1> QED  BY <1>1, <1>2, <1>3, <1>4, <1>5, <1>7 DEF Typed, EngineTyped

LEMMA HearsUnchanged ==
  ASSUME Typed, Typed', Hears, UNCHANGED <<th, rows, sent>>,
         provider'.turn = provider.turn, clock <= clock',
         Asked' = Asked, Remembered' \subseteq Remembered,
         Unended' => Unended, Opening => Opening'
  PROVE  Hears'
<1>1. clock' \in Nat  BY DEF Typed, WorldTyped
<1> QED  BY <1>1, HearsTyped, HearsStays

LEMMA RememberedStays ==
  ASSUME UNCHANGED <<conversation, sent>>, provider'.turn = provider.turn
  PROVE  Remembered' = Remembered
BY DEF Remembered, TurnsOf

LEMMA AskedStays ==
  ASSUME UNCHANGED <<conversation, sent, job>>, provider'.turn = provider.turn,
         th'.checkpoints = th.checkpoints
  PROVE  Asked' = Asked /\ Remembered' = Remembered
<1>1. Remembered' = Remembered  BY RememberedStays
<1>2. Checkpointed' = Checkpointed  BY DEF Checkpointed
<1> QED  BY <1>1, <1>2 DEF Asked, Reverting

(* When every turn has its checkpoint, both say what was asked for. *)
LEMMA AllCheckpointed ==
  ASSUME Typed, Matching, Len(conversation) = Len(th.checkpoints), provider.turn = sent
  PROVE  Checkpointed = Remembered
<1>1. PICK cs, q: cs = th.checkpoints /\ q = conversation  OBVIOUS
<1>2. Len(cs) \in Nat /\ Len(q) = Len(cs)  BY <1>1, Listed
<1>3. \A i \in 1 .. Len(cs): cs[i].turn = q[i]
  <2>1. \A i \in 1 .. Len(cs): i <= Len(q)  BY <1>2
  <2> QED  BY <1>1, <2>1 DEF Matching
<1>4. {cs[i].turn: i \in 1 .. Len(cs)} = {q[i]: i \in 1 .. Len(q)}  BY <1>2, <1>3
<1>5. {t \in {sent}: provider.turn < sent} = {}
  <2>1. sent \in Nat  BY BoundsAssumption DEF Typed, WorldTyped
  <2>2. ~ (provider.turn < sent)  BY <2>1
  <2> QED  BY <2>2
<1>6. Remembered = TurnsOf(q) \union {}  BY <1>1, <1>5 DEF Remembered
<1>7. Remembered = TurnsOf(q)  BY <1>6
<1> QED  BY <1>1, <1>4, <1>7 DEF Checkpointed, TurnsOf

LEMMA HearsAskRevert ==
  ASSUME Typed, Hears, AskRevert, Typed'  PROVE Hears'
<1>1. PICK n \in 0 .. MaxCount(th.checkpoints):
        Dispatch(<<[type |-> "thread.checkpoint-revert-requested", count |-> n]>>)
  BY DEF AskRevert
<1>2. PICK e: e = [type |-> "thread.checkpoint-revert-requested", count |-> n]  OBVIOUS
<1>3. n \in Nat
  <2>1. th.checkpoints \in Seq(Checkpoint)  BY DEF Typed, EngineTyped, IsThread
  <2>2. MaxCount(th.checkpoints) \in Nat  BY <2>1, Highest
  <2> QED  BY <2>2
<1>4. e \in Requests  BY <1>2, <1>3 DEF Requests
<1>5. th' = ProjectThread(th, e) /\ rows' = ProjectRows(rows, e)
  <2>1. Dispatch(<<e>>)  BY <1>1, <1>2
  <2> QED  BY <2>1, DispatchOne DEF Typed, QueuesTyped
<1>6. IsThread(th) /\ IsRows(rows)  BY HearsTyped
<1>7. th'.messages = th.messages  BY <1>4, <1>5, <1>6, UntoldThread
<1>8. /\ rows'.messages = rows.messages /\ rows'.turns = rows.turns
      /\ rows'.pending = rows.pending
  BY <1>4, <1>5, <1>6, UntoldRows
<1>9. UNCHANGED <<conversation, sent, job, provider, clock, ingest, seen>>
  BY DEF AskRevert, world, reactor
<1>10. th'.checkpoints = th.checkpoints  BY StepAskRevert DEF Still
<1>11. Asked' = Asked /\ Remembered' = Remembered  BY <1>9, <1>10, AskedStays
<1>12. Unended' = Unended /\ Opening' = Opening  BY <1>9 DEF Unended, Opening
<1> QED  BY <1>7, <1>8, <1>9, <1>11, <1>12, HearsTyped, HearsStays

LEMMA OpeningEmitted ==
  ASSUME Typed, seen' = seen, NEW e, ingest' = Append(ingest, e)
  PROVE  /\ Opening => Opening'
         /\ e.type = "turn.started" => Opening'
<1>1. PICK q, r: q = ingest /\ r = ingest'  OBVIOUS
<1>2. q \in Seq(Reports \union Bounds)  BY <1>1 DEF Typed, QueuesTyped
<1>3. r = Append(q, e)  BY <1>1
<1>4. PICK n \in Nat: n = Len(q)  BY <1>2
<1>5. /\ Len(r) = n + 1 /\ r[n + 1] = e /\ n + 1 \in 1 .. n + 1
      /\ \A i \in 1 .. n: r[i] = q[i] /\ i \in 1 .. n + 1
  BY <1>2, <1>3, <1>4
<1>6. (\E i \in 1 .. n: q[i].type = "turn.started")
        => \E i \in 1 .. n + 1: r[i].type = "turn.started"
  BY <1>5
<1>7. e.type = "turn.started" => \E i \in 1 .. n + 1: r[i].type = "turn.started"
  BY <1>5
<1> QED  BY <1>1, <1>4, <1>5, <1>6, <1>7 DEF Opening

LEMMA HearsEditFiles ==
  ASSUME Typed, Hears, EditFiles, Typed'  PROVE Hears'
<1>1. /\ UNCHANGED <<th, rows, conversation, sent, job, provider, clock, seen>>
      /\ provider.running
      /\ ingest' = Append(ingest, [type |-> "turn.diff.updated", turn |-> provider.turn])
  BY DEF EditFiles, Emit, engine, reactor
<1>2. Asked' = Asked /\ Remembered' = Remembered  BY <1>1, AskedStays
<1>3. Unended  BY <1>1 DEF Unended
<1>4. Opening => Opening'  BY <1>1, OpeningEmitted
<1>5. clock \in Nat  BY HearsTyped
<1> QED  BY <1>1, <1>2, <1>3, <1>4, <1>5, HearsUnchanged

LEMMA HearsEndTurn ==
  ASSUME Typed, Hears, EndTurn, Typed'  PROVE Hears'
<1>1. /\ UNCHANGED <<th, rows, conversation, sent, job, seen>>
      /\ provider.running /\ provider' = [provider EXCEPT !.running = FALSE]
      /\ clock' = clock + 1
  BY DEF EndTurn, engine, reactor
<1>2. PICK e: ingest' = Append(ingest, e)  BY DEF EndTurn, Emit
<1>3. provider'.turn = provider.turn  BY <1>1 DEF Typed, WorldTyped
<1>4. Asked' = Asked /\ Remembered' = Remembered  BY <1>1, <1>3, AskedStays
<1>5. Unended  BY <1>1 DEF Unended
<1>6. Opening => Opening'  BY <1>1, <1>2, OpeningEmitted
<1>7. clock \in Nat /\ clock <= clock'
  <2>1. clock \in Nat  BY HearsTyped
  <2> QED  BY <1>1, <2>1
<1> QED  BY <1>1, <1>3, <1>4, <1>5, <1>6, <1>7, HearsUnchanged

LEMMA HearsIngest ==
  ASSUME None \notin Seen, Typed, Hears, Ingest, Typed'  PROVE Hears'
<1>1. /\ UNCHANGED <<th, rows, conversation, sent, job, provider, clock>>
      /\ seen = None /\ ingest # <<>> /\ ingest' = Tail(ingest)
      /\ seen' = [event |-> Head(ingest), active |-> th.session.turn,
                  checkpoints |-> th.checkpoints]
  BY DEF Ingest, engine, world, reactor
<1>2. Asked' = Asked /\ Remembered' = Remembered  BY <1>1, AskedStays
<1>3. Unended  BY <1>1 DEF Unended
<1>4. seen' # None /\ seen'.event = Head(ingest)  BY <1>1, StepIngest
<1>5. Opening => Opening'
  <2> SUFFICES ASSUME Opening PROVE Opening'  OBVIOUS
  <2>1. PICK q, r: q = ingest /\ r = ingest'  OBVIOUS
  <2>2. q \in Seq(Reports \union Bounds) /\ q # <<>> /\ r = Tail(q)
    BY <1>1, <2>1 DEF Typed, QueuesTyped
  <2>3. PICK i \in 1 .. Len(q): q[i].type = "turn.started"  BY <1>1, <2>1 DEF Opening
  <2>4. CASE i = 1
    <3>1. Head(q) = q[1]  BY <2>2
    <3> QED  BY <1>4, <2>1, <2>3, <2>4, <3>1 DEF Opening
  <2>5. CASE i # 1
    <3>1. PICK n \in Nat: n + 1 = Len(q)
      <4>1. Len(q) \in Nat \ {0}  BY <2>2
      <4> QED  BY <4>1
    <3>2. Len(r) = n /\ \A k \in 1 .. n: r[k] = q[k + 1]
      <4>1. Len(r) = n  BY <2>2, <3>1
      <4>2. \A k \in 1 .. n: k \in 1 .. Len(r)  BY <4>1
      <4> QED  BY <2>2, <4>1, <4>2
    <3>3. i - 1 \in 1 .. n /\ i - 1 + 1 = i  BY <2>5, <3>1
    <3>4. r[i - 1].type = "turn.started"
      <4>1. r[i - 1] = q[i - 1 + 1]  BY <3>2, <3>3
      <4> QED  BY <2>3, <3>3, <4>1
    <3> QED  BY <2>1, <3>2, <3>3, <3>4 DEF Opening
  <2> QED  BY <2>4, <2>5
<1>6. clock \in Nat  BY HearsTyped
<1> QED  BY <1>1, <1>2, <1>3, <1>5, <1>6, HearsUnchanged

(* The reactor takes or finishes a job that is no revert, or begins one when *)
(* every turn has its checkpoint.                                            *)
LEMMA HearsTakes ==
  ASSUME Typed, Tale, Hears, TakeDomain \/ TakeRuntime, Typed', Tale'  PROVE Hears'
<1>1. /\ UNCHANGED <<th, rows, conversation, sent, provider, clock, ingest, seen>>
      /\ job.step = "idle"
  BY DEF TakeDomain, TakeRuntime, engine, world, Idle
<1>2. Remembered' = Remembered  BY <1>1, RememberedStays
<1>3. ~Reverting  BY <1>1 DEF Reverting
<1>4. Asked' = Asked
  <2>1. CASE ~Reverting'  BY <1>2, <1>3, <2>1 DEF Asked
  <2>2. CASE Reverting'
    <3>1. job'.step = "restore"  BY <2>2, TakesAJob DEF Reverting
    <3>2. Len(conversation) = Len(th.checkpoints) /\ provider.turn = sent
      BY <1>1, <2>2, <3>1 DEF Tale, GoesBack, Silence
    <3>3. Checkpointed = Remembered  BY <3>2, AllCheckpointed DEF Tale
    <3>4. Checkpointed' = Checkpointed  BY <1>1 DEF Checkpointed
    <3> QED  BY <1>3, <2>2, <3>3, <3>4 DEF Asked
  <2> QED  BY <2>1, <2>2
<1>5. Unended' = Unended /\ Opening' = Opening  BY <1>1 DEF Unended, Opening
<1>6. clock \in Nat  BY HearsTyped
<1> QED  BY <1>1, <1>2, <1>4, <1>5, <1>6, HearsUnchanged

LEMMA HearsCaptures ==
  ASSUME Typed, Hears, CaptureBaseline \/ CaptureRef, Typed'  PROVE Hears'
<1>1. /\ UNCHANGED <<th, rows, conversation, sent, provider, clock, ingest, seen>>
      /\ job.step \in {"baseline", "capture"}
  BY DEF CaptureBaseline, CaptureRef, Outside, engine, world
<1>2. job'.step \in {"idle", "record"}
  <2>1. CASE CaptureBaseline  BY <2>1 DEF CaptureBaseline, NoJob
  <2>2. CASE CaptureRef
    <3>1. job' = [job EXCEPT !.step = "record"] /\ job \in Job
      BY <2>2 DEF CaptureRef, Typed, JobTyped
    <3> QED  BY <3>1 DEF Job
  <2> QED  BY <2>1, <2>2
<1>3. Remembered' = Remembered  BY <1>1, RememberedStays
<1>4. Asked' = Asked  BY <1>1, <1>2, <1>3 DEF Asked, Reverting
<1>5. Unended' = Unended /\ Opening' = Opening  BY <1>1 DEF Unended, Opening
<1>6. clock \in Nat  BY HearsTyped
<1> QED  BY <1>1, <1>3, <1>4, <1>5, <1>6, HearsUnchanged

(* A revert that is refused leaves what was asked for, and one that goes on  *)
(* asks for what has checkpoints.                                            *)
LEMMA HearsGoesBack ==
  ASSUME Typed, Tale, Hears, RestoreFiles \/ RollbackConversation \/ DeleteStaleRefs,
         Typed', Tale'
  PROVE  Hears'
<1>1. /\ UNCHANGED <<th, rows, sent, provider, clock, ingest, seen>>
      /\ job.step \in {"restore", "rollback", "delete"}
  BY DEF RestoreFiles, RollbackConversation, DeleteStaleRefs, Outside, engine, world
<1>2. Reverting  BY <1>1 DEF Reverting
<1>3. Checkpointed' = Checkpointed  BY <1>1 DEF Checkpointed
<1>4. Remembered' \subseteq Remembered
  <2>1. CASE ~RollbackConversation
    <3>1. UNCHANGED conversation  BY <2>1 DEF RestoreFiles, DeleteStaleRefs, Outside, world
    <3> QED  BY <1>1, <3>1, RememberedStays
  <2>2. CASE RollbackConversation
    <3>1. PICK q: q = conversation  OBVIOUS
    <3>2. q \in Seq(Turns)  BY <3>1 DEF Tale, History
    <3>3. PICK left: left = Len(q) - (job.current - job.count)  OBVIOUS
    <3>4. PICK k: k = IF left < 0 THEN 0 ELSE left  OBVIOUS
    <3>5. conversation' = SubSeq(q, 1, k)
      BY <2>2, <3>1, <3>3, <3>4 DEF RollbackConversation
    <3>6. k \in 0 .. Len(q)
      <4>1. /\ job.step = "rollback" /\ job.current = Len(th.checkpoints)
            /\ Len(q) = Len(th.checkpoints) /\ job.count <= Len(th.checkpoints)
        BY <1>2, <2>2, <3>1 DEF RollbackConversation, Tale, GoesBack
      <4>2. Len(q) \in Nat /\ job.count \in Nat
        BY <3>2 DEF Typed, JobTyped, Job
      <4> QED  BY <3>3, <3>4, <4>1, <4>2
    <3>7. PICK r: r = SubSeq(q, 1, k)  OBVIOUS
    <3>8. Len(r) = k /\ \A i \in 1 .. k: r[i] = q[i] /\ i \in 1 .. Len(q)
      BY <3>2, <3>6, <3>7
    <3>9. TurnsOf(r) \subseteq TurnsOf(q)  BY <3>8 DEF TurnsOf
    <3> QED  BY <1>1, <3>1, <3>5, <3>7, <3>9 DEF Remembered
  <2> QED  BY <2>1, <2>2
<1>5. Asked' = Asked
  <2>1. CASE Reverting'  BY <1>2, <1>3, <2>1 DEF Asked
  <2>2. CASE ~Reverting'
    <3>1. RestoreFiles
      <4>1. CASE RollbackConversation
        <5>1. job' = [job EXCEPT !.step = "delete"] /\ job \in Job
          BY <4>1 DEF RollbackConversation, Typed, JobTyped
        <5> QED  BY <2>2, <5>1 DEF Job, Reverting
      <4>2. CASE DeleteStaleRefs
        <5>1. job' = [job EXCEPT !.step = "complete"] /\ job \in Job
          BY <4>2 DEF DeleteStaleRefs, Typed, JobTyped
        <5> QED  BY <2>2, <5>1 DEF Job, Reverting
      <4> QED  BY <4>1, <4>2
    <3>2. job.step = "restore" /\ UNCHANGED conversation  BY <3>1 DEF RestoreFiles
    <3>3. Len(conversation) = Len(th.checkpoints) /\ provider.turn = sent
      BY <1>2, <3>2 DEF Tale, GoesBack, Silence
    <3>4. Checkpointed = Remembered  BY <3>3, AllCheckpointed DEF Tale
    <3>5. Remembered' = Remembered  BY <1>1, <3>2, RememberedStays
    <3> QED  BY <1>2, <2>2, <3>4, <3>5 DEF Asked
  <2> QED  BY <2>1, <2>2
<1>6. Unended' = Unended /\ Opening' = Opening  BY <1>1 DEF Unended, Opening
<1>7. clock \in Nat  BY HearsTyped
<1> QED  BY <1>1, <1>4, <1>5, <1>6, <1>7, HearsUnchanged

(* The turns asked for are numbers up to that of the latest. *)
LEMMA RememberedUpTo ==
  ASSUME Typed, Tale
  PROVE  /\ TurnsOf(conversation) \subseteq Turns
         /\ \A t \in TurnsOf(conversation): t \in Nat /\ t <= provider.turn
<1>1. PICK q: q = conversation  OBVIOUS
<1>2. q \in Seq(Turns) /\ \A i \in 1 .. Len(q): q[i] <= provider.turn
  BY <1>1 DEF Tale, History
<1>3. \A i \in 1 .. Len(q): q[i] \in Turns  BY <1>2
<1>4. \A t \in Turns: t \in Nat  BY BoundsAssumption DEF Turns
<1> QED  BY <1>1, <1>2, <1>3, <1>4 DEF TurnsOf

LEMMA NothingMore ==
  ASSUME sent \in Nat, provider.turn = sent
  PROVE  Remembered = TurnsOf(conversation)
<1>1. ~ (provider.turn < sent)  OBVIOUS
<1>2. {t \in {sent}: provider.turn < sent} = {}  BY <1>1
<1>3. Remembered = TurnsOf(conversation) \union {}  BY <1>2 DEF Remembered
<1> QED  BY <1>3

(* The message is the first of its id, and no turn start is pending. *)
LEMMA HearsSendMessage ==
  ASSUME Calm, MaxMessages \in Nat, 2 * MaxTurns <= MaxMessages,
         Typed, Tale, Hears, SendMessage, Typed'
  PROVE  Hears'
<1>1. /\ Settled /\ sent < MaxTurns /\ sent' = sent + 1 /\ clock' = clock + 1
      /\ UNCHANGED <<provider, conversation, ingest, seen, job>>
  BY DEF SendMessage, reactor
<1>2. /\ provider.turn = sent /\ ~Unended /\ ~Opening /\ ~Reverting
  BY <1>1 DEF Settled, Unended, Opening, NoJob, Reverting
<1>3. PICK k \in Nat: k = sent  BY HearsTyped
<1>4. PICK t: t = k + 1  OBVIOUS
<1>5. t \in Nat /\ sent' = t /\ t \in Turns
  BY <1>1, <1>3, <1>4, BoundsAssumption DEF Turns
<1>6. PICK c \in Nat: c = clock  BY HearsTyped
<1>7. PICK i: i = UserMessageOf(t)  OBVIOUS
<1>8. i \in Nat  BY <1>5, <1>7 DEF UserMessageOf
<1>9. PICK m: m = [type |-> "thread.message-sent", id |-> i, role |-> "user",
                   text |-> <<>>, turn |-> None, streaming |-> FALSE, at |-> clock']
  OBVIOUS
<1>10. PICK e: e = [type |-> "thread.turn-start-requested", id |-> i, at |-> clock']
  OBVIOUS
<1>11. m \in UserMessages /\ e \in Starts /\ m.at = c + 1 /\ clock' = c + 1
  BY <1>1, <1>6, <1>8, <1>9, <1>10 DEF UserMessages, Starts
<1>12. Dispatch(<<m, e>>)  BY <1>5, <1>7, <1>9, <1>10 DEF SendMessage
<1>13. /\ th' = ProjectThread(ProjectThread(th, m), e)
       /\ rows' = ProjectRows(ProjectRows(rows, m), e)
  <2>1. ~Watched(m)  BY <1>11 DEF Watched, UserMessages
  <2> QED  BY <1>12, <2>1, DispatchTwo DEF Typed, QueuesTyped
<1>14. PICK M: M = rows.messages  OBVIOUS
<1>15. PICK s: s = th.messages  OBVIOUS
<1>16. /\ IsThread(th) /\ IsRows(rows) /\ M \subseteq Message /\ ToSet(s) = M
       /\ s \in Seq(Message) /\ Len(s) \in Nat /\ Len(s) <= k + k
  BY <1>2, <1>3, <1>14, <1>15, HearsTyped DEF Hears, Gathered
<1>17. PICK A: A = Remembered  OBVIOUS
<1>18. /\ A = TurnsOf(conversation) /\ A \subseteq Nat /\ \A a \in A: a < t
       /\ Asked = A
  <2>1. A = TurnsOf(conversation)  BY <1>2, <1>3, <1>17, NothingMore
  <2>2. \A a \in A: a \in Nat /\ a <= k  BY <1>2, <1>3, <2>1, RememberedUpTo
  <2> QED  BY <1>2, <1>4, <1>17, <2>1, <2>2 DEF Asked
<1>19. PICK o: o = Said(m)  OBVIOUS
<1>20. /\ o.role = "user" /\ o.turn = None /\ o.id = i /\ o.at = c + 1
  BY <1>9, <1>11, <1>19 DEF Said
<1>21. o \in Message
  BY <1>8, <1>6, <1>9, <1>11, <1>19 DEF Said, Message
<1>22. PICK N: N = M \union {o}  OBVIOUS
<1>23. PICK B: B = A \union {t}  OBVIOUS
<1>24. \A x \in UsersOf(M): x.at < o.at
  <2> SUFFICES ASSUME NEW x \in UsersOf(M) PROVE x.at < o.at  OBVIOUS
  <2>1. x.at <= c  BY <1>6, <1>14 DEF Hears, Spoken, Timely
  <2>2. x.at \in Nat  BY <1>16 DEF UsersOf, Message
  <2> QED  BY <1>20, <2>1, <2>2
<1>25. OwnedByTurns(N) /\ ByTime(N) /\ OneForEach(N, B) /\ \A x \in M: x.id # i
  <2>1. OwnedByTurns(M) /\ ByTime(M) /\ OneForEach(M, A)
    BY <1>14, <1>18 DEF Hears, Spoken
  <2>2. o.role = "user" /\ o.turn = None /\ o.id = UserMessageOf(t)
    BY <1>7, <1>20
  <2>3. t \in Nat /\ M \subseteq Message /\ A \subseteq Nat /\ \A a \in A: a < t
    BY <1>5, <1>16, <1>18
  <2>4. OwnedByTurns(N) /\ ByTime(N) /\ OneForEach(N, B) /\ \A x \in M: x.id # o.id
    BY <1>21, <1>22, <1>23, <1>24, <2>1, <2>2, <2>3, AddingUser
  <2> QED  BY <1>20, <2>4
<1>26. th'.messages = Append(s, o)
  <2>1. PICK u: u = ProjectThread(th, m)  OBVIOUS
  <2>2. Len(s) < MaxMessages
    <3>1. k < MaxTurns  BY <1>1, <1>3
    <3> QED  BY <1>16, <3>1, BoundsAssumption
  <2>3. \A x \in ToSet(s): x.id # m.id  BY <1>9, <1>16, <1>25
  <2>4. u.messages = Append(s, o)
    BY <1>11, <1>15, <1>16, <1>19, <2>1, <2>2, <2>3, SaidThread
  <2>5. IsThread(u)  BY <1>11, <1>16, <2>1, QuietThread
  <2>6. th'.messages = u.messages  BY <1>11, <1>13, <2>1, <2>5, UntoldThread
  <2> QED  BY <2>4, <2>6
<1>27. /\ rows'.messages = N /\ rows'.turns = rows.turns /\ rows'.pending # NoPending
       /\ rows'.pending.message = i
  <2>1. PICK r: r = ProjectRows(rows, m)  OBVIOUS
  <2>2. \A x \in rows.messages: x.id # m.id  BY <1>9, <1>14, <1>25
  <2>3. r.messages = N /\ r.turns = rows.turns
    BY <1>11, <1>14, <1>16, <1>19, <1>22, <2>1, <2>2, SaidRows
  <2>4. IsRows(r)  BY <1>11, <1>16, <2>1, QuietRows
  <2>5. /\ rows'.messages = r.messages /\ rows'.turns = r.turns
        /\ rows'.pending # NoPending /\ rows'.pending.message = e.id
    BY <1>11, <1>13, <2>1, <2>4, StartRows
  <2> QED  BY <1>10, <2>3, <2>5
<1>28. ~Unended' /\ ~Reverting'
  BY <1>1, <1>2 DEF Unended, Reverting
<1>29. Gathered'
  <2>1. PICK r: r = Append(s, o)  OBVIOUS
  <2>2. r \in Seq(Message) /\ Len(r) = Len(s) + 1  BY <1>16, <1>21, <2>1
  <2>3. ToSet(r) = N
    <3>1. PICK n \in Nat: n = Len(s)  BY <1>16
    <3>2. /\ DOMAIN s = 1 .. n /\ DOMAIN r = 1 .. n + 1
          /\ r[n + 1] = o /\ \A j \in 1 .. n: r[j] = s[j]
      BY <1>16, <2>1, <2>2, <3>1
    <3>3. 1 .. n + 1 = (1 .. n) \union {n + 1}  OBVIOUS
    <3> QED  BY <1>16, <1>22, <3>2, <3>3 DEF ToSet
  <2>4. Len(r) + 0 <= sent' + provider'.turn
    <3>1. sent' = k + 1 /\ provider'.turn = k  BY <1>1, <1>2, <1>3
    <3> QED  BY <1>16, <2>2, <3>1
  <2> QED  BY <1>26, <1>27, <1>28, <2>1, <2>2, <2>3, <2>4 DEF Gathered
<1>30. Asked' = B /\ Remembered' = B
  <2>1. provider'.turn < sent'  BY <1>1, <1>2, <1>3
  <2>2. {x \in {sent'}: provider'.turn < sent'} = {t}  BY <1>5, <2>1
  <2>3. Remembered' = TurnsOf(conversation) \union {t}  BY <1>1, <2>2 DEF Remembered
  <2>4. Remembered' = B  BY <1>18, <1>23, <2>3
  <2> QED  BY <1>28, <2>4 DEF Asked
<1>31. Timely'
  <2>1. \A x \in UsersOf(N): x.at <= c + 1
    <3> SUFFICES ASSUME NEW x \in UsersOf(N) PROVE x.at <= c + 1  OBVIOUS
    <3>1. x \in UsersOf(M) \/ x = o  BY <1>22 DEF UsersOf
    <3>2. x \in UsersOf(M) => x.at < o.at /\ x.at \in Nat
      BY <1>16, <1>24 DEF UsersOf, Message
    <3> QED  BY <1>20, <3>1, <3>2
  <2>2. \A x \in N: x.role = "assistant" => x.turn <= provider.turn
    BY <1>14, <1>20, <1>22 DEF Hears, Spoken, Timely
  <2> QED  BY <1>1, <1>11, <1>27, <1>28, <2>1, <2>2 DEF Timely
<1>32. Owned'
  <2>1. rows.pending = NoPending
    <3>1. ~ (provider.turn < sent)  BY <1>2, <1>3
    <3> QED  BY <1>2, <3>1 DEF Hears, Owned
  <2>2. Rightly(rows', sent')  BY <1>27, <2>1 DEF Hears, Owned, Rightly
  <2>3. provider'.turn < sent'  BY <1>1, <1>2, <1>3
  <2>4. HasRow(rows', sent')  BY <1>27 DEF HasRow
  <2> QED  BY <1>5, <1>7, <1>27, <2>2, <2>3, <2>4 DEF Owned
<1> QED  BY <1>25, <1>27, <1>29, <1>30, <1>31, <1>32 DEF Hears, Spoken

(* The pending turn start is that of the turn that starts. *)
LEMMA HearsStartTurn ==
  ASSUME Typed, Tale, Hears, StartTurn, Typed'  PROVE Hears'
<1>1. /\ UNCHANGED <<th, rows, sent, clock, seen, job>>
      /\ ~provider.running /\ provider.turn < sent
      /\ provider' = [turn |-> provider.turn + 1, running |-> TRUE]
      /\ conversation' = Append(conversation, provider.turn + 1)
      /\ ingest' = Append(ingest, [type |-> "turn.started", turn |-> provider.turn + 1])
  BY DEF StartTurn, Emit, engine, reactor
<1>2. PICK k \in Nat: k = provider.turn  BY HearsTyped
<1>3. PICK t: t = k + 1  OBVIOUS
<1>4. sent = t /\ t \in Nat /\ provider'.turn = t /\ provider'.running /\ t \in Turns
  <2>1. provider.turn + 1 = sent  BY <1>1, <1>2, HearsTyped DEF Tale, OneTurn
  <2>2. sent \in 0 .. MaxTurns  BY HearsTyped
  <2> QED  BY <1>1, <1>2, <1>3, <2>1, <2>2, BoundsAssumption DEF Turns
<1>5. ~Reverting
  <2>1. provider.turn # sent  BY <1>2, <1>3, <1>4
  <2> QED  BY <2>1 DEF Tale, GoesBack, Silence
<1>6. Unended' /\ ~Reverting'  BY <1>1, <1>4, <1>5 DEF Unended, Reverting
<1>7. Opening'
  <2>1. PICK e: e = [type |-> "turn.started", turn |-> provider.turn + 1]  OBVIOUS
  <2> QED  BY <1>1, <2>1, OpeningEmitted
<1>8. Remembered' = Remembered
  <2>1. {x \in {sent}: provider.turn < sent} = {t}  BY <1>1, <1>4
  <2>2. Remembered = TurnsOf(conversation) \union {t}  BY <2>1 DEF Remembered
  <2>3. TurnsOf(conversation') = TurnsOf(conversation) \union {t}
    <3>1. PICK q, r: q = conversation /\ r = conversation'  OBVIOUS
    <3>2. q \in Seq(Turns) /\ r = Append(q, t)
      BY <1>1, <1>2, <1>3, <3>1 DEF Tale, History
    <3>3. PICK n \in Nat: n = Len(q)  BY <3>2
    <3>4. Len(r) = n + 1 /\ r[n + 1] = t /\ \A j \in 1 .. n: r[j] = q[j]
      BY <1>4, <3>2, <3>3
    <3>5. 1 .. n + 1 = (1 .. n) \union {n + 1}  OBVIOUS
    <3> QED  BY <3>1, <3>3, <3>4, <3>5 DEF TurnsOf
  <2>4. ~ (provider'.turn < sent')  BY <1>1, <1>4
  <2>5. {x \in {sent'}: provider'.turn < sent'} = {}  BY <2>4
  <2>6. Remembered' = TurnsOf(conversation') \union {}  BY <2>5 DEF Remembered
  <2> QED  BY <2>2, <2>3, <2>6
<1>9. Asked' = Asked  BY <1>5, <1>6, <1>8 DEF Asked
<1>10. Gathered'
  <2>1. PICK n \in Nat: n = Len(th.messages)  BY HearsTyped
  <2>2. n <= t + k  BY <1>2, <1>4, <2>1, HearsTyped
  <2>3. n + 1 <= t + t  BY <1>3, <2>2
  <2>4. Len(th'.messages) = n /\ sent' + provider'.turn = t + t  BY <1>1, <1>4, <2>1
  <2> QED  BY <1>1, <1>6, <2>3, <2>4 DEF Hears, Gathered
<1>11. Timely'
  <2>1. ASSUME NEW m \in rows.messages, m.role = "assistant"
        PROVE  m.turn <= t /\ m.turn # t
    <3>1. m.turn <= k  BY <1>2, <2>1 DEF Hears, Spoken, Timely
    <3>2. m.turn # None  BY <2>1 DEF Hears, Spoken, OwnedByTurns
    <3>3. m.turn \in Turns \union {None}  BY HearsTyped DEF Message
    <3>4. m.turn \in Nat  BY <3>2, <3>3, BoundsAssumption DEF Turns
    <3> QED  BY <1>3, <3>1, <3>4
  <2>2. \A m \in UsersOf(rows.messages): m.at <= clock  BY DEF Hears, Spoken, Timely
  <2> QED  BY <1>1, <1>4, <2>1, <2>2 DEF Timely
<1>12. Owned'  BY <1>1, <1>7, <1>8 DEF Hears, Owned
<1> QED  BY <1>1, <1>9, <1>10, <1>11, <1>12 DEF Hears, Spoken

(* The commands of the ingestion about an event of the latest turn. *)
LEMMA IngestedOfLatest ==
  ASSUME Typed, seen # None, AppliesLifecycle, NEW t, t = seen.event.turn
  PROVE  \/ seen.event.type = "turn.diff.updated" /\ IngestCommands = <<>>
         \/ /\ seen.event.type = "turn.started"
            /\ \E s \in SessionSets: /\ IngestCommands = <<s>> /\ s.turn = t
                                     /\ s.status = "running"
         \/ /\ seen.event.type = "turn.completed"
            /\ \E s \in SessionSets, m \in AssistantMessages:
                 /\ IngestCommands = <<s, m>> /\ s.turn = None
                 /\ m.turn = t /\ m.id = AssistantMessageOf(t)
         \/ /\ seen.event.type = "turn.diff.updated"
            /\ \E e \in Diffs: /\ IngestCommands = <<e>> /\ e.turn = t
                               /\ e.assistant = AssistantMessageOf(t)
<1>1. PICK q: q = IngestCommands  OBVIOUS
<1>2. CASE seen.event.type = "turn.started"
  <2>1. PICK u: u = SessionEvent("running", t)  OBVIOUS
  <2>2. q = <<u>>  BY <1>1, <1>2, <2>1 DEF IngestCommands
  <2>3. PICK s \in SessionSets: q = <<s>> /\ s.turn = t
    <3>1. \A m \in AssistantMessages: ~ (q = <<m>> /\ ~AppliesLifecycle)  OBVIOUS
    <3> QED  BY <1>1, <1>2, <3>1, IngestedCommands
  <2>4. s = u  BY <2>2, <2>3
  <2>5. s.status = "running"  BY <2>1, <2>4 DEF SessionEvent
  <2> QED  BY <1>1, <1>2, <2>3, <2>5
<1>3. CASE seen.event.type = "turn.completed"
  <2>1. PICK a: a = SessionEvent(IF seen.event.state = "failed" THEN "error" ELSE "ready",
                                 None)  OBVIOUS
  <2>2. PICK b: b = [type |-> "thread.message-sent", id |-> AssistantMessageOf(t),
                     role |-> "assistant", text |-> <<>>, turn |-> t,
                     streaming |-> FALSE, at |-> seen.event.at]  OBVIOUS
  <2>3. q = <<a>> \o <<b>>  BY <1>1, <1>3, <2>1, <2>2 DEF IngestCommands
  <2>4. PICK s \in SessionSets, m \in AssistantMessages: q = <<s, m>> /\ s.turn = None
    <3>1. \A m \in AssistantMessages: ~ (q = <<m>> /\ ~AppliesLifecycle)  OBVIOUS
    <3> QED  BY <1>1, <1>3, <3>1, IngestedCommands
  <2>5. m = b
    <3>1. PICK U: U = {a, b}  OBVIOUS
    <3>2. <<a>> \in Seq(U) /\ <<b>> \in Seq(U)  BY <3>1
    <3>3. PICK x: x = <<a>> \o <<b>>  OBVIOUS
    <3>4. x[2] = b  BY <3>2, <3>3
    <3> QED  BY <2>3, <2>4, <3>3, <3>4
  <2>6. m.turn = t /\ m.id = AssistantMessageOf(t)  BY <2>2, <2>5
  <2> QED  BY <1>1, <1>3, <2>4, <2>6
<1>4. CASE seen.event.type = "turn.diff.updated"
  <2>1. PICK e: e = DiffEvent(t, MaxCount(seen.checkpoints) + 1, ProviderDiff, "missing")
    OBVIOUS
  <2>2. q = <<>> \/ q = <<e>>  BY <1>1, <1>4, <2>1 DEF IngestCommands
  <2>3. e.turn = t /\ e.assistant = AssistantMessageOf(t)  BY <2>1 DEF DiffEvent
  <2>4. q = <<>> \/ \E d \in Diffs: q = <<d>>
    BY <1>1, <1>4, IngestedCommands
  <2>5. CASE q = <<>>  BY <1>1, <1>4, <2>5
  <2>6. CASE q # <<>>
    <3>1. PICK d \in Diffs: q = <<d>>  BY <2>4, <2>6
    <3>2. d = e  BY <2>2, <2>6, <3>1
    <3> QED  BY <1>1, <1>4, <2>3, <3>1, <3>2
  <2> QED  BY <2>5, <2>6
<1>5. seen.event.type \in {"turn.started", "turn.completed", "turn.diff.updated"}
  BY DEF Typed, QueuesTyped, Seen, Reports, Bounds
<1> QED  BY <1>2, <1>3, <1>4, <1>5

(* While anything of the latest turn is under way, it has its row. *)
LEMMA LatestHasRow ==
  ASSUME Typed, Tale, Hears, UnderWay
  PROVE  /\ provider.turn = sent /\ sent \in Remembered /\ sent \in Turns /\ ~Reverting
         /\ Rightly(rows, sent) /\ HasRow(rows, sent)
         /\ rows.pending # NoPending => /\ rows.pending.message = UserMessageOf(sent)
                                        /\ Opening
<1>1. LatestIsLast  BY DEF Tale, OneTurn
<1>2. PICK q: q = conversation  OBVIOUS
<1>3. q \in Seq(Turns) /\ q # <<>> /\ q[Len(q)] = sent /\ provider.turn = sent
  BY <1>1, <1>2 DEF LatestIsLast, Tale, History
<1>4. Len(q) \in 1 .. Len(q) /\ sent \in Turns
  <2>1. Len(q) \in Nat \ {0}  BY <1>3
  <2>2. Len(q) \in 1 .. Len(q)  BY <2>1
  <2>3. q[Len(q)] \in Turns  BY <1>3, <2>2
  <2> QED  BY <1>3, <2>2, <2>3
<1>5. sent \in TurnsOf(q)  BY <1>3, <1>4 DEF TurnsOf
<1>6. sent \in Remembered  BY <1>2, <1>5 DEF Remembered
<1>7. ~Reverting
  <2> SUFFICES ASSUME Reverting PROVE FALSE  OBVIOUS
  <2>1. Silence /\ domainIn = <<>>  BY DEF Tale, GoesBack
  <2>2. ~HearsOfCheckpoints
    <3>1. ToSet(domainIn) = {}  BY <2>1 DEF ToSet
    <3> QED  BY <3>1 DEF HearsOfCheckpoints
  <2>3. ~Capturing  BY DEF Reverting, Capturing
  <2> QED  BY <2>1, <2>2, <2>3 DEF UnderWay, Silence
<1>8. ~ (provider.turn < sent)
  <2>1. sent \in Nat  BY HearsTyped
  <2> QED  BY <1>3, <2>1
<1> QED  BY <1>3, <1>4, <1>6, <1>7, <1>8 DEF Hears, Owned

(* The row of the latest turn is written, and nothing is said. *)
LEMMA HearsRewritten ==
  ASSUME Typed, Tale, Hears, UnderWay, Typed',
         th'.messages = th.messages, rows'.messages = rows.messages,
         UNCHANGED <<provider, sent, conversation, clock, ingest>>,
         ~Reverting', Unended' => Unended,
         Rightly(rows', sent), HasRow(rows', sent),
         rows'.pending # NoPending => rows'.pending = rows.pending /\ (Opening => Opening')
  PROVE  Hears'
<1>1. /\ provider.turn = sent /\ ~Reverting
      /\ rows.pending # NoPending => /\ rows.pending.message = UserMessageOf(sent)
                                     /\ Opening
  BY LatestHasRow
<1>2. Asked' = Asked  BY <1>1, RememberedStays DEF Asked
<1>3. Gathered' /\ Spoken'  BY <1>2, HearsTyped, SaysNothing
<1>4. Owned'  BY <1>1 DEF Owned
<1> QED  BY <1>3, <1>4 DEF Hears

LEMMA HearsRecordCheckpoint ==
  ASSUME Typed, Tale, Hears, RecordCheckpoint, Typed'  PROVE Hears'
<1>1. /\ job.step = "record" /\ job' = NoJob /\ Dispatch(<<Recording>>)
      /\ UNCHANGED <<provider, sent, conversation, clock, ingest, seen>>
  BY DEF RecordCheckpoint, Recording, Outside, world
<1>2. PICK e: e = Recording  OBVIOUS
<1>3. e \in Diffs /\ e.turn = job.turn  BY <1>1, <1>2, RecordingTyped
<1>4. e.assistant = AssistantMessageOf(e.turn)
  BY <1>2 DEF Recording, DiffEvent
<1>5. Capturing /\ UnderWay  BY <1>1 DEF Capturing, UnderWay
<1>6. /\ provider.turn = sent /\ Rightly(rows, sent) /\ HasRow(rows, sent)
  BY <1>5, LatestHasRow
<1>7. e.turn = sent  BY <1>3, <1>5, <1>6 DEF Tale, OneCheckpoint
<1>8. th' = ProjectThread(th, e) /\ rows' = ProjectRows(rows, e)
  <2>1. Dispatch(<<e>>)  BY <1>1, <1>2
  <2> QED  BY <2>1, DispatchOne DEF Typed, QueuesTyped
<1>9. IsThread(th) /\ IsRows(rows)  BY HearsTyped
<1>10. th'.messages = th.messages  BY <1>3, <1>8, <1>9, UntoldThread
<1>11. /\ Rightly(rows', sent) /\ HasRow(rows', sent)
       /\ rows'.messages = rows.messages /\ rows'.pending = rows.pending
  <2>1. PICK r: r = rows  OBVIOUS
  <2>2. IsRows(r) /\ Rightly(r, e.turn) /\ HasRow(r, e.turn)
    BY <1>6, <1>7, <1>9, <2>1
  <2>3. /\ Rightly(ProjectRows(r, e), e.turn) /\ HasRow(ProjectRows(r, e), e.turn)
        /\ ProjectRows(r, e).messages = r.messages
        /\ ProjectRows(r, e).pending = r.pending
    BY <1>3, <1>4, <2>2, DiffOwner
  <2> QED  BY <1>7, <1>8, <2>1, <2>3
<1>12. ~Reverting' /\ Unended' = Unended /\ Opening' = Opening
  BY <1>1 DEF Reverting, NoJob, Unended, Opening
<1> QED  BY <1>1, <1>5, <1>10, <1>11, <1>12, HearsRewritten

(* What the end of a turn says is the first of the turn. *)
LEMMA HearsCompletion ==
  ASSUME MaxMessages \in Nat, 2 * MaxTurns <= MaxMessages, Typed, Tale, Hears, Typed',
         EndInHand, seen' = None,
         UNCHANGED <<provider, sent, conversation, clock, ingest, job>>,
         NEW s \in SessionSets, s.turn = None,
         NEW m \in AssistantMessages, m.turn = sent, m.id = AssistantMessageOf(sent),
         Dispatch(<<s, m>>)
  PROVE  Hears'
<1>1. UnderWay /\ Unended  BY DEF EndInHand, UnderWay, Unended
<1>2. /\ provider.turn = sent /\ ~Reverting /\ Rightly(rows, sent) /\ HasRow(rows, sent)
      /\ rows.pending # NoPending => Opening
      /\ sent \in Turns
  BY <1>1, LatestHasRow
<1>3. ingest = <<>> /\ ~provider.running  BY DEF EndInHand, Tale, OneTurn, SessionFollows
<1>4. rows.pending = NoPending
  <2>1. \A i \in 1 .. Len(ingest): FALSE  BY <1>3
  <2>2. ~Opening  BY <2>1 DEF EndInHand, Opening
  <2> QED  BY <1>2, <2>2
<1>5. ~Unended'  BY <1>3 DEF Unended
<1>6. PICK k \in Nat: k = sent  BY HearsTyped
<1>7. PICK M: M = rows.messages  OBVIOUS
<1>8. PICK ms: ms = th.messages  OBVIOUS
<1>9. PICK n \in Nat: n = Len(ms)  BY <1>8, HearsTyped
<1>10. /\ IsThread(th) /\ IsRows(rows) /\ M \subseteq Message /\ ToSet(ms) = M
       /\ ms \in Seq(Message) /\ n + 1 <= k + k
  BY <1>1, <1>2, <1>6, <1>7, <1>8, <1>9, HearsTyped DEF Hears, Gathered
<1>11. PICK o: o = Said(m)  OBVIOUS
<1>12. m.role = "assistant"  BY DEF AssistantMessages
<1>13. o.role = "assistant" /\ o.turn = sent /\ o.id = AssistantMessageOf(sent)
  BY <1>11, <1>12 DEF Said
<1>14. o \in Message  BY <1>11 DEF Said, Message, AssistantMessages
<1>15. PICK N: N = M \union {o}  OBVIOUS
<1>16. PICK A: A = Remembered  OBVIOUS
<1>17. A \subseteq Nat /\ Asked = A
  <2>1. A = TurnsOf(conversation)  BY <1>2, <1>6, <1>16, NothingMore
  <2> QED  BY <1>2, <1>16, <2>1, RememberedUpTo DEF Asked
<1>18. OwnedByTurns(N) /\ ByTime(N) /\ OneForEach(N, A) /\ \A x \in M: x.id # m.id
  <2>1. OwnedByTurns(M) /\ ByTime(M) /\ OneForEach(M, A)
    BY <1>7, <1>17 DEF Hears, Spoken
  <2>2. \A x \in M: x.role = "assistant" => x.turn # sent
    BY <1>1, <1>2, <1>7 DEF Hears, Spoken, Timely
  <2>3. M \subseteq Message /\ A \subseteq Nat /\ k \in Turns
    BY <1>2, <1>6, <1>10, <1>17
  <2>4. /\ o.role = "assistant" /\ o.turn = k /\ o.id = AssistantMessageOf(k)
        /\ Unanswered(M, k)
    BY <1>6, <1>13, <2>2 DEF Unanswered
  <2>5. OwnedByTurns(N) /\ ByTime(N) /\ OneForEach(N, A) /\ \A x \in M: x.id # o.id
    BY <1>14, <1>15, <2>1, <2>3, <2>4, AddingAssistant
  <2> QED  BY <1>13, <2>5
<1>19. /\ th' = ProjectThread(ProjectThread(th, s), m)
       /\ rows' = ProjectRows(ProjectRows(rows, s), m)
  <2>1. ~Watched(s)  BY DEF Watched, SessionSets
  <2> QED  BY <2>1, DispatchTwo DEF Typed, QueuesTyped
<1>20. th'.messages = Append(ms, o)
  <2>1. PICK u: u = ProjectThread(th, s)  OBVIOUS
  <2>2. IsThread(u) /\ u.messages = ms
    BY <1>8, <1>10, <2>1, SessionThread, UntoldThread
  <2>3. Len(ms) < MaxMessages
    <3>1. k <= MaxTurns  BY <1>2, <1>6, BoundsAssumption DEF Turns
    <3> QED  BY <1>9, <1>10, <3>1, BoundsAssumption
  <2>4. \A x \in ToSet(u.messages): x.id # m.id  BY <1>10, <1>18, <2>2
  <2>5. ProjectThread(u, m).messages = Append(u.messages, Said(m))
    BY <1>10, <2>2, <2>3, <2>4, SaidThread
  <2> QED  BY <1>11, <1>19, <2>1, <2>2, <2>5
<1>21. /\ rows'.messages = N /\ rows'.pending = NoPending
       /\ Rightly(rows', sent) /\ HasRow(rows', sent)
  <2>1. PICK r: r = ProjectRows(rows, s)  OBVIOUS
  <2>2. IsRows(r)  BY <1>10, <2>1, SessionRows
  <2>3. r.messages = M /\ r.turns = rows.turns /\ r.pending = NoPending
    BY <1>4, <1>7, <1>10, <2>1, UntoldRows
  <2>4. Rightly(r, m.turn) /\ HasRow(r, m.turn)
    BY <1>2, <1>4, <2>3 DEF Rightly, HasRow
  <2>5. PICK u: u = ProjectRows(r, m)  OBVIOUS
  <2>6. u.messages = r.messages \union {Said(m)} /\ u.pending = r.pending
    BY <1>18, <2>2, <2>3, <2>5, SaidRows
  <2>7. Rightly(u, m.turn) /\ HasRow(u, m.turn)
    BY <2>2, <2>4, <2>5, SaidOwner
  <2> QED  BY <1>11, <1>15, <1>19, <2>1, <2>3, <2>5, <2>6, <2>7
<1>22. Gathered'
  <2>1. PICK r: r = Append(ms, o)  OBVIOUS
  <2>2. r \in Seq(Message) /\ Len(r) = n + 1  BY <1>9, <1>10, <1>14, <2>1
  <2>3. ToSet(r) = N
    <3>1. /\ DOMAIN ms = 1 .. n /\ DOMAIN r = 1 .. n + 1
          /\ r[n + 1] = o /\ \A j \in 1 .. n: r[j] = ms[j]
      BY <1>9, <1>10, <2>1, <2>2
    <3>2. 1 .. n + 1 = (1 .. n) \union {n + 1}  OBVIOUS
    <3> QED  BY <1>10, <1>15, <3>1, <3>2 DEF ToSet
  <2>4. Len(r) + 0 <= sent' + provider'.turn
    <3>1. sent' = k /\ provider'.turn = k  BY <1>2, <1>6
    <3> QED  BY <1>10, <2>2, <3>1
  <2> QED  BY <1>5, <1>20, <1>21, <2>1, <2>2, <2>3, <2>4 DEF Gathered
<1>23. Asked' = A
  <2>1. ~Reverting'  BY <1>2 DEF Reverting
  <2> QED  BY <1>16, <2>1, RememberedStays DEF Asked
<1>24. Timely'
  <2>1. UsersOf(N) = UsersOf(M)  BY <1>13, <1>15 DEF UsersOf
  <2>2. \A x \in UsersOf(N): x.at <= clock  BY <1>7, <2>1 DEF Hears, Spoken, Timely
  <2>3. \A x \in N: x.role = "assistant" => x.turn <= provider.turn
    <3>1. \A x \in M: x.role = "assistant" => x.turn <= provider.turn
      BY <1>7 DEF Hears, Spoken, Timely
    <3>2. o.turn <= provider.turn  BY <1>2, <1>6, <1>13
    <3> QED  BY <1>15, <3>1, <3>2
  <2> QED  BY <1>5, <1>21, <2>2, <2>3 DEF Timely
<1>25. Owned'  BY <1>21 DEF Owned
<1> QED  BY <1>18, <1>21, <1>22, <1>23, <1>24, <1>25 DEF Hears, Spoken

LEMMA HearsIngestDispatch ==
  ASSUME MaxMessages \in Nat, 2 * MaxTurns <= MaxMessages, Typed, Tale, Hears,
         IngestDispatch, failures' = failures, Typed'
  PROVE  Hears'
<1>1. /\ seen # None /\ seen' = None /\ Dispatch(IngestCommands)
      /\ UNCHANGED <<provider, sent, conversation, clock, ingest, job>>
  <2>1. failures # failures + 1  BY DEF Typed, WorldTyped
  <2> QED  BY <2>1 DEF IngestDispatch, world, reactor
<1>2. UnderWay /\ Unended  BY <1>1 DEF UnderWay, Unended
<1>3. /\ provider.turn = sent /\ ~Reverting /\ Rightly(rows, sent) /\ HasRow(rows, sent)
      /\ rows.pending # NoPending => rows.pending.message = UserMessageOf(sent)
  BY <1>2, LatestHasRow
<1>4. seen.event.turn = sent /\ AppliesLifecycle
  BY <1>1, <1>3 DEF Tale, OneTurn, SessionFollows, AppliesLifecycle
<1>5. ~Reverting'  BY <1>1, <1>3 DEF Reverting
<1>6. seen.event.type # "turn.started" => (Opening => Opening')
  BY <1>1 DEF Opening
<1>7. IsThread(th) /\ IsRows(rows)  BY HearsTyped
<1>8. CASE IngestCommands = <<>> /\ seen.event.type = "turn.diff.updated"
  <2>1. th' = th /\ rows' = rows
    <3>1. Dispatch(<<>>)  BY <1>1, <1>8
    <3> QED  BY <3>1, DispatchNone DEF Typed, QueuesTyped
  <2> QED  BY <1>1, <1>2, <1>3, <1>5, <1>6, <1>8, <2>1, HearsRewritten
<1>9. ASSUME NEW s \in SessionSets, IngestCommands = <<s>>, s.turn = sent,
             s.status = "running"
      PROVE  Hears'
  <2>1. th' = ProjectThread(th, s) /\ rows' = ProjectRows(rows, s)
    <3>1. Dispatch(<<s>>)  BY <1>1, <1>9
    <3> QED  BY <3>1, DispatchOne DEF Typed, QueuesTyped
  <2>2. th'.messages = th.messages  BY <1>7, <2>1, UntoldThread
  <2>3. /\ Rightly(rows', sent) /\ HasRow(rows', sent)
        /\ rows'.messages = rows.messages /\ rows'.pending = NoPending
    <3>1. PICK r: r = rows  OBVIOUS
    <3>2. /\ IsRows(r) /\ Rightly(r, s.turn) /\ HasRow(r, s.turn)
          /\ r.pending # NoPending => r.pending.message = UserMessageOf(s.turn)
      BY <1>3, <1>7, <1>9, <3>1
    <3>3. s.turn # None
      <4>1. sent \in Turns  BY <1>2, LatestHasRow
      <4> QED  BY <1>9, <4>1, ValuesAssumption DEF Turns
    <3>4. /\ Rightly(ProjectRows(r, s), s.turn) /\ HasRow(ProjectRows(r, s), s.turn)
          /\ ProjectRows(r, s).messages = r.messages
          /\ ProjectRows(r, s).pending = NoPending
      BY <1>9, <3>2, <3>3, SessionOwner
    <3> QED  BY <1>9, <2>1, <3>1, <3>4
  <2> QED  BY <1>1, <1>2, <1>5, <2>2, <2>3, HearsRewritten
<1>10. ASSUME NEW s \in SessionSets, NEW m \in AssistantMessages,
              IngestCommands = <<s, m>>, s.turn = None, m.turn = sent,
              m.id = AssistantMessageOf(sent), seen.event.type = "turn.completed"
       PROVE  Hears'
  <2>1. Dispatch(<<s, m>>)  BY <1>1, <1>10
  <2>2. EndInHand  BY <1>1, <1>10 DEF EndInHand
  <2> QED  BY <1>1, <1>10, <2>1, <2>2, HearsCompletion
<1>11. ASSUME NEW e \in Diffs, IngestCommands = <<e>>, e.turn = sent,
              e.assistant = AssistantMessageOf(sent),
              seen.event.type = "turn.diff.updated"
       PROVE  Hears'
  <2>1. th' = ProjectThread(th, e) /\ rows' = ProjectRows(rows, e)
    <3>1. Dispatch(<<e>>)  BY <1>1, <1>11
    <3> QED  BY <3>1, DispatchOne DEF Typed, QueuesTyped
  <2>2. th'.messages = th.messages  BY <1>7, <2>1, UntoldThread
  <2>3. /\ Rightly(rows', sent) /\ HasRow(rows', sent)
        /\ rows'.messages = rows.messages /\ rows'.pending = rows.pending
    <3>1. PICK r: r = rows  OBVIOUS
    <3>2. IsRows(r) /\ Rightly(r, e.turn) /\ HasRow(r, e.turn)
      BY <1>3, <1>7, <1>11, <3>1
    <3>3. /\ Rightly(ProjectRows(r, e), e.turn) /\ HasRow(ProjectRows(r, e), e.turn)
          /\ ProjectRows(r, e).messages = r.messages
          /\ ProjectRows(r, e).pending = r.pending
      BY <1>11, <3>2, DiffOwner
    <3> QED  BY <1>11, <2>1, <3>1, <3>3
  <2> QED  BY <1>1, <1>2, <1>5, <1>6, <1>11, <2>2, <2>3, HearsRewritten
<1> QED  BY <1>1, <1>4, <1>8, <1>9, <1>10, <1>11, IngestedOfLatest

(* A revert keeps the same turns in both, those it leaves in the conversation. *)
OfFirst(K, cs, n) == \A t: t \in K <=> \E i \in 1 .. n: t = cs[i].turn
OfCounted(K, cs, n) == \A t: t \in K <=> \E c \in ToSet(cs): c.count <= n /\ c.turn = t

LEMMA KeptAlike ==
  ASSUME Typed, Matching, Counted, NEW cs, cs = th.checkpoints, NEW n \in 0 .. Len(cs),
         NEW K, OfFirst(K, cs, n)
  PROVE  OfCounted(K, cs, n) /\ TurnsKept(rows, n) = K
<1>1. /\ cs \in Seq(Checkpoint) /\ DOMAIN cs = 1 .. Len(cs) /\ Len(cs) \in Nat
  BY Listed
<1>2. PICK L \in Nat: L = Len(cs)  BY <1>1
<1>3. n \in Nat /\ n <= L  BY <1>2
<1>4. \A i \in 1 .. L: cs[i].count = i /\ cs[i] \in ToSet(cs)
  BY <1>1, <1>2 DEF Matching, ToSet
<1>5. \A c \in ToSet(cs): \E i \in 1 .. L: c = cs[i]  BY <1>1, <1>2 DEF ToSet
<1>6. \A t: t \in K <=> \E c \in ToSet(cs): c.count <= n /\ c.turn = t
  <2>1. ASSUME NEW t \in K PROVE \E c \in ToSet(cs): c.count <= n /\ c.turn = t
    <3>1. PICK i \in 1 .. n: t = cs[i].turn  BY DEF OfFirst
    <3>2. i \in 1 .. L /\ i <= n  BY <1>3
    <3> QED  BY <1>4, <3>1, <3>2
  <2>2. ASSUME NEW c \in ToSet(cs), c.count <= n PROVE c.turn \in K
    <3>1. PICK i \in 1 .. L: c = cs[i]  BY <1>5
    <3>2. i \in 1 .. n  BY <1>3, <1>4, <2>2, <3>1
    <3> QED  BY <3>1, <3>2 DEF OfFirst
  <2> QED  BY <2>1, <2>2
<1>8. PICK r: r = rows  OBVIOUS
<1>9. \A c: c \in CheckpointRows(r.turns) <=> \E x \in r.turns: x.count # None /\ c = Point(x)
  BY PointsAreRows
<1>10. \A t: t \in TurnsKept(r, n) <=>
               \E x \in r.turns: x.count # None /\ x.count <= n /\ x.turn = t
  BY DEF TurnsKept, KeptTurns
<1>11. ASSUME NEW t \in TurnsKept(r, n) PROVE t \in K
  <2>1. PICK x \in r.turns: x.count # None /\ x.count <= n /\ x.turn = t  BY <1>10
  <2>2. PICK p: p = Point(x)  OBVIOUS
  <2>3. p \in CheckpointRows(r.turns) /\ p.turn = t /\ p.count = x.count
    BY <1>9, <2>1, <2>2 DEF Point
  <2>4. PICK d \in ToSet(cs): p.turn = d.turn /\ p.count = d.count
    BY <1>8, <2>3 DEF Counted, SameTurns, InThread, InRows
  <2> QED  BY <1>6, <2>1, <2>3, <2>4
<1>12. ASSUME NEW t \in K PROVE t \in TurnsKept(r, n)
  <2>1. PICK c \in ToSet(cs): c.count <= n /\ c.turn = t  BY <1>6
  <2>2. PICK d \in CheckpointRows(r.turns): c.turn = d.turn /\ c.count = d.count
    BY <1>8 DEF Counted, SameTurns, InThread, InRows
  <2>3. PICK x \in r.turns: x.count # None /\ d = Point(x)  BY <1>9
  <2>4. x.turn = t /\ x.count <= n  BY <2>1, <2>2, <2>3 DEF Point
  <2> QED  BY <1>10, <2>3, <2>4
<1>13. TurnsKept(rows, n) = K  BY <1>8, <1>11, <1>12
<1> QED  BY <1>6, <1>13 DEF OfCounted

(* A revert prunes the read model and the rows to the same messages. *)
LEMMA HearsRecordRevert ==
  ASSUME MaxMessages \in Nat, 2 * MaxTurns <= MaxMessages, Typed, Tale, Ascending, Counted,
         Hears, RecordRevert, Typed'
  PROVE  Hears'
<1>1. /\ job.step = "complete" /\ job' = NoJob
      /\ Dispatch(<<[type |-> "thread.reverted", count |-> job.count]>>)
      /\ UNCHANGED <<provider, sent, conversation, clock, ingest, seen>>
  BY DEF RecordRevert, Outside, world
<1>2. PICK n \in Nat: n = job.count  BY DEF Typed, JobTyped, Job
<1>3. PICK e: e = [type |-> "thread.reverted", count |-> n]  OBVIOUS
<1>4. e \in Reverts /\ e.count = n  BY <1>3 DEF Reverts
<1>5. th' = ProjectThread(th, e) /\ rows' = ProjectRows(rows, e)
  <2>1. Dispatch(<<e>>)  BY <1>1, <1>2, <1>3
  <2> QED  BY <2>1, DispatchOne DEF Typed, QueuesTyped
<1>6. /\ Reverting /\ Silence /\ n <= Len(th.checkpoints) /\ Len(conversation) = n
      /\ provider.turn = sent
  BY <1>1, <1>2 DEF Reverting, Tale, GoesBack, Silence
<1>7. ~Unended /\ ~Unended' /\ ~Opening /\ ~Reverting'
  <2>1. ingest = <<>>  BY <1>6 DEF Silence
  <2>2. \A i \in 1 .. Len(ingest): FALSE  BY <2>1
  <2> QED  BY <1>1, <1>6, <2>2 DEF Silence, Unended, Opening, Reverting, NoJob
<1>8. PICK k \in Nat: k = sent  BY HearsTyped
<1>9. rows.pending = NoPending
  <2>1. ~ (provider.turn < sent)  BY <1>6, <1>8
  <2> QED  BY <1>7, <2>1 DEF Hears, Owned
<1>10. PICK M: M = rows.messages  OBVIOUS
<1>11. PICK s: s = th.messages  OBVIOUS
<1>12. PICK cs: cs = th.checkpoints  OBVIOUS
<1>13. PICK r: r = rows  OBVIOUS
<1>14. /\ IsThread(th) /\ IsRows(r) /\ M \subseteq Message /\ M = ToSet(s)
       /\ s \in Seq(Message) /\ Len(s) \in Nat /\ Len(s) <= k + k /\ k <= MaxTurns
       /\ r.messages = M /\ r.pending = NoPending /\ Rightly(r, k)
  <2>1. k <= MaxTurns  BY <1>8 DEF Typed, WorldTyped
  <2>2. s \in Seq(Message) /\ M = ToSet(s)  BY <1>10, <1>11 DEF Hears, Gathered
  <2>3. Len(s) \in Nat  BY <2>2
  <2>4. Len(s) <= k + k
    <3>1. Len(s) + 0 <= k + k  BY <1>6, <1>7, <1>8, <1>11 DEF Hears, Gathered
    <3> QED  BY <2>3, <3>1
  <2>5. Rightly(r, k)  BY <1>8, <1>13 DEF Hears, Owned
  <2>6. IsThread(th) /\ IsRows(r)  BY <1>13 DEF Typed, EngineTyped
  <2>7. M \subseteq Message  BY <1>10, HearsTyped
  <2> QED  BY <1>9, <1>10, <1>13, <2>1, <2>2, <2>3, <2>4, <2>5, <2>6, <2>7
<1>15. /\ cs \in Seq(Checkpoint) /\ DOMAIN cs = 1 .. Len(cs) /\ Len(cs) \in Nat
  BY <1>12, Listed
<1>16. PICK L \in Nat: L = Len(cs)  BY <1>15
<1>17. n \in 0 .. L  BY <1>6, <1>12, <1>16
<1>18. PICK c: c = [i \in 1 .. L |-> cs[i].turn]  OBVIOUS
<1>19. \A i \in 1 .. L: c[i] = cs[i].turn /\ c[i] \in Turns
  BY <1>15, <1>16, <1>18 DEF Checkpoint
<1>20. PICK K: K = {cs[i].turn: i \in 1 .. n}  OBVIOUS
<1>21. PICK A: A = Asked  OBVIOUS
<1>22. \A i \in 1 .. n: i \in 1 .. L  BY <1>17
<1>23. A = {c[i]: i \in 1 .. L} /\ K = {c[i]: i \in 1 .. n} /\ K \subseteq A /\ None \notin K
  <2>1. A = {cs[i].turn: i \in 1 .. L}
    BY <1>6, <1>12, <1>16, <1>21 DEF Asked, Checkpointed
  <2>2. A = {c[i]: i \in 1 .. L}  BY <1>19, <2>1
  <2>3. K = {c[i]: i \in 1 .. n}  BY <1>19, <1>20, <1>22
  <2>4. A \subseteq Turns  BY <1>19, <2>2
  <2>5. None \notin Turns  BY ValuesAssumption DEF Turns
  <2> QED  BY <1>22, <2>2, <2>3, <2>4, <2>5
<1>24. OwnedByTurns(M) /\ ByTime(M) /\ OneForEach(M, A)
  BY <1>10, <1>21 DEF Hears, Spoken
<1>25. OnePerTurn(M, c, L)
  <2>1. \A i, j \in 1 .. L: i < j => c[i] < c[j]
    BY <1>6, <1>12, <1>16, <1>19 DEF Ascending
  <2>2. \A m \in UsersOf(M): \E i \in 1 .. L: m.id = UserMessageOf(c[i])
    BY <1>23, <1>24 DEF OneForEach
  <2>3. \A i \in 1 .. L: \E m \in UsersOf(M): m.id = UserMessageOf(c[i])
    <3>1. \A i \in 1 .. L: c[i] \in A  BY <1>23
    <3> QED  BY <1>24, <3>1 DEF OneForEach
  <2> QED  BY <1>19, <2>1, <2>2, <2>3 DEF OnePerTurn
<1>26. /\ K = {x.turn: x \in {y \in ToSet(cs): y.count <= n}}
       /\ TurnsKept(r, n) = K
  <2>1. n \in 0 .. Len(cs)  BY <1>16, <1>17
  <2>2. Matching  BY DEF Tale
  <2>3. OfFirst(K, cs, n)  BY <1>20 DEF OfFirst
  <2>4. OfCounted(K, cs, n) /\ TurnsKept(rows, n) = K
    BY <1>12, <2>1, <2>2, <2>3, KeptAlike
  <2> QED  BY <1>13, <2>4 DEF OfCounted
<1>27. PICK V: V = UsersFor(M, K)  OBVIOUS
<1>28. PICK N: N = MessagesOf(M, V, K)  OBVIOUS
<1>29. ToSet(RetainMessages(s, K, n)) = N /\ RetainRows(r, n) = N
  <2>1. Lists(c, n, K)  BY <1>23 DEF Lists
  <2>2. IsRows(r) /\ r.messages = M /\ r.pending = NoPending /\ Rightly(r, k)  BY <1>14
  <2>3. s \in Seq(Message) /\ M = ToSet(s) /\ TurnsKept(r, n) = K  BY <1>14, <1>26
  <2>4. /\ ToSet(RetainMessages(s, K, n)) = MessagesOf(M, V, K)
        /\ RetainRows(r, n) = MessagesOf(M, V, K)
    BY <1>17, <1>24, <1>25, <1>27, <2>1, <2>2, <2>3, PrunedAlike
  <2> QED  BY <1>28, <2>4
<1>30. N \subseteq M /\ OwnedByTurns(N) /\ ByTime(N) /\ OneForEach(N, K)
  BY <1>23, <1>24, <1>27, <1>28, Pruning
<1>31. PICK ms: ms = th'.messages  OBVIOUS
<1>32. ms \in Seq(Message) /\ ToSet(ms) = N /\ Len(ms) \in Nat /\ Len(ms) <= Len(s)
  <2>1. PICK t: t = th  OBVIOUS
  <2>2. Len(t.messages) <= MaxMessages
    BY <1>11, <1>14, <2>1, BoundsAssumption
  <2>3. /\ IsThread(t) /\ t.messages \in Seq(Message)
        /\ K = {x.turn: x \in {y \in ToSet(t.checkpoints): y.count <= e.count}}
    BY <1>4, <1>11, <1>12, <1>14, <1>26, <2>1
  <2>4. /\ ProjectThread(t, e).messages = RetainMessages(t.messages, K, e.count)
        /\ RetainMessages(t.messages, K, e.count) \in Seq(Message)
        /\ Len(RetainMessages(t.messages, K, e.count)) <= Len(t.messages)
    BY <1>4, <2>2, <2>3, PrunedThread
  <2>5. ms = RetainMessages(s, K, n)
    BY <1>4, <1>5, <1>11, <1>31, <2>1, <2>4
  <2> QED  BY <1>4, <1>11, <1>29, <2>1, <2>4, <2>5
<1>33. /\ rows'.messages = N /\ rows'.turns = KeptTurns(r, n) /\ rows'.pending = NoPending
  BY <1>4, <1>5, <1>13, <1>14, <1>29, PrunedRows
<1>34. Gathered'
  <2>1. sent' + provider'.turn = k + k  BY <1>1, <1>6, <1>8
  <2>2. Len(ms) + 0 <= k + k  BY <1>14, <1>32
  <2> QED  BY <1>7, <1>31, <1>32, <1>33, <2>1, <2>2 DEF Gathered
<1>35. Asked' = K /\ Remembered' = K
  <2>1. PICK q: q = conversation  OBVIOUS
  <2>2. \A i \in 1 .. n: q[i] = cs[i].turn
    <3>1. \A i \in 1 .. n: i <= Len(q)  BY <1>6, <2>1
    <3> QED  BY <1>12, <1>16, <1>22, <2>1, <3>1 DEF Tale, Matching
  <2>3. TurnsOf(q) = K  BY <1>6, <1>20, <2>1, <2>2 DEF TurnsOf
  <2>4. Remembered = TurnsOf(q)  BY <1>6, <1>8, <2>1, NothingMore
  <2>5. Remembered' = Remembered  BY <1>1, RememberedStays
  <2> QED  BY <1>7, <2>3, <2>4, <2>5 DEF Asked
<1>36. Timely'
  <2>1. UsersOf(N) \subseteq UsersOf(M)  BY <1>30 DEF UsersOf
  <2>2. \A x \in UsersOf(N): x.at <= clock  BY <1>10, <2>1 DEF Hears, Spoken, Timely
  <2>3. \A x \in N: x.role = "assistant" => x.turn <= provider.turn
    BY <1>10, <1>30 DEF Hears, Spoken, Timely
  <2> QED  BY <1>1, <1>7, <1>33, <2>2, <2>3 DEF Timely
<1>37. Owned'
  <2>1. rows'.turns \subseteq r.turns  BY <1>33 DEF KeptTurns
  <2>2. Rightly(rows', sent')  BY <1>14, <2>1 DEF Rightly
  <2>3. ASSUME sent' \in Remembered' PROVE HasRow(rows', sent')
    <3>1. sent \in TurnsKept(r, n)  BY <1>1, <1>26, <1>35, <2>3
    <3>2. \E x \in KeptTurns(r, n): x.turn = sent  BY <3>1 DEF TurnsKept
    <3> QED  BY <1>1, <1>33, <3>2 DEF HasRow
  <2> QED  BY <1>33, <2>2, <2>3 DEF Owned
<1> QED  BY <1>30, <1>33, <1>34, <1>35, <1>36, <1>37 DEF Hears, Spoken

(* Turns are remembered in the order in which they were asked for. *)
LEMMA AscendingStays ==
  ASSUME Ascending, conversation' = conversation,
         Reverting' => Reverting /\ th'.checkpoints = th.checkpoints
  PROVE  Ascending'
BY DEF Ascending

LEMMA AscendingStart ==
  ASSUME Typed, Tale, Ascending, StartTurn  PROVE Ascending'
<1>1. /\ provider.turn < sent /\ conversation' = Append(conversation, provider.turn + 1)
      /\ job' = job
  BY DEF StartTurn, reactor
<1>2. PICK q, r: q = conversation /\ r = conversation'  OBVIOUS
<1>3. PICK p \in Nat: p = provider.turn
  BY BoundsAssumption DEF Typed, WorldTyped
<1>4. PICK l \in Nat: l = Len(q)  BY <1>2 DEF Tale, History
<1>5. /\ Len(r) = l + 1 /\ r[l + 1] = p + 1 /\ \A i \in 1 .. l: r[i] = q[i]
  BY <1>1, <1>2, <1>3, <1>4 DEF Tale, History
<1>6. \A i \in 1 .. l: q[i] \in Nat /\ q[i] <= p
  BY <1>2, <1>3, <1>4, BoundsAssumption DEF Tale, History, Turns
<1>7. \A i, j \in 1 .. l: i < j => q[i] < q[j]  BY <1>2, <1>4 DEF Ascending
<1>8. ASSUME NEW i \in 1 .. l + 1, NEW j \in 1 .. l + 1, i < j PROVE r[i] < r[j]
  <2>1. i \in 1 .. l  BY <1>8
  <2>2. CASE j \in 1 .. l  BY <1>5, <1>7, <1>8, <2>1, <2>2
  <2>3. CASE j = l + 1
    <3>1. r[i] = q[i] /\ q[i] <= p /\ q[i] \in Nat  BY <1>5, <1>6, <2>1
    <3> QED  BY <1>5, <2>3, <3>1
  <2> QED  BY <1>8, <2>2, <2>3
<1>9. ~Reverting'
  <2>1. provider.turn # sent  BY <1>1, <1>3
  <2> QED  BY <1>1, <2>1 DEF Tale, GoesBack, Silence, Reverting
<1> QED  BY <1>2, <1>5, <1>8, <1>9 DEF Ascending

LEMMA AscendingTakes ==
  ASSUME Typed, Ascending, TakeDomain \/ TakeRuntime, Typed', Tale'  PROVE Ascending'
<1>1. th' = th /\ conversation' = conversation
  BY DEF TakeDomain, TakeRuntime, engine, world
<1>2. ASSUME Reverting'
      PROVE  \A i, j \in 1 .. Len(th'.checkpoints):
               i < j => th'.checkpoints[i].turn < th'.checkpoints[j].turn
  <2>1. job'.step = "restore"  BY <1>2, TakesAJob DEF Reverting
  <2>2. Len(conversation') = Len(th'.checkpoints)  BY <1>2, <2>1 DEF Tale, GoesBack
  <2>3. PICK cs, q: cs = th'.checkpoints /\ q = conversation'  OBVIOUS
  <2>4. PICK l \in Nat: l = Len(cs)
    <3>1. cs = th.checkpoints  BY <1>1, <2>3
    <3>2. Len(cs) \in Nat  BY <3>1, Listed
    <3> QED  BY <3>2
  <2>5. \A i \in 1 .. l: cs[i].turn = q[i]
    <3>1. \A i \in 1 .. l: i <= l  OBVIOUS
    <3> QED  BY <2>2, <2>3, <2>4, <3>1 DEF Tale, Matching
  <2>6. \A i, j \in 1 .. l: i < j => q[i] < q[j]
    BY <1>1, <2>2, <2>3, <2>4 DEF Ascending
  <2> QED  BY <2>3, <2>4, <2>5, <2>6
<1> QED  BY <1>1, <1>2 DEF Ascending

LEMMA AscendingRollback ==
  ASSUME Typed, Tale, Ascending, RollbackConversation  PROVE Ascending'
<1>1. /\ job.step = "rollback" /\ th' = th
      /\ \E left: conversation' = SubSeq(conversation, 1, IF left < 0 THEN 0 ELSE left)
                  /\ left = Len(conversation) - (job.current - job.count)
  BY DEF RollbackConversation, engine
<1>2. PICK q, r: q = conversation /\ r = conversation'  OBVIOUS
<1>3. PICK l \in Nat: l = Len(q)  BY <1>2 DEF Tale, History
<1>4. job.current \in Nat /\ job.count \in Nat /\ job.count <= job.current
  BY <1>1 DEF Typed, JobTyped, Job, Tale, GoesBack, Reverting
<1>5. PICK n \in 0 .. l: r = SubSeq(q, 1, n)
  <2>1. PICK left: /\ r = SubSeq(q, 1, IF left < 0 THEN 0 ELSE left)
                   /\ left = l - (job.current - job.count)
    BY <1>1, <1>2, <1>3
  <2>2. (IF left < 0 THEN 0 ELSE left) \in 0 .. l  BY <1>3, <1>4, <2>1
  <2> QED  BY <2>1, <2>2
<1>6. Len(r) = n /\ \A i \in 1 .. n: r[i] = q[i] /\ i \in 1 .. l
  BY <1>2, <1>3, <1>5 DEF Tale, History
<1>7. \A i, j \in 1 .. l: i < j => q[i] < q[j]  BY <1>2, <1>3 DEF Ascending
<1>8. \A i, j \in 1 .. n: i < j => r[i] < r[j]  BY <1>6, <1>7
<1>9. Reverting  BY <1>1 DEF Reverting
<1> QED  BY <1>1, <1>2, <1>6, <1>8, <1>9 DEF Ascending

(* Both parts have checkpoints of the same turns, ... *)
LEMMA CountedStill ==
  ASSUME Counted, Still  PROVE Counted'
BY DEF Counted, Still, SameTurns, InThread, InRows

(* ... also when one more is recorded, ... *)
LEMMA CountedRecord ==
  ASSUME MaxTurns <= MaxCheckpoints, Typed, Tale, Counted, LatestIsLast, ~Reverting,
         NEW e \in Diffs, Recorded(e), e.turn = provider.turn,
         e.count = Len(conversation)
  PROVE  Counted'
<1>1. PICK cs: cs = th.checkpoints  OBVIOUS
<1>2. /\ cs \in Seq(Checkpoint) /\ DOMAIN cs = 1 .. Len(cs) /\ Len(cs) \in Nat
      /\ \A i, j \in 1 .. Len(cs): cs[i].turn = cs[j].turn => i = j
  BY <1>1, Listed
<1>3. Matching /\ History /\ Len(conversation) \in {Len(cs), Len(cs) + 1}
  BY <1>1 DEF Tale, Complete
<1>4. \A c \in ToSet(cs): c.turn = e.turn =>
        /\ c.count = Len(conversation) /\ Len(conversation) = Len(cs)
        /\ cs # <<>> /\ cs[Len(cs)] = c
  BY <1>1, <1>3, CapturedIsLast
<1>5. ASSUME NEW c \in ToSet(cs), c.count = e.count PROVE c.turn = e.turn
  <2>1. PICK i \in 1 .. Len(cs): c = cs[i]  BY <1>2 DEF ToSet
  <2>2. PICK n: n = Len(conversation)  OBVIOUS
  <2>3. c.count = i /\ i = n  BY <1>1, <1>3, <1>5, <2>1, <2>2 DEF Matching
  <2>4. c.turn = conversation[n]
    <3>1. i <= n  BY <1>2, <2>3
    <3> QED  BY <1>1, <1>3, <2>1, <2>2, <2>3, <3>1 DEF Matching
  <2> QED  BY <2>2, <2>4 DEF LatestIsLast
<1>6. \A c \in ToSet(cs): c.turn = e.turn <=> c.count = e.count  BY <1>4, <1>5
<1>7. PICK S, T, R: S = InThread /\ T = InRows /\ R = InRows'  OBVIOUS
<1>8. S = ToSet(cs)  BY <1>1, <1>7 DEF InThread
<1>9. SameTurns(S, T) /\ SameTurns(T, S)  BY <1>7 DEF Counted
<1>10. \A d \in T: d.turn = e.turn <=> d.count = e.count
  <2> SUFFICES ASSUME NEW d \in T PROVE d.turn = e.turn <=> d.count = e.count  OBVIOUS
  <2>1. PICK c \in S: d.turn = c.turn /\ d.count = c.count  BY <1>9 DEF SameTurns
  <2> QED  BY <1>6, <1>8, <2>1
<1>11. PICK x: x = Point(e)  OBVIOUS
<1>12. x \in Checkpoint /\ x.turn = e.turn /\ x.count = e.count
  BY <1>11 DEF Point, Diffs, Checkpoint
<1>13. \A c: c \in R <=> \/ c \in T /\ c.turn # e.turn
                         \/ c = x
  <2>1. \A c: c \in R <=> \/ c \in T /\ c.turn # e.turn /\ c.count # e.count
                          \/ c = x
    BY <1>7, <1>11 DEF Recorded, InRows
  <2> QED  BY <1>10, <2>1
<1>14. PICK N: N = InThread'  OBVIOUS
<1>15. /\ \A c \in N: \/ c \in S /\ c.turn # e.turn
                      \/ c.turn = e.turn /\ c.count = e.count
       /\ \A c \in S: c.turn # e.turn => c \in N
       /\ \E c \in N: c.turn = e.turn /\ c.count = e.count
  <2>1. CASE e.status = "missing" /\ Captured(cs, e.turn)
    <3>1. N = S
      <4>1. th'.checkpoints = th.checkpoints  BY <1>1, <2>1 DEF Recorded
      <4> QED  BY <1>7, <1>14, <4>1 DEF InThread
    <3>2. PICK c \in S: c.turn = e.turn  BY <1>8, <2>1 DEF Captured
    <3> QED  BY <1>6, <1>8, <3>1, <3>2
  <2>2. CASE ~ (e.status = "missing" /\ Captured(cs, e.turn))
    <3>1. PICK us: us = UpsertCheckpoint(cs, x)  OBVIOUS
    <3>2. /\ us \in Seq(Checkpoint)
          /\ ToSet(us) = {c \in ToSet(cs): c.turn # x.turn} \union {x}
          /\ \A i, j \in 1 .. Len(us): us[i].turn = us[j].turn => i = j
      BY <1>2, <1>12, <3>1, Upserting
    <3>3. th'.checkpoints = us
      <4>1. th'.checkpoints = KeepLast(us, MaxCheckpoints)
        BY <1>1, <1>11, <2>2, <3>1 DEF Recorded
      <4>2. Len(us) <= MaxTurns  BY <3>2, FewCheckpoints
      <4>3. Len(us) <= MaxCheckpoints  BY <3>2, <4>2, BoundsAssumption
      <4> QED  BY <3>2, <4>1, <4>3, BoundsAssumption, KeepLastTyped
    <3>4. N = {c \in S: c.turn # e.turn} \union {x}
      BY <1>8, <1>12, <1>14, <3>2, <3>3 DEF InThread
    <3> QED  BY <1>12, <3>4
  <2> QED  BY <2>1, <2>2
<1>16. SameTurns(N, R) /\ SameTurns(R, N)
  <2>1. ASSUME NEW c \in N PROVE \E d \in R: c.turn = d.turn /\ c.count = d.count
    <3>1. CASE c \in S /\ c.turn # e.turn
      <4>1. PICK d \in T: c.turn = d.turn /\ c.count = d.count
        BY <1>9, <3>1 DEF SameTurns
      <4> QED  BY <1>13, <3>1, <4>1
    <3>2. CASE c.turn = e.turn /\ c.count = e.count  BY <1>12, <1>13, <3>2
    <3> QED  BY <1>15, <3>1, <3>2
  <2>2. ASSUME NEW d \in R PROVE \E c \in N: d.turn = c.turn /\ d.count = c.count
    <3>1. CASE d \in T /\ d.turn # e.turn
      <4>1. PICK c \in S: d.turn = c.turn /\ d.count = c.count
        BY <1>9, <3>1 DEF SameTurns
      <4> QED  BY <1>15, <3>1, <4>1
    <3>2. CASE d = x  BY <1>12, <1>15, <3>2
    <3> QED  BY <1>13, <3>1, <3>2
  <2> QED  BY <2>1, <2>2 DEF SameTurns
<1> QED  BY <1>7, <1>14, <1>16 DEF Counted

(* ... and when a revert takes those past a count. *)
LEMMA CountedRevert ==
  ASSUME MaxTurns <= MaxCheckpoints, Typed, Tale, Counted, RecordRevert
  PROVE  Counted'
<1>1. PICK n: n = job.count  OBVIOUS
<1>2. n \in Nat /\ RevertedTo(n)  BY <1>1, StepRecordRevert DEF Typed, JobTyped, Job
<1>3. PICK cs: cs = th.checkpoints  OBVIOUS
<1>4. /\ cs \in Seq(Checkpoint) /\ DOMAIN cs = 1 .. Len(cs) /\ Len(cs) \in Nat
      /\ \A i, j \in 1 .. Len(cs): cs[i].turn = cs[j].turn => i = j
  BY <1>3, Listed
<1>5. job.count <= Len(th.checkpoints)
  BY DEF RecordRevert, Tale, GoesBack, Reverting
<1>6. /\ Len(th'.checkpoints) = job.count
      /\ \A i \in 1 .. job.count: /\ i \in 1 .. Len(th.checkpoints)
                                 /\ th'.checkpoints[i] = th.checkpoints[i]
  BY <1>5, RevertKeepsPrefix DEF Tale
<1>7. PICK ds: ds = th'.checkpoints  OBVIOUS
<1>8. n <= Len(cs) /\ Len(ds) = n /\ \A i \in 1 .. n: i \in 1 .. Len(cs) /\ ds[i] = cs[i]
  BY <1>1, <1>3, <1>5, <1>6, <1>7
<1>9. \A i \in 1 .. Len(cs): cs[i].count = i  BY <1>3 DEF Tale, Matching
<1>10. PICK S, T, N, R: S = InThread /\ T = InRows /\ N = InThread' /\ R = InRows'
  OBVIOUS
<1>11. R = {c \in T: c.count <= n} /\ N \subseteq {c \in S: c.count <= n}
  BY <1>2, <1>10, RevertedSet
<1>12. \A c \in S: c.count <= n => c \in N
  <2> SUFFICES ASSUME NEW c \in S, c.count <= n PROVE c \in N  OBVIOUS
  <2>1. PICK i \in 1 .. Len(cs): c = cs[i]  BY <1>3, <1>4, <1>10 DEF InThread, ToSet
  <2>2. i \in 1 .. n  BY <1>2, <1>4, <1>9, <2>1
  <2>3. ds[i] = c  BY <1>8, <2>1, <2>2
  <2>4. DOMAIN ds = 1 .. n
    <3>1. ds \in Seq(Checkpoint)
      BY <1>7, StepRecordRevert DEF Typed, EngineTyped, IsThread
    <3> QED  BY <1>8, <3>1
  <2> QED  BY <1>7, <1>10, <2>2, <2>3, <2>4 DEF InThread, ToSet
<1>13. SameTurns(S, T) /\ SameTurns(T, S)  BY <1>10 DEF Counted
<1>14. SameTurns(N, R)
  <2> SUFFICES ASSUME NEW c \in N PROVE \E d \in R: c.turn = d.turn /\ c.count = d.count
    BY DEF SameTurns
  <2>1. c \in S /\ c.count <= n  BY <1>11
  <2>2. PICK d \in T: c.turn = d.turn /\ c.count = d.count
    BY <1>13, <2>1 DEF SameTurns
  <2> QED  BY <1>11, <2>1, <2>2
<1>15. SameTurns(R, N)
  <2> SUFFICES ASSUME NEW d \in R PROVE \E c \in N: d.turn = c.turn /\ d.count = c.count
    BY DEF SameTurns
  <2>1. d \in T /\ d.count <= n  BY <1>11
  <2>2. PICK c \in S: d.turn = c.turn /\ d.count = c.count
    BY <1>13, <2>1 DEF SameTurns
  <2> QED  BY <1>12, <2>1, <2>2
<1> QED  BY <1>10, <1>14, <1>15 DEF Counted

LEMMA CountedStep ==
  ASSUME MaxTurns <= MaxCheckpoints, Typed, Tale, Counted, [Next]_vars  PROVE Counted'
<1>1. CASE Still  BY <1>1, CountedStill
<1>2. ASSUME NEW e \in Diffs, IngestDispatch, Places(e), Recorded(e) PROVE Counted'
  <2>1. seen # None /\ ~ \E c \in ToSet(seen.checkpoints): c.turn = seen.event.turn
    BY <1>2 DEF Places
  <2>2. LatestIsLast /\ ~Reverting
    BY <2>1 DEF UnderWay, Tale, OneTurn, GoesBack, Silence
  <2>3. seen.event.turn = provider.turn  BY <2>1 DEF Tale, OneTurn, SessionFollows
  <2>4. e.turn = provider.turn /\ e.count = Len(conversation)
    BY <1>2, <2>1, <2>3 DEF Places, Tale, OneCheckpoint
  <2> QED  BY <1>2, <2>2, <2>4, CountedRecord
<1>3. ASSUME RecordCheckpoint, Recording \in Diffs, Recorded(Recording) PROVE Counted'
  <2>1. PICK e: e = Recording  OBVIOUS
  <2>2. job.step = "record"  BY <1>3 DEF RecordCheckpoint
  <2>3. e.turn = job.turn /\ e.count = job.count  BY <2>1, <2>2, RecordingTyped
  <2>4. Capturing /\ ~Reverting  BY <2>2 DEF Capturing, Reverting
  <2>5. LatestIsLast /\ e.turn = provider.turn /\ e.count = Len(conversation)
    BY <2>3, <2>4 DEF Tale, OneTurn, UnderWay, OneCheckpoint
  <2>6. e \in Diffs /\ Recorded(e)  BY <1>3, <2>1
  <2> QED  BY <2>4, <2>5, <2>6, CountedRecord
<1>4. CASE RecordRevert  BY <1>4, CountedRevert
<1> QED  BY <1>1, <1>2, <1>3, <1>4, TypedStep DEF Effect

LEMMA AscendingStep ==
  ASSUME Calm, Typed, Tale, Ascending, [Next]_vars, failures' = failures, Typed', Tale'
  PROVE  Ascending'
<1>1. CASE UNCHANGED vars
  BY <1>1, AscendingStays DEF vars, engine, world, reactor, Reverting
<1>2. ~CaptureFails /\ ~RevertFails /\ ~RefuseRevert
  <2>1. failures \in Nat  BY DEF Typed, WorldTyped
  <2> QED  BY <2>1, FailuresAdd
<1>3. CASE SendMessage
  <2>1. conversation' = conversation /\ job' = job
    BY <1>3 DEF SendMessage, reactor
  <2>2. th'.checkpoints = th.checkpoints  BY <1>3, StepSendMessage DEF Still
  <2> QED  BY <2>1, <2>2, AscendingStays DEF Reverting
<1>4. CASE AskRevert
  <2>1. conversation' = conversation /\ job' = job
    BY <1>4 DEF AskRevert, world, reactor
  <2>2. th'.checkpoints = th.checkpoints  BY <1>4, StepAskRevert DEF Still
  <2> QED  BY <2>1, <2>2, AscendingStays DEF Reverting
<1>5. CASE StartTurn  BY <1>5, AscendingStart
<1>6. CASE EditFiles \/ EndTurn \/ Ingest
  <2>1. conversation' = conversation /\ job' = job /\ th' = th
    BY <1>6 DEF EditFiles, EndTurn, Ingest, engine, world, reactor
  <2> QED  BY <2>1, AscendingStays DEF Reverting
<1>7. CASE IngestDispatch
  <2>1. conversation' = conversation /\ job' = job /\ seen # None
    BY <1>7 DEF IngestDispatch, world, reactor
  <2>2. ~Reverting  BY <2>1 DEF Tale, GoesBack, Silence
  <2> QED  BY <2>1, <2>2, AscendingStays DEF Reverting
<1>8. CASE TakeDomain \/ TakeRuntime  BY <1>8, AscendingTakes
<1>9. CASE CaptureBaseline \/ CaptureRef
  <2>1. conversation' = conversation /\ ~Reverting'
    BY <1>9 DEF CaptureBaseline, CaptureRef, Outside, world, Reverting, NoJob, Typed,
                JobTyped, Job
  <2> QED  BY <2>1, AscendingStays
<1>10. CASE RecordCheckpoint \/ RecordRevert
  <2>1. conversation' = conversation /\ ~Reverting'
    BY <1>10 DEF RecordCheckpoint, RecordRevert, Outside, world, Reverting, NoJob
  <2> QED  BY <2>1, AscendingStays
<1>11. CASE RestoreFiles \/ DeleteStaleRefs
  <2>1. conversation' = conversation /\ th' = th /\ Reverting
    BY <1>11 DEF RestoreFiles, DeleteStaleRefs, Outside, engine, world, Reverting
  <2> QED  BY <2>1, AscendingStays
<1>12. CASE RollbackConversation  BY <1>12, AscendingRollback
<1> QED
  BY <1>1, <1>2, <1>3, <1>4, <1>5, <1>6, <1>7, <1>8, <1>9, <1>10, <1>11, <1>12
  DEF Next, ReactorStep

LEMMA HeardInit ==
  Init => Ascending /\ Counted /\ Hears
<1> SUFFICES ASSUME Init PROVE Ascending /\ Counted /\ Hears  OBVIOUS
<1>1. /\ th.messages = <<>> /\ th.checkpoints = <<>> /\ rows.messages = {}
      /\ rows.turns = {} /\ rows.pending = NoPending
  BY DEF Init, EmptyThread, EmptyRows
<1>2. ToSet(<<>>) = {} /\ Len(<<>>) = 0 /\ <<>> \in Seq(Message)  BY DEF ToSet
<1>3. ~Reverting /\ ~Unended /\ ~Opening
  BY <1>2 DEF Init, NoJob, Reverting, Unended, Opening
<1>4. sent = 0 /\ provider.turn = 0 /\ conversation = <<>>  BY DEF Init
<1>5. Remembered = {}
  <2>1. ~ (0 < 0)  OBVIOUS
  <2>2. {t \in {sent}: provider.turn < sent} = {}  BY <1>4, <2>1
  <2>3. TurnsOf(<<>>) = {}  BY <1>2 DEF TurnsOf
  <2> QED  BY <1>4, <2>2, <2>3 DEF Remembered
<1>6. Ascending  BY <1>3, <1>4 DEF Ascending
<1>7. Counted
  BY <1>1, <1>2 DEF Counted, SameTurns, InThread, InRows, CheckpointRows
<1>8. Gathered  BY <1>1, <1>2, <1>3, <1>4 DEF Gathered
<1>9. Spoken
  <2>1. Asked = {}  BY <1>3, <1>5 DEF Asked
  <2> QED
    BY <1>1, <2>1 DEF Spoken, OwnedByTurns, ByTime, OneForEach, Timely, UsersOf
<1>10. Owned  BY <1>1, <1>5 DEF Owned, Rightly
<1> QED  BY <1>6, <1>7, <1>8, <1>9, <1>10 DEF Hears

LEMMA HearsStep ==
  ASSUME Calm, MaxMessages \in Nat, 2 * MaxTurns <= MaxMessages, None \notin Seen,
         Typed, Tale, Ascending, Counted, Hears, [Next]_vars, failures' = failures,
         Typed', Tale'
  PROVE  Hears'
<1>1. CASE UNCHANGED vars
  <2>1. /\ UNCHANGED <<th, rows, sent, provider, conversation, clock, ingest, seen, job>>
    BY <1>1 DEF vars, engine, world, reactor
  <2>2. Asked' = Asked /\ Remembered' = Remembered  BY <2>1, AskedStays
  <2>3. clock <= clock'  BY <2>1 DEF Typed, WorldTyped
  <2>4. (Unended' => Unended) /\ (Opening => Opening')  BY <2>1 DEF Unended, Opening
  <2> QED  BY <2>1, <2>2, <2>3, <2>4, HearsUnchanged
<1>2. ~CaptureFails /\ ~RevertFails /\ ~RefuseRevert
  <2>1. failures \in Nat  BY DEF Typed, WorldTyped
  <2> QED  BY <2>1, FailuresAdd
<1>3. CASE SendMessage  BY <1>3, HearsSendMessage
<1>4. CASE AskRevert  BY <1>4, HearsAskRevert
<1>5. CASE StartTurn  BY <1>5, HearsStartTurn
<1>6. CASE EditFiles  BY <1>6, HearsEditFiles
<1>7. CASE EndTurn  BY <1>7, HearsEndTurn
<1>8. CASE Ingest  BY <1>8, HearsIngest
<1>9. CASE IngestDispatch  BY <1>9, HearsIngestDispatch
<1>10. CASE TakeDomain \/ TakeRuntime  BY <1>10, HearsTakes
<1>11. CASE CaptureBaseline \/ CaptureRef  BY <1>11, HearsCaptures
<1>12. CASE RecordCheckpoint  BY <1>12, HearsRecordCheckpoint
<1>13. CASE RestoreFiles \/ RollbackConversation \/ DeleteStaleRefs
  BY <1>13, HearsGoesBack
<1>14. CASE RecordRevert  BY <1>14, HearsRecordRevert
<1> QED
  BY <1>1, <1>2, <1>3, <1>4, <1>5, <1>6, <1>7, <1>8, <1>9, <1>10, <1>11, <1>12, <1>13,
     <1>14 DEF Next, ReactorStep

(* What a restart loads are the messages of the rows, those of the read model. *)
LEMMA MessagesReadBack ==
  ASSUME Typed, Hears  PROVE ToSet(Loaded.messages) = ToSet(th.messages)
<1>1. PICK M: M = rows.messages  OBVIOUS
<1>2. PICK s: s = th.messages  OBVIOUS
<1>3. s \in Seq(Message) /\ ToSet(s) = M  BY <1>1, <1>2 DEF Hears, Gathered
<1>4. IsFiniteSet(M)  BY <1>3, FiniteList
<1>5. \A x \in M: x.at \in Nat /\ x.id \in Nat
  <2>1. M \subseteq Message  BY <1>1, HearsTyped
  <2> QED  BY <2>1 DEF Message
<1>6. \A x, y \in M: x.id = y.id => x = y  BY <1>1 DEF Hears, Spoken, ByTime
<1>7. ToSet(RowsInOrder(M)) = M  BY <1>4, <1>5, <1>6, RowsReadBack
<1>8. Loaded.messages = RowsInOrder(M)
  BY <1>1 DEF Loaded, HydrateThread, EmptyThread
<1> QED  BY <1>2, <1>3, <1>7, <1>8

(* For a user who waits until everything is processed, and while nothing      *)
(* fails: a restart keeps the messages of a thread.  At a revert the rows     *)
(* retain those that the turns kept own, the read model, which does not know  *)
(* the owner of a user message, the first as many; they are the same ones.    *)
THEOREM RestartsKeepMessages ==
  ASSUME Calm, MaxTurns <= MaxCheckpoints, MaxMessages \in Nat,
         2 * MaxTurns <= MaxMessages, None \notin Seen
  PROVE  Spec => []RestartKeepsMessages
<1>1. Init => Typed /\ Told /\ Heard
  BY TypedInit, TaleInit, HeardInit DEF Told, Heard
<1>2. Typed /\ Told /\ Heard /\ [Next]_vars => Typed' /\ Told' /\ Heard'
  <2> SUFFICES ASSUME Typed, Told, Heard, [Next]_vars PROVE Typed' /\ Told' /\ Heard'
    OBVIOUS
  <2>1. Typed'  BY TypedStep
  <2>2. ASSUME failures' = 0
        PROVE  Tale' /\ Ascending' /\ Counted' /\ Hears'
    <3>1. failures = 0 /\ failures' = failures  BY <2>2, NothingFailed
    <3>2. Tale /\ Ascending /\ Counted /\ Hears  BY <3>1 DEF Told, Heard
    <3>3. Tale'  BY <3>1, <3>2, TaleStep
    <3>4. Ascending'  BY <2>1, <3>1, <3>2, <3>3, AscendingStep
    <3>5. Counted'  BY <3>2, CountedStep
    <3>6. Hears'  BY <2>1, <3>1, <3>2, <3>3, HearsStep
    <3> QED  BY <3>3, <3>4, <3>5, <3>6
  <2> QED  BY <2>1, <2>2 DEF Told, Heard
<1>3. Typed /\ Told /\ Heard => RestartKeepsMessages
  BY MessagesReadBack DEF Heard, RestartKeepsMessages
<1> QED  BY <1>1, <1>2, <1>3, PTL DEF Spec
=============================================================================
