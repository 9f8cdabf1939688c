------------------------ MODULE GatewayModel_proofs ------------------------
(***************************************************************************)
(* What is promised of MatimoLlm, for conversations of any length.         *)
(*                                                                         *)
(* _ensure_tool_results() goes through the messages one by one, so that a  *)
(* proof about it is one by induction.  The induction is over a set: if 0  *)
(* is in it and n + 1 whenever n is, it holds all of Nat (Inductive).      *)
(***************************************************************************)
EXTENDS Frameworks, Sequences, FiniteSetTheorems, TLAPS

-----------------------------------------------------------------------------
(* Induction over the natural numbers, for a set in a predicate's place    *)

LEMMA Least ==
  ASSUME NEW T \in SUBSET Nat, T # {}
  PROVE  \E m \in T : \A k \in T : m <= k
<1> DEFINE F == {1..k : k \in T}
<1>1. F \subseteq FiniteSubsetsOf(Nat)
  <2>1. SUFFICES ASSUME NEW k \in T PROVE 1..k \in FiniteSubsetsOf(Nat)
    OBVIOUS
  <2>2. 1 \in Int /\ k \in Int
    OBVIOUS
  <2>3. IsFiniteSet(1..k)
    BY <2>2, FS_Interval
  <2>4. QED BY <2>3 DEF FiniteSubsetsOf
<1>2. F # {}
  OBVIOUS
<1> HIDE DEF F
<1>3. IsWellFoundedOn(StrictSubsetOrdering(Nat), FiniteSubsetsOf(Nat))
  BY FS_StrictSubsetOrderingWellFounded
<1>4. PICK X \in F : \A Y \in F : ~ (<<Y, X>> \in StrictSubsetOrdering(Nat))
  BY <1>1, <1>2, <1>3, WFMin
<1>5. PICK m \in T : X = 1..m
  BY DEF F
<1>6. ASSUME NEW k \in T, k < m PROVE FALSE
  <2>1. 1..k \in F
    BY DEF F
  <2>2. 1..k \subseteq 1..m /\ 1..k # 1..m
    <3>1. m \in 1..m /\ m \notin 1..k
      BY <1>6
    <3>2. QED BY <1>6, <3>1
  <2>3. 1..k \in SUBSET Nat /\ 1..m \in SUBSET Nat
    OBVIOUS
  <2>4. <<1..k, 1..m>> \in StrictSubsetOrdering(Nat)
    BY <2>2, <2>3 DEF StrictSubsetOrdering
  <2>5. QED BY <1>4, <1>5, <2>1, <2>4
<1>7. QED BY <1>6

LEMMA Inductive ==
  ASSUME NEW S, 0 \in S, \A n \in Nat : n \in S => n + 1 \in S
  PROVE  Nat \subseteq S
<1>1. SUFFICES ASSUME Nat \ S # {} PROVE FALSE
  OBVIOUS
<1>2. PICK m \in Nat \ S : \A k \in Nat \ S : m <= k
  BY <1>1, Least
<1>3. m # 0 /\ m - 1 \in Nat
  OBVIOUS
<1>4. m - 1 \in S
  BY <1>2, <1>3
<1>5. QED BY <1>3, <1>4

-----------------------------------------------------------------------------
(* Messages *)

Ids == Nat \X Nat
Roles == {"user", "assistant", "tool"}
Messages == [role : Roles, calls : Seq(Ids), result : Ids, real : BOOLEAN]

\* list.remove() takes away one occurrence at most.
LEMMA RemovesFirst ==
  ASSUME NEW S, NEW s \in Seq(S), NEW e
  PROVE  /\ GM!RemoveFirst(s, e) \in Seq(S)
         /\ \A x \in GM!ToSet(s) : x = e \/ x \in GM!ToSet(GM!RemoveFirst(s, e))
<1>1. CASE ~ \E i \in 1..Len(s) : s[i] = e
  BY <1>1 DEF GM!RemoveFirst
<1>2. CASE \E i \in 1..Len(s) : s[i] = e
  <2> DEFINE I == {i \in 1..Len(s) : s[i] = e}
             n == CHOOSE i \in I : \A j \in I : i <= j
             before == SubSeq(s, 1, n - 1)
             after == SubSeq(s, n + 1, Len(s))
  <2>1. GM!RemoveFirst(s, e) = before \o after
    BY <1>2 DEF GM!RemoveFirst, GM!SelectInSeq, GM!Min, GM!RemoveAt
  <2>2. n \in I
    <3>1. I \in SUBSET Nat /\ I # {}
      BY <1>2
    <3>2. \E i \in I : \A j \in I : i <= j
      BY <3>1, Least
    <3>3. QED BY <3>2
  <2> HIDE DEF n
  <2>3. /\ before \in Seq(S) /\ Len(before) = n - 1 /\ \A i \in 1..(n - 1) : before[i] = s[i]
        /\ after \in Seq(S) /\ Len(after) = Len(s) - n
        /\ \A i \in 1..(Len(s) - n) : after[i] = s[i + n]
    BY <2>2
  <2> HIDE DEF before, after
  <2>4. ASSUME NEW i \in 1..Len(s), s[i] # e PROVE s[i] \in GM!ToSet(before \o after)
    <3>1. CASE i < n
      <4>1. n \in 1..Len(s)
        BY <2>2
      <4>2. i \in 1..(n - 1) /\ before[i] = s[i]
        BY <2>3, <3>1, <4>1
      <4>3. i \in DOMAIN (before \o after) /\ (before \o after)[i] = before[i]
        BY <2>3, <4>1, <4>2
      <4>4. QED BY <4>2, <4>3 DEF GM!ToSet
    <3>2. CASE i > n
      <4>1. /\ i - 1 \in DOMAIN (before \o after)
            /\ (before \o after)[i - 1] = after[i - n]
        BY <2>2, <2>3, <3>2
      <4>2. after[i - n] = s[i]
        BY <2>2, <2>3, <3>2
      <4>3. QED BY <4>1, <4>2 DEF GM!ToSet
    <3>3. QED BY <2>2, <2>4, <3>1, <3>2
  <2>5. QED BY <2>1, <2>3, <2>4, SMTT(30) DEF GM!ToSet
<1>3. QED BY <1>1, <1>2

\* A recursive function over a sequence exists: here the rounds of
\* _ensure_tool_results(), below the messages put one after the other.
NoRound == [healed |-> <<>>, pending |-> <<>>]
IsRounds(f, ms, n) ==
  f = [i \in 0..n |-> IF i = 0 THEN NoRound ELSE GM!Heal(f[i - 1], ms[i])]

LEMMA RoundsExist == ASSUME NEW ms PROVE \A n \in Nat : \E f : IsRounds(f, ms, n)
<1> DEFINE S == {n \in Nat : \E f : IsRounds(f, ms, n)}
<1>1. 0 \in S
  <2> DEFINE f == [i \in 0..0 |-> NoRound]
  <2>1. IsRounds(f, ms, 0)
    BY DEF IsRounds
  <2>2. QED BY <2>1
<1>2. ASSUME NEW n \in Nat, n \in S PROVE n + 1 \in S
  <2>1. PICK f : IsRounds(f, ms, n)
    BY <1>2
  <2> DEFINE g == [i \in 0..(n + 1) |-> IF i = n + 1 THEN GM!Heal(f[n], ms[n + 1]) ELSE f[i]]
  <2>2. \A i \in 0..n : g[i] = f[i]
    OBVIOUS
  <2>3. \A i \in 0..n : f[i] = IF i = 0 THEN NoRound ELSE GM!Heal(f[i - 1], ms[i])
    BY <2>1 DEF IsRounds
  <2>4. ASSUME NEW i \in 0..(n + 1)
        PROVE  g[i] = IF i = 0 THEN NoRound ELSE GM!Heal(g[i - 1], ms[i])
    <3>1. CASE i = n + 1
      BY <2>2, <3>1
    <3>2. CASE i \in 1..n
      <4>1. i - 1 \in 0..n /\ i \in 0..n /\ i # 0
        BY <3>2
      <4>2. g[i - 1] = f[i - 1] /\ g[i] = f[i]
        BY <2>2, <4>1
      <4>3. QED BY <2>3, <4>1, <4>2
    <3>3. CASE i = 0
      BY <2>2, <2>3, <3>3
    <3>4. QED BY <3>1, <3>2, <3>3
  <2>5. g = [i \in 0..(n + 1) |-> IF i = 0 THEN NoRound ELSE GM!Heal(g[i - 1], ms[i])]
    <3> HIDE DEF g
    <3>1. g = [i \in 0..(n + 1) |-> g[i]]
      BY DEF g
    <3>2. QED BY <2>4, <3>1
  <2> HIDE DEF g
  <2>6. IsRounds(g, ms, n + 1)
    BY <2>5 DEF IsRounds
  <2>7. QED BY <2>6
<1>3. Nat \subseteq S
  <2> HIDE DEF S
  <2>1. QED BY <1>1, <1>2, Inductive
<1>4. QED BY <1>3

LEMMA RoundsAre ==
  ASSUME NEW ms, Len(ms) \in Nat
  PROVE  /\ GM!Rounds(ms)[0] = NoRound
         /\ \A i \in 1..Len(ms) : GM!Rounds(ms)[i] = GM!Heal(GM!Rounds(ms)[i - 1], ms[i])
<1>1. \E f : IsRounds(f, ms, Len(ms))
  BY RoundsExist
<1>2. IsRounds(GM!Rounds(ms), ms, Len(ms))
  BY <1>1 DEF GM!Rounds, IsRounds, NoRound
<1>3. QED BY <1>2 DEF IsRounds

\* A call of the i-th message is answered by one of the tool messages right
\* after it, or it is pending with nothing but tool messages after it.
IsAnswered(h, i, id) ==
  \E j \in (i + 1)..Len(h) :
    h[j].result = id /\ \A k \in (i + 1)..j : h[k].role = "tool"
IsPending(h, p, i, id) ==
  id \in GM!ToSet(p) /\ \A k \in (i + 1)..Len(h) : h[k].role = "tool"
Healed(h, p) ==
  \A i \in DOMAIN h : h[i].role = "assistant" =>
    \A id \in GM!ToSet(h[i].calls) : IsAnswered(h, i, id) \/ IsPending(h, p, i, id)

\* Two sequences, one after the other.
LEMMA Joined ==
  ASSUME NEW S, NEW s \in Seq(S), NEW t \in Seq(S)
  PROVE  /\ s \o t \in Seq(S) /\ Len(s \o t) = Len(s) + Len(t)
         /\ \A k \in 1..Len(s) : (s \o t)[k] = s[k]
         /\ \A k \in 1..Len(t) : (s \o t)[Len(s) + k] = t[k]
<1>1. s \o t \in Seq(S) /\ Len(s \o t) = Len(s) + Len(t)
  OBVIOUS
<1>2. \A k \in 1..Len(s) : (s \o t)[k] = s[k]
  OBVIOUS
<1>3. ASSUME NEW k \in 1..Len(t) PROVE (s \o t)[Len(s) + k] = t[k]
  <2>1. Len(s) + k \in 1..(Len(s) + Len(t)) /\ ~(Len(s) + k <= Len(s)) /\ (Len(s) + k) - Len(s) = k
    OBVIOUS
  <2>2. \A n \in 1..(Len(s) + Len(t)) : (s \o t)[n] = IF n <= Len(s) THEN s[n] ELSE t[n - Len(s)]
    OBVIOUS
  <2>3. QED BY <2>1, <2>2
<1>4. QED BY <1>1, <1>2, <1>3

LEMMA Placeholders ==
  ASSUME NEW p \in Seq(Ids)
  PROVE  LET t == GM!Mapped(GM!Placeholder, p)
         IN  /\ t \in Seq(Messages) /\ Len(t) = Len(p)
             /\ \A k \in 1..Len(p) : t[k].role = "tool" /\ t[k].result = p[k] /\ ~t[k].real
<1> DEFINE t == GM!Mapped(GM!Placeholder, p)
<1>1. t = [k \in 1..Len(p) |-> GM!Placeholder(p[k])]
  BY DEF GM!Mapped
<1>2. \A id : /\ GM!Placeholder(id).role = "tool" /\ GM!Placeholder(id).result = id
             /\ ~GM!Placeholder(id).real
  BY DEF GM!Placeholder
<1>3. \A id \in Ids : GM!Placeholder(id) \in Messages
  BY DEF GM!Placeholder, Messages, Roles
<1> HIDE DEF t
<1>4. t \in Seq(Messages) /\ Len(t) = Len(p)
  BY <1>1, <1>2, <1>3
<1>5. ASSUME NEW k \in 1..Len(p)
      PROVE  t[k].role = "tool" /\ t[k].result = p[k] /\ ~t[k].real
  <2>1. t[k] = GM!Placeholder(p[k])
    BY <1>1
  <2>2. QED BY <1>2, <2>1
<1>6. QED BY <1>4, <1>5 DEF t

\* What the placeholders stand in for is answered.
LEMMA NonePending ==
  ASSUME NEW h \in Seq(Messages), NEW p \in Seq(Ids), Healed(h, p)
  PROVE  LET g == h \o GM!Mapped(GM!Placeholder, p)
         IN  g \in Seq(Messages) /\ Healed(g, <<>>)
<1> DEFINE t == GM!Mapped(GM!Placeholder, p)
           g == h \o t
<1>1. /\ t \in Seq(Messages) /\ Len(t) = Len(p)
      /\ \A k \in 1..Len(p) : t[k].role = "tool" /\ t[k].result = p[k]
  BY Placeholders
<1> HIDE DEF t
<1>2. /\ g \in Seq(Messages) /\ Len(g) = Len(h) + Len(p) /\ DOMAIN g = 1..Len(g)
      /\ \A k \in 1..Len(h) : g[k] = h[k]
      /\ \A k \in 1..Len(p) : g[Len(h) + k] = t[k]
  <2>1. g \in Seq(Messages) /\ Len(g) = Len(h) + Len(t)
    BY <1>1, Joined
  <2>2. \A k \in 1..Len(h) : g[k] = h[k]
    BY <1>1, Joined
  <2>3. \A k \in 1..Len(t) : g[Len(h) + k] = t[k]
    BY <1>1, Joined
  <2> HIDE DEF g
  <2>4. QED BY <1>1, <2>1, <2>2, <2>3
<1> HIDE DEF g
<1>3. \A k \in (Len(h) + 1)..Len(g) : g[k].role = "tool"
  <2>1. ASSUME NEW k \in (Len(h) + 1)..Len(g) PROVE g[k].role = "tool"
    <3>1. k - Len(h) \in 1..Len(p) /\ k = Len(h) + (k - Len(h))
      BY <1>2
    <3>2. QED BY <1>1, <1>2, <3>1
  <2>2. QED BY <2>1
<1>4. ASSUME NEW i \in DOMAIN g, g[i].role = "assistant", NEW id \in GM!ToSet(g[i].calls)
      PROVE  IsAnswered(g, i, id)
  <2>1. i \in 1..Len(h) /\ g[i] = h[i]
    BY <1>2, <1>3, <1>4
  <2>2. CASE IsAnswered(h, i, id)
    <3>1. PICK j \in (i + 1)..Len(h) :
             h[j].result = id /\ \A k \in (i + 1)..j : h[k].role = "tool"
      BY <2>2 DEF IsAnswered
    <3>2. j \in (i + 1)..Len(g) /\ j \in 1..Len(h) /\ \A k \in (i + 1)..j : k \in 1..Len(h)
      BY <1>2, <2>1
    <3>3. \A k \in (i + 1)..j : g[k] = h[k]
      BY <1>2, <3>2
    <3>4. g[j].result = id /\ \A k \in (i + 1)..j : g[k].role = "tool"
      BY <1>2, <3>1, <3>2, <3>3
    <3>5. QED BY <3>2, <3>4 DEF IsAnswered
  <2>3. CASE IsPending(h, p, i, id)
    <3>1. PICK n \in 1..Len(p) : p[n] = id
      BY <2>3 DEF IsPending, GM!ToSet
    <3>2. Len(h) + n \in (i + 1)..Len(g) /\ g[Len(h) + n].result = id
      <4>1. Len(h) + n \in (i + 1)..Len(g) /\ g[Len(h) + n] = t[n]
        BY <1>2, <2>1
      <4>2. QED BY <1>1, <3>1, <4>1
    <3>3. ASSUME NEW k \in (i + 1)..(Len(h) + n) PROVE g[k].role = "tool"
      <4>1. CASE k <= Len(h)
        BY <1>2, <2>1, <2>3, <4>1 DEF IsPending
      <4>2. CASE k > Len(h)
        BY <1>2, <1>3, <2>1, <3>1, <4>2
      <4>3. QED BY <2>1, <4>1, <4>2
    <3>4. QED BY <3>2, <3>3 DEF IsAnswered
  <2>4. QED BY <1>4, <2>1, <2>2, <2>3 DEF Healed
<1>5. QED BY <1>2, <1>4 DEF Healed, g, t

\* A message that is no result leaves its own calls pending.
LEMMA CallsPending ==
  ASSUME NEW h \in Seq(Messages), Healed(h, <<>>), NEW m \in Messages
  PROVE  h \o <<m>> \in Seq(Messages) /\ Healed(h \o <<m>>, m.calls)
<1> DEFINE g == h \o <<m>>
<1>1. /\ g \in Seq(Messages) /\ Len(g) = Len(h) + 1 /\ DOMAIN g = 1..(Len(h) + 1)
      /\ \A k \in 1..Len(h) : g[k] = h[k]
      /\ g[Len(h) + 1] = m
  OBVIOUS
<1> HIDE DEF g
<1>2. ASSUME NEW i \in DOMAIN g, g[i].role = "assistant", NEW id \in GM!ToSet(g[i].calls)
      PROVE  IsAnswered(g, i, id) \/ IsPending(g, m.calls, i, id)
  <2>1. CASE i = Len(h) + 1
    BY <1>1, <1>2, <2>1 DEF IsPending
  <2>2. CASE i \in 1..Len(h)
    <3>1. IsAnswered(h, i, id)
      BY <1>1, <1>2, <2>2 DEF Healed, IsPending, GM!ToSet
    <3>2. QED BY <1>1, <2>2, <3>1 DEF IsAnswered
  <2>3. QED BY <1>1, <2>1, <2>2
<1>3. QED BY <1>1, <1>2 DEF Healed, g

\* A result answers the call it names; the others stay pending.
LEMMA ResultAnswers ==
  ASSUME NEW h \in Seq(Messages), NEW p \in Seq(Ids), Healed(h, p),
         NEW m \in Messages, m.role = "tool"
  PROVE  h \o <<m>> \in Seq(Messages) /\ Healed(h \o <<m>>, GM!RemoveFirst(p, m.result))
<1> DEFINE g == h \o <<m>>
           q == GM!RemoveFirst(p, m.result)
<1>1. /\ g \in Seq(Messages) /\ Len(g) = Len(h) + 1 /\ DOMAIN g = 1..(Len(h) + 1)
      /\ \A k \in 1..Len(h) : g[k] = h[k]
      /\ g[Len(h) + 1] = m
  OBVIOUS
<1>2. \A id \in GM!ToSet(p) : id = m.result \/ id \in GM!ToSet(q)
  BY RemovesFirst
<1> HIDE DEF g, q
<1>3. ASSUME NEW i \in DOMAIN g, g[i].role = "assistant", NEW id \in GM!ToSet(g[i].calls)
      PROVE  IsAnswered(g, i, id) \/ IsPending(g, q, i, id)
  <2>1. i \in 1..Len(h) /\ g[i] = h[i]
    BY <1>1, <1>3
  <2>2. CASE IsAnswered(h, i, id)
    BY <1>1, <2>1, <2>2, SMTT(30) DEF IsAnswered
  <2>3. CASE IsPending(h, p, i, id)
    <3>1. \A k \in (i + 1)..Len(g) : g[k].role = "tool"
      BY <1>1, <2>1, <2>3 DEF IsPending
    <3>2. CASE id = m.result
      <4>1. Len(g) \in (i + 1)..Len(g) /\ g[Len(g)].result = id
        BY <1>1, <2>1, <3>2
      <4>2. QED BY <3>1, <4>1 DEF IsAnswered
    <3>3. CASE id \in GM!ToSet(q)
      BY <3>1, <3>3 DEF IsPending
    <3>4. QED BY <1>2, <2>3, <3>2, <3>3 DEF IsPending
  <2>4. QED BY <1>3, <2>1, <2>2, <2>3 DEF Healed
<1>4. QED BY <1>1, <1>3 DEF Healed, g, q

\* The messages that are no placeholders are the first n of ms, in order.
InStep(h, ms, n) ==
  /\ GM!Rank(h, Len(h)) = n
  /\ \A j \in DOMAIN h : h[j].real => h[j] = ms[GM!Rank(h, j)]

Reals(h, j) == {k \in 1..j : h[k].real}

LEMMA RankIs == ASSUME NEW h, NEW j PROVE GM!Rank(h, j) = Cardinality(Reals(h, j))
BY DEF GM!Rank, GM!Cardinality, Cardinality, Reals

LEMMA SameReals ==
  ASSUME NEW h, NEW g, NEW j \in Nat, \A k \in 1..j : g[k] = h[k]
  PROVE  GM!Rank(g, j) = GM!Rank(h, j)
<1>1. Reals(g, j) = Reals(h, j)
  BY DEF Reals
<1>2. QED BY <1>1, RankIs

LEMMA PlaceholdersKeepStep ==
  ASSUME NEW h \in Seq(Messages), NEW p \in Seq(Ids), NEW ms, NEW n, InStep(h, ms, n)
  PROVE  InStep(h \o GM!Mapped(GM!Placeholder, p), ms, n)
<1> DEFINE t == GM!Mapped(GM!Placeholder, p)
           g == h \o t
<1>1. t \in Seq(Messages) /\ Len(t) = Len(p) /\ \A k \in 1..Len(p) : ~t[k].real
  BY Placeholders
<1> HIDE DEF t
<1>2. Len(g) = Len(h) + Len(p) /\ g \in Seq(Messages)
  BY <1>1, Joined, SMTT(30)
<1>3. \A k \in 1..Len(h) : g[k] = h[k]
  BY <1>1, Joined
<1>4. \A k \in 1..Len(p) : g[Len(h) + k] = t[k]
  BY <1>1, Joined
<1> HIDE DEF g
<1>5. ASSUME NEW j \in (Len(h) + 1)..Len(g) PROVE ~g[j].real
  <2>1. j - Len(h) \in 1..Len(p) /\ j = Len(h) + (j - Len(h))
    BY <1>2
  <2>2. g[j] = t[j - Len(h)]
    BY <1>4, <2>1
  <2>3. QED BY <1>1, <2>1, <2>2
<1>6. GM!Rank(g, Len(g)) = n
  <2>1. Reals(g, Len(g)) = Reals(h, Len(h))
    BY <1>2, <1>3, <1>5 DEF Reals
  <2>2. QED BY <2>1, RankIs DEF InStep
<1>7. ASSUME NEW j \in DOMAIN g, g[j].real PROVE g[j] = ms[GM!Rank(g, j)]
  <2>1. j \in 1..Len(h)
    BY <1>2, <1>5, <1>7
  <2>2. GM!Rank(g, j) = GM!Rank(h, j)
    <3>1. j \in Nat /\ \A k \in 1..j : g[k] = h[k]
      BY <1>3, <2>1
    <3>2. QED BY <3>1, SameReals
  <2>3. QED BY <1>3, <1>7, <2>1, <2>2 DEF InStep
<1>8. QED BY <1>6, <1>7 DEF InStep, g, t

LEMMA NextInStep ==
  ASSUME NEW h \in Seq(Messages), NEW ms, NEW n \in Nat, InStep(h, ms, n),
         ms[n + 1] \in Messages, ms[n + 1].real
  PROVE  InStep(h \o <<ms[n + 1]>>, ms, n + 1)
<1> DEFINE m == ms[n + 1]
           g == h \o <<m>>
<1>1. /\ g \in Seq(Messages) /\ Len(g) = Len(h) + 1 /\ DOMAIN g = 1..(Len(h) + 1)
      /\ \A k \in 1..Len(h) : g[k] = h[k]
      /\ g[Len(h) + 1] = m
  OBVIOUS
<1> HIDE DEF g
<1>2. Reals(g, Len(h) + 1) = Reals(h, Len(h)) \cup {Len(h) + 1}
  BY <1>1 DEF Reals
<1>3. IsFiniteSet(Reals(h, Len(h))) /\ Len(h) + 1 \notin Reals(h, Len(h))
  <2>1. 1 \in Int /\ Len(h) \in Int
    OBVIOUS
  <2>2. IsFiniteSet(1..Len(h)) /\ Reals(h, Len(h)) \subseteq 1..Len(h)
    BY <2>1, FS_Interval DEF Reals
  <2>3. QED BY <2>2, FS_Subset
<1>4. Cardinality(Reals(g, Len(h) + 1)) = n + 1
  <2>1. Cardinality(Reals(h, Len(h))) = n
    BY RankIs DEF InStep
  <2>2. QED BY <1>2, <1>3, <2>1, FS_AddElement
<1>5. GM!Rank(g, Len(h) + 1) = n + 1
  BY <1>4, RankIs
<1>6. ASSUME NEW j \in DOMAIN g, g[j].real PROVE g[j] = ms[GM!Rank(g, j)]
  <2>1. CASE j = Len(h) + 1
    BY <1>1, <1>5, <2>1
  <2>2. CASE j \in 1..Len(h)
    <3>1. j \in Nat /\ \A k \in 1..j : g[k] = h[k]
      BY <1>1, <2>2
    <3>2. GM!Rank(g, j) = GM!Rank(h, j)
      BY <3>1, SameReals
    <3>3. QED BY <1>1, <1>6, <2>2, <3>2 DEF InStep
  <2>3. QED BY <1>1, <2>1, <2>2
<1>7. QED BY <1>1, <1>5, <1>6 DEF InStep, g

\* A history is healed round by round.
IsHistory(ms) == ms \in Seq(Messages) /\ \A i \in DOMAIN ms : ms[i].real

LEMMA RoundByRound ==
  ASSUME NEW ms, IsHistory(ms), NEW n \in 0..Len(ms)
  PROVE  LET st == GM!Rounds(ms)[n]
         IN  /\ st.healed \in Seq(Messages) /\ st.pending \in Seq(Ids)
             /\ Healed(st.healed, st.pending) /\ InStep(st.healed, ms, n)
<1> DEFINE Good(k) == LET st == GM!Rounds(ms)[k]
                      IN  /\ st.healed \in Seq(Messages) /\ st.pending \in Seq(Ids)
                          /\ Healed(st.healed, st.pending) /\ InStep(st.healed, ms, k)
           S == {k \in Nat : k <= Len(ms) => Good(k)}
<1>1. ms \in Seq(Messages) /\ Len(ms) \in Nat /\ \A i \in 1..Len(ms) : ms[i] \in Messages /\ ms[i].real
  BY DEF IsHistory
<1>2. Good(0)
  <2>1. GM!Rounds(ms)[0] = NoRound
    BY <1>1, RoundsAre
  <2>2. GM!Rank(<<>>, 0) = 0
    <3>1. Reals(<<>>, 0) = {}
      BY DEF Reals
    <3>2. QED BY <3>1, RankIs, FS_EmptySet
  <2>3. QED BY <2>1, <2>2 DEF NoRound, Healed, InStep
<1>3. ASSUME NEW k \in Nat, k + 1 <= Len(ms), Good(k) PROVE Good(k + 1)
  <2> DEFINE st == GM!Rounds(ms)[k]
             next == GM!Rounds(ms)[k + 1]
             m == ms[k + 1]
  <2>1. next = GM!Heal(st, m) /\ m \in Messages /\ m.real
    <3>1. k + 1 \in 1..Len(ms) /\ (k + 1) - 1 = k
      BY <1>1, <1>3
    <3>2. QED BY <1>1, <3>1, RoundsAre
  <2>2. /\ st.healed \in Seq(Messages) /\ st.pending \in Seq(Ids)
        /\ Healed(st.healed, st.pending) /\ InStep(st.healed, ms, k)
    BY <1>3
  <2> HIDE DEF st, next
  <2>3. CASE m.role = "tool"
    <3>1. next.healed = (st.healed \o <<>>) \o <<m>> /\ next.pending = GM!RemoveFirst(st.pending, m.result)
      BY <2>1, <2>3 DEF GM!Heal
    <3>2. next.healed = st.healed \o <<m>>
      BY <2>1, <2>2, <3>1
    <3>3. next.healed \in Seq(Messages) /\ Healed(next.healed, next.pending)
      BY <2>1, <2>2, <2>3, <3>1, <3>2, ResultAnswers
    <3>4. next.pending \in Seq(Ids)
      BY <2>2, <3>1, RemovesFirst
    <3>5. InStep(next.healed, ms, k + 1)
      BY <2>1, <2>2, <3>2, NextInStep
    <3>6. QED BY <3>3, <3>4, <3>5 DEF next
  <2>4. CASE m.role # "tool"
    <3> DEFINE filled == st.healed \o GM!Mapped(GM!Placeholder, st.pending)
    <3>1. next.healed = filled \o <<m>> /\ next.pending = m.calls
      BY <2>1, <2>4 DEF GM!Heal
    <3>2. filled \in Seq(Messages) /\ Healed(filled, <<>>)
      BY <2>2, NonePending
    <3>3. InStep(filled, ms, k)
      BY <2>2, PlaceholdersKeepStep
    <3> HIDE DEF filled
    <3>4. next.healed \in Seq(Messages) /\ Healed(next.healed, next.pending)
      BY <2>1, <3>1, <3>2, CallsPending
    <3>5. next.pending \in Seq(Ids)
      BY <2>1, <3>1 DEF Messages
    <3>6. InStep(next.healed, ms, k + 1)
      BY <2>1, <3>1, <3>2, <3>3, NextInStep
    <3>7. QED BY <3>4, <3>5, <3>6 DEF next
  <2>5. QED BY <2>3, <2>4
<1> HIDE DEF Good
<1>4. Nat \subseteq S
  <2>1. 0 \in S
    BY <1>2
  <2>2. \A k \in Nat : k \in S => k + 1 \in S
    BY <1>1, <1>3
  <2> HIDE DEF S
  <2>3. QED BY <2>1, <2>2, Inductive
<1>5. Good(n)
  BY <1>1, <1>4
<1>6. QED BY <1>5 DEF Good

LEMMA HistoryHealed ==
  ASSUME NEW ms, IsHistory(ms)
  PROVE  LET chat == GM!EnsureToolResults(ms)
         IN  chat \in Seq(Messages) /\ Healed(chat, <<>>) /\ InStep(chat, ms, Len(ms))
<1> DEFINE st == GM!Rounds(ms)[Len(ms)]
<1>1. Len(ms) \in 0..Len(ms)
  BY DEF IsHistory
<1>2. /\ st.healed \in Seq(Messages) /\ st.pending \in Seq(Ids)
      /\ Healed(st.healed, st.pending) /\ InStep(st.healed, ms, Len(ms))
  BY <1>1, RoundByRound
<1>3. GM!EnsureToolResults(ms) = st.healed \o GM!Mapped(GM!Placeholder, st.pending)
  BY DEF GM!EnsureToolResults
<1> HIDE DEF st
<1>4. QED BY <1>2, <1>3, NonePending, PlaceholdersKeepStep

-----------------------------------------------------------------------------
(* From contents to messages *)

RealMessages == {m \in Messages : m.real}

LEMMA HistoryIs == ASSUME NEW ms \in Seq(RealMessages) PROVE IsHistory(ms)
BY DEF IsHistory, RealMessages

\* Sequences of messages, put one after the other.
IsFlattened(f, ss, n) ==
  f = [i \in 1..n |-> IF i = 1 THEN ss[i] ELSE f[i - 1] \o ss[i]]

LEMMA FlattenedExist ==
  ASSUME NEW ss PROVE \A n \in Nat : \E f : IsFlattened(f, ss, n)
<1> DEFINE S == {n \in Nat : \E f : IsFlattened(f, ss, n)}
<1>1. 0 \in S
  <2> DEFINE f == [i \in 1..0 |-> ss[i]]
  <2>1. IsFlattened(f, ss, 0)
    BY DEF IsFlattened
  <2>2. QED BY <2>1
<1>2. ASSUME NEW n \in Nat, n \in S PROVE n + 1 \in S
  <2>1. PICK f : IsFlattened(f, ss, n)
    BY <1>2
  <2> DEFINE last == IF n = 0 THEN ss[n + 1] ELSE f[n] \o ss[n + 1]
             g == [i \in 1..(n + 1) |-> IF i = n + 1 THEN last ELSE f[i]]
  <2>2. \A i \in 1..n : g[i] = f[i]
    OBVIOUS
  <2>3. \A i \in 1..n : f[i] = IF i = 1 THEN ss[i] ELSE f[i - 1] \o ss[i]
    BY <2>1 DEF IsFlattened
  <2>4. ASSUME NEW i \in 1..(n + 1)
        PROVE  g[i] = IF i = 1 THEN ss[i] ELSE g[i - 1] \o ss[i]
    <3>1. CASE i = n + 1
      <4>1. g[i] = last
        BY <3>1
      <4>2. n # 0 => n \in 1..n /\ i - 1 = n
        BY <3>1
      <4>3. QED BY <2>2, <3>1, <4>1, <4>2
    <3>2. CASE i \in 1..n
      <4>1. i # 1 => i - 1 \in 1..n
        BY <3>2
      <4>2. g[i] = f[i] /\ (i # 1 => g[i - 1] = f[i - 1])
        BY <2>2, <3>2, <4>1
      <4>3. QED BY <2>3, <3>2, <4>2
    <3>3. QED BY <3>1, <3>2
  <2>5. g = [i \in 1..(n + 1) |-> g[i]]
    OBVIOUS
  <2> HIDE DEF g
  <2>6. IsFlattened(g, ss, n + 1)
    BY <2>4, <2>5 DEF IsFlattened
  <2>7. QED BY <2>6
<1>3. Nat \subseteq S
  <2> HIDE DEF S
  <2>1. QED BY <1>1, <1>2, Inductive
<1>4. QED BY <1>3

LEMMA Flattened ==
  ASSUME NEW M, NEW ss \in Seq(Seq(M))
  PROVE  GM!FlattenSeq(ss) \in Seq(M)
<1> DEFINE f == CHOOSE f : IsFlattened(f, ss, Len(ss))
<1>1. \E g : IsFlattened(g, ss, Len(ss))
  <2>1. Len(ss) \in Nat
    OBVIOUS
  <2>2. QED BY <2>1, FlattenedExist
<1>2. IsFlattened(f, ss, Len(ss))
  BY <1>1
<1>3. GM!FlattenSeq(ss) = IF Len(ss) = 0 THEN ss ELSE f[Len(ss)]
  BY DEF GM!FlattenSeq, IsFlattened
<1> HIDE DEF f
<1> DEFINE S == {n \in Nat : n + 1 <= Len(ss) => f[n + 1] \in Seq(M)}
<1>4. \A i \in 1..Len(ss) : f[i] = IF i = 1 THEN ss[i] ELSE f[i - 1] \o ss[i]
  BY <1>2 DEF IsFlattened
<1>5. 0 \in S
  BY <1>4
<1>6. ASSUME NEW n \in Nat, n \in S PROVE n + 1 \in S
  <2>1. SUFFICES ASSUME (n + 1) + 1 <= Len(ss) PROVE f[(n + 1) + 1] \in Seq(M)
    OBVIOUS
  <2>2. f[n + 1] \in Seq(M) /\ ss[(n + 1) + 1] \in Seq(M)
    BY <1>6, <2>1
  <2>3. f[(n + 1) + 1] = f[n + 1] \o ss[(n + 1) + 1]
    <3>1. /\ (n + 1) + 1 \in 1..Len(ss) /\ (n + 1) + 1 # 1
          /\ ((n + 1) + 1) - 1 = n + 1
      BY <2>1
    <3>2. QED BY <1>4, <3>1
  <2>4. QED BY <2>2, <2>3
<1>7. Nat \subseteq S
  <2> HIDE DEF S
  <2>1. QED BY <1>5, <1>6, Inductive
<1>8. CASE Len(ss) = 0
  BY <1>3, <1>8
<1>9. CASE Len(ss) # 0
  <2>1. Len(ss) - 1 \in Nat /\ (Len(ss) - 1) + 1 = Len(ss)
    BY <1>9
  <2>2. f[Len(ss)] \in Seq(M)
    <3>1. Len(ss) - 1 \in S
      BY <1>7, <2>1
    <3>2. QED BY <2>1, <3>1
  <2>3. QED BY <1>3, <1>9, <2>2
<1>10. QED BY <1>8, <1>9

\* What ADK keeps of a turn.
Contents == [role : {"user", "model"}, text : BOOLEAN, calls : Seq(Ids), results : Seq(Ids)]

LEMMA MessagesAre == ASSUME NEW c \in Contents PROVE GM!MessagesOf(c) \in Seq(RealMessages)
<1> DEFINE results == [i \in DOMAIN c.results |-> GM!Message("tool", <<>>, c.results[i])]
           role == IF c.role = "user" THEN "user" ELSE "assistant"
           rest == IF c.text \/ c.calls # <<>> THEN <<GM!Message(role, c.calls, GM!NoId)>> ELSE <<>>
<1>1. GM!MessagesOf(c) = results \o rest
  BY DEF GM!MessagesOf, GM!Mapped
<1>2. \A r \in Roles, ids \in Seq(Ids), id \in Ids : GM!Message(r, ids, id) \in RealMessages
  BY DEF RealMessages, Messages, GM!Message
<1>3. c.calls \in Seq(Ids) /\ c.results \in Seq(Ids) /\ role \in Roles
  BY DEF Contents, Roles
<1>4. GM!NoId \in Ids
  BY DEF GM!NoId, GM!Unidentified, Ids
<1>5. results \in Seq(RealMessages)
  <2>1. \A i \in 1..Len(c.results) : GM!Message("tool", <<>>, c.results[i]) \in RealMessages
    <3>1. "tool" \in Roles /\ <<>> \in Seq(Ids)
      BY DEF Roles
    <3>2. \A i \in 1..Len(c.results) : c.results[i] \in Ids
      BY <1>3
    <3>3. QED BY <1>2, <3>1, <3>2
  <2>2. QED BY <1>3, <2>1
<1> HIDE DEF role
<1>6. rest \in Seq(RealMessages)
  <2>1. GM!Message(role, c.calls, GM!NoId) \in RealMessages
    BY <1>2, <1>3, <1>4
  <2>2. QED BY <2>1
<1> HIDE DEF results, rest
<1>7. QED BY <1>1, <1>5, <1>6

LEMMA UserContentAdded ==
  ASSUME NEW cs \in Seq(Contents)
  PROVE  GM!WithUserContent(cs) \in Seq(Contents)
<1>1. GM!Fallback \in Contents
  BY DEF GM!Fallback, Contents
<1>2. Append(cs, GM!Fallback) \in Seq(Contents)
  BY <1>1
<1>3. ASSUME NEW i PROVE [cs EXCEPT ![i].text = TRUE] \in Seq(Contents)
  <2>1. \A j \in 1..Len(cs) : [cs[j] EXCEPT !.text = TRUE] \in Contents
    <3>1. \A c \in Contents : [c EXCEPT !.text = TRUE] \in Contents
      BY DEF Contents
    <3>2. \A j \in 1..Len(cs) : cs[j] \in Contents
      OBVIOUS
    <3>3. QED BY <3>1, <3>2
  <2>2. cs \in [1..Len(cs) -> Contents]
    OBVIOUS
  <2>3. [cs EXCEPT ![i].text = TRUE] \in [1..Len(cs) -> Contents]
    BY <2>1, <2>2
  <2>4. QED BY <2>3
<1>4. QED BY <1>2, <1>3 DEF GM!WithUserContent

LEMMA FlatIsHistory ==
  ASSUME NEW cs \in Seq(Contents)
  PROVE  IsHistory(GM!Flat(GM!WithUserContent(cs)))
<1> DEFINE ds == GM!WithUserContent(cs)
           ss == [i \in DOMAIN ds |-> GM!MessagesOf(ds[i])]
<1>1. ds \in Seq(Contents)
  BY UserContentAdded
<1> HIDE DEF ds
<1>2. ss \in Seq(Seq(RealMessages))
  <2>1. \A i \in 1..Len(ds) : GM!MessagesOf(ds[i]) \in Seq(RealMessages)
    BY <1>1, MessagesAre
  <2>2. QED BY <1>1, <2>1
<1>3. GM!Flat(ds) = GM!FlattenSeq(ss)
  BY DEF GM!Flat, GM!Mapped
<1> HIDE DEF ss
<1>4. GM!FlattenSeq(ss) \in Seq(RealMessages)
  BY <1>2, Flattened
<1>5. QED BY <1>3, <1>4, HistoryIs DEF ds

-----------------------------------------------------------------------------
(* The answer of the backend *)

\* While an answer is awaited there is one that is meant; what the stream has
\* brought of it is put together as it was said.
Brought(n) == CASE n = 0 -> <<>> [] n = 1 -> <<1>> [] OTHER -> <<1, 2>>
Begun == {i \in 1..2 : fed.calls[i] > 0}
StreamInv ==
  /\ answer = {} \/ \E a \in GM!Answers : answer = {a}
  /\ answer = {} => fed = GM!Unfed
  /\ fed \in [text : 0..2, calls : [1..2 -> 0..2]]
  /\ answer # {} =>
       /\ fed.text <= GM!Meant.text
       /\ \A i \in 1..2 : i > GM!Meant.calls => fed.calls[i] = 0
  /\ textParts = Brought(fed.text)
  /\ DOMAIN functionCalls = Begun
  /\ functionCalls =
       [i \in Begun |-> [id |-> GM!IdOf(i), name |-> <<i>>, args |-> Brought(fed.calls[i])]]

LEMMA TwoFragments == Append(<<1>>, 2) = <<1, 2>>
<1> DEFINE a == Append(<<1>>, 2)
<1>1. <<1>> \in Seq(Nat)
  OBVIOUS
<1>2. a \in Seq(Nat) /\ Len(a) = 2 /\ a[1] = 1 /\ a[2] = 2
  BY <1>1
<1> HIDE DEF a
<1>3. a = [i \in 1..2 |-> a[i]]
  BY <1>2
<1>4. \A i \in 1..2 : a[i] = IF i = 2 THEN 2 ELSE 1
  BY <1>2
<1>5. a = [i \in 1..2 |-> IF i = 2 THEN 2 ELSE 1]
  BY <1>3, <1>4
<1>6. <<1, 2>> = [i \in 1..2 |-> IF i = 2 THEN 2 ELSE 1]
  OBVIOUS
<1>7. QED BY <1>5, <1>6 DEF a

LEMMA MeantIs ==
  ASSUME StreamInv, answer # {}
  PROVE  GM!Meant \in GM!Answers /\ answer = {GM!Meant}
BY DEF StreamInv, GM!Meant

LEMMA UnfedIs ==
  ASSUME fed = GM!Unfed
  PROVE  /\ fed.text = 0 /\ Begun = {} /\ fed \in [text : 0..2, calls : [1..2 -> 0..2]]
         /\ \A i \in 1..2 : fed.calls[i] = 0
BY DEF GM!Unfed, Begun

LEMMA TextKept == StreamInv /\ GM!TextDelta => StreamInv'
<1> SUFFICES ASSUME StreamInv, GM!TextDelta PROVE StreamInv'
  OBVIOUS
<1>1. /\ answer # {} /\ UNCHANGED <<contents, answer, functionCalls>>
      /\ fed.text < GM!Meant.text
      /\ fed' = [fed EXCEPT !.text = fed.text + 1]
      /\ textParts' = Append(textParts, fed.text + 1)
  BY DEF GM!TextDelta, GM!Answering
<1>2. GM!Meant \in GM!Answers /\ GM!Meant.text \in {0, 2}
  BY <1>1, MeantIs DEF GM!Answers
<1>3. fed \in [text : 0..2, calls : [1..2 -> 0..2]] /\ fed.text \in {0, 1} /\ GM!Meant.text = 2
  BY <1>1, <1>2 DEF StreamInv
<1>4. /\ fed' \in [text : 0..2, calls : [1..2 -> 0..2]] /\ fed'.text = fed.text + 1
      /\ fed'.calls = fed.calls
  BY <1>1, <1>3
<1>5. textParts' = Brought(fed.text + 1)
  BY <1>1, <1>3 DEF StreamInv, Brought
<1>6. GM!Meant' = GM!Meant /\ Begun' = Begun /\ \A i : GM!IdOf(i)' = GM!IdOf(i)
  BY <1>1, <1>4 DEF GM!Meant, Begun, GM!IdOf
<1>7. QED BY <1>1, <1>3, <1>4, <1>5, <1>6 DEF StreamInv

LEMMA CallKept == ASSUME NEW i \in GM!Indexes PROVE StreamInv /\ GM!CallDelta(i) => StreamInv'
<1> SUFFICES ASSUME StreamInv, GM!CallDelta(i) PROVE StreamInv'
  OBVIOUS
<1>1. /\ answer # {} /\ UNCHANGED <<contents, answer, textParts>>
      /\ i <= GM!Meant.calls /\ fed.calls[i] < 2
      /\ fed' = [fed EXCEPT !.calls[i] = fed.calls[i] + 1]
  BY DEF GM!CallDelta, GM!Answering
<1>2. i \in 1..2 /\ fed \in [text : 0..2, calls : [1..2 -> 0..2]]
  BY DEF StreamInv, GM!Indexes
<1>3. /\ fed' \in [text : 0..2, calls : [1..2 -> 0..2]] /\ fed'.text = fed.text
      /\ fed'.calls = [fed.calls EXCEPT ![i] = fed.calls[i] + 1]
  BY <1>1, <1>2
<1>4. Begun' = Begun \cup {i} /\ (i \in Begun <=> fed.calls[i] # 0)
  BY <1>1, <1>2, <1>3 DEF Begun
<1>5. GM!Meant' = GM!Meant /\ \A j : GM!IdOf(j)' = GM!IdOf(j)
  BY <1>1 DEF GM!Meant, GM!IdOf
<1> DEFINE entry == IF i \in Begun THEN functionCalls[i]
                    ELSE [id |-> GM!NoId, name |-> <<>>, args |-> <<>>]
           first == fed.calls[i] = 0
           grown == [id   |-> IF first /\ GM!Meant.ids THEN GM!IdOf(i) ELSE entry.id,
                     name |-> IF first THEN Append(entry.name, i) ELSE entry.name,
                     args |-> Append(entry.args, fed.calls[i] + 1)]
<1>6. functionCalls' = [j \in Begun \cup {i} |-> IF j = i THEN grown ELSE functionCalls[j]]
  BY DEF GM!CallDelta, GM!Index, StreamInv
<1>7. grown = [id |-> GM!IdOf(i), name |-> <<i>>, args |-> Brought(fed.calls[i] + 1)]
  <2>1. CASE first
    <3>1. entry = [id |-> GM!NoId, name |-> <<>>, args |-> <<>>]
      BY <1>4, <2>1
    <3>2. (IF GM!Meant.ids THEN GM!IdOf(i) ELSE GM!NoId) = GM!IdOf(i)
      BY DEF GM!IdOf
    <3>3. QED BY <2>1, <3>1, <3>2 DEF Brought
  <2>2. CASE ~first
    <3>1. fed.calls[i] = 1
      BY <1>1, <1>2, <2>2
    <3>2. entry = [id |-> GM!IdOf(i), name |-> <<i>>, args |-> <<1>>]
      BY <1>4, <3>1 DEF StreamInv, Brought
    <3> HIDE DEF entry
    <3>3. entry.id = GM!IdOf(i) /\ entry.name = <<i>> /\ entry.args = <<1>>
      BY <3>2
    <3>4. Append(entry.args, fed.calls[i] + 1) = Brought(fed.calls[i] + 1)
      <4>1. fed.calls[i] + 1 = 2
        BY <3>1
      <4>2. Brought(2) = <<1, 2>>
        BY DEF Brought
      <4>3. QED BY <3>3, <4>1, <4>2, TwoFragments
    <3>5. grown = [id |-> entry.id, name |-> entry.name,
                   args |-> Append(entry.args, fed.calls[i] + 1)]
      BY <2>2
    <3>6. QED BY <3>3, <3>4, <3>5
  <2>3. QED BY <2>1, <2>2
<1> HIDE DEF grown
<1>8. functionCalls' =
        [j \in Begun' |-> [id |-> GM!IdOf(j)', name |-> <<j>>, args |-> Brought(fed'.calls[j])]]
  <2>1. ASSUME NEW j \in Begun'
        PROVE  (IF j = i THEN grown ELSE functionCalls[j]) =
                 [id |-> GM!IdOf(j)', name |-> <<j>>, args |-> Brought(fed'.calls[j])]
    <3>1. CASE j = i
      <4>1. fed'.calls[j] = fed.calls[i] + 1
        BY <1>2, <1>3, <3>1
      <4>2. QED BY <1>5, <1>7, <3>1, <4>1
    <3>2. CASE j # i
      <4>1. j \in Begun /\ fed'.calls[j] = fed.calls[j]
        BY <1>2, <1>3, <1>4, <2>1, <3>2 DEF Begun
      <4>2. QED BY <1>5, <3>2, <4>1 DEF StreamInv
    <3>3. QED BY <3>1, <3>2
  <2>2. QED BY <1>4, <1>6, <2>1
<1>9. DOMAIN functionCalls' = Begun'
  BY <1>8
<1>10. \A j \in 1..2 : j > GM!Meant.calls => fed'.calls[j] = 0
  <2>1. GM!Meant.calls \in 0..2
    BY <1>1, MeantIs DEF GM!Answers
  <2>2. QED BY <1>1, <1>2, <1>3, <2>1 DEF StreamInv
<1>11. QED BY <1>1, <1>3, <1>5, <1>8, <1>9, <1>10 DEF StreamInv

\* sorted() of some of the two indexes.
LEMMA SortedIs ==
  ASSUME NEW D \in SUBSET (1..2)
  PROVE  LET s == GM!Sorted(D)
             n == Cardinality(D)
         IN  /\ n \in Nat /\ s \in [1..n -> D]
             /\ \A i, j \in 1..n : s[i] = s[j] => i = j
             /\ \A m \in 0..2 : D = 1..m => n = m /\ \A i \in 1..n : s[i] = i
<1> DEFINE n == Cardinality(D)
           Increasing(s) == \A i, j \in DOMAIN s : i < j => s[i] < s[j]
<1>1. D = {} \/ D = {1} \/ D = {2} \/ D = {1, 2}
  <2>1. \A x \in D : x = 1 \/ x = 2
    OBVIOUS
  <2>2. QED BY <2>1, Zenon
<1>2. /\ D = {} => n = 0
      /\ D = {1} \/ D = {2} => n = 1
      /\ D = {1, 2} => n = 2
  <2>1. Cardinality({}) = 0 /\ Cardinality({1}) = 1 /\ Cardinality({2}) = 1
    BY FS_EmptySet, FS_Singleton
  <2>2. Cardinality({1} \cup {2}) = 2
    <3>1. IsFiniteSet({1})
      BY FS_Singleton
    <3>2. Cardinality({1} \cup {2}) = IF 2 \in {1} THEN Cardinality({1}) ELSE Cardinality({1}) + 1
      BY <3>1, FS_AddElement
    <3>3. 2 \notin {1}
      OBVIOUS
    <3>4. QED BY <2>1, <3>2, <3>3
  <2>3. {1} \cup {2} = {1, 2}
    OBVIOUS
  <2>4. QED BY <2>1, <2>2, <2>3
<1> HIDE DEF n
<1>3. \E s \in [1..n -> D] : Increasing(s)
  <2>1. CASE D = {}
    <3> DEFINE s == [k \in 1..0 |-> k]
    <3>1. n = 0 /\ DOMAIN s = 1..0
      BY <1>2, <2>1
    <3>2. s \in [1..n -> D] /\ Increasing(s)
      BY <2>1, <3>1
    <3>3. QED BY <3>2
  <2>2. ASSUME NEW d \in {1, 2}, D = {d} PROVE \E s \in [1..n -> D] : Increasing(s)
    <3>1. n = 1
      BY <1>2, <2>2
    <3> DEFINE s == [k \in 1..1 |-> d]
    <3>2. s \in [1..n -> D] /\ Increasing(s)
      BY <2>2, <3>1
    <3>3. QED BY <3>2
  <2>3. CASE D = {1, 2}
    <3> DEFINE s == [k \in 1..2 |-> k]
    <3>1. s \in [1..n -> D] /\ Increasing(s)
      BY <1>2, <2>3
    <3>2. QED BY <3>1
  <2>4. QED BY <1>1, <2>1, <2>2, <2>3
<1> DEFINE s == GM!Sorted(D)
<1>4. s \in [1..n -> D] /\ Increasing(s)
  <2>1. s = CHOOSE q \in [1..n -> D] : Increasing(q)
    BY DEF GM!Sorted, GM!Cardinality, Cardinality, n
  <2>2. QED BY <1>3, <2>1
<1> HIDE DEF s
<1>5. n \in 0..2
  BY <1>1, <1>2
<1>6. ASSUME NEW i \in 1..n, NEW j \in 1..n, s[i] = s[j] PROVE i = j
  <2>1. DOMAIN s = 1..n
    BY <1>4
  <2>3. s[i] \in D /\ s[j] \in D
    BY <1>4
  <2>4. s[i] \in Nat /\ s[j] \in Nat
    <3>1. \A x \in D : x \in Nat
      OBVIOUS
    <3>2. QED BY <2>3, <3>1
  <2>2. ~(i < j) /\ ~(j < i)
    BY <1>4, <1>6, <2>1, <2>4
  <2>5. QED BY <1>5, <2>2
<1>7. ASSUME NEW m \in 0..2, D = 1..m PROVE n = m /\ \A i \in 1..n : s[i] = i
  <2>1. n = m
    BY <1>1, <1>2, <1>7
  <2>2. ASSUME NEW i \in 1..n PROVE s[i] = i
    <3>1. CASE n = 1
      BY <1>4, <1>7, <2>1, <3>1
    <3>2. CASE n = 2
      <4>1. s[1] \in {1, 2} /\ s[2] \in {1, 2} /\ s[1] < s[2]
        BY <1>4, <1>7, <2>1, <3>2
      <4>2. QED BY <3>2, <4>1
    <3>3. QED BY <1>5, <3>1, <3>2
  <2>3. QED BY <2>1, <2>2
<1>8. QED BY <1>4, <1>5, <1>6, <1>7 DEF n, s

LEMMA LenIs == ASSUME NEW s, NEW n \in Nat, DOMAIN s = 1..n PROVE Len(s) = n
OBVIOUS

\* What StreamWhole says of one response, and that its calls have ids.
Sound(meant, said) ==
  LET whole == GM!Said(meant, [i \in DOMAIN said.calls |-> said.calls[i].id])
  IN  /\ ~said.error => /\ Len(said.calls) = meant.calls
                        /\ said.text = whole.text /\ said.calls = whole.calls
      /\ \A i \in DOMAIN said.calls : \/ said.calls[i].args = GM!Fragments
                                      \/ said.error /\ said.calls[i].args = <<>>
      /\ \A i, j \in DOMAIN said.calls : said.calls[i].id = said.calls[j].id => i = j
Identified(made) ==
  \E n \in Nat : DOMAIN made = 1..n /\ \A i \in 1..n : made[i].id \in Ids

\* The id a call has in the end: the backend's, or one made of its index.
FinalId(i) == IF GM!IdOf(i) = GM!NoId THEN <<GM!Unidentified, i>> ELSE GM!IdOf(i)

LEMMA FinalIds ==
  ASSUME Len(contents) \in Nat
  PROVE  /\ \A i \in 1..2 : FinalId(i) \in Ids /\ GM!IdOf(i) \in Ids
         /\ \A i, j \in 1..2 : FinalId(i) = FinalId(j) => i = j
         /\ GM!Meant.ids => \A i, j \in 1..2 : GM!IdOf(i) = GM!IdOf(j) => i = j
<1>1. CASE GM!Meant.ids
  <2>1. \A i \in 1..2 : GM!IdOf(i) = <<Len(contents) + 1, i>>
    BY <1>1 DEF GM!IdOf
  <2>2. \A i \in 1..2 : GM!IdOf(i) # GM!NoId /\ GM!IdOf(i) \in Ids
    BY <2>1 DEF GM!NoId, GM!Unidentified, Ids
  <2>3. QED BY <2>1, <2>2 DEF FinalId
<1>2. CASE ~GM!Meant.ids
  <2>1. \A i \in 1..2 : GM!IdOf(i) = GM!NoId
    BY <1>2 DEF GM!IdOf
  <2>2. QED BY <1>2, <2>1 DEF FinalId, GM!NoId, GM!Unidentified, Ids
<1>3. QED BY <1>1, <1>2

LEMMA GatheredIs ==
  ASSUME StreamInv, NEW text, NEW reason
  PROVE  LET made == GM!Response(text, GM!Gathered, reason).calls
             s == GM!Sorted(Begun)
         IN  /\ DOMAIN made = 1..Cardinality(Begun)
             /\ \A k \in 1..Cardinality(Begun) :
                  made[k] = [id |-> FinalId(s[k]), name |-> <<s[k]>>,
                              args |-> GM!Parsed(Brought(fed.calls[s[k]]))]
<1> DEFINE s == GM!Sorted(Begun)
           n == Cardinality(Begun)
           gathered == [k \in DOMAIN s |->
                          [functionCalls[s[k]] EXCEPT
                             !.id = IF @ = GM!NoId THEN <<GM!Unidentified, s[k]>> ELSE @]]
           made == GM!Response(text, GM!Gathered, reason).calls
<1>1. s \in [1..n -> Begun]
  BY SortedIs DEF Begun
<1>2. GM!Gathered = gathered
  BY DEF GM!Gathered, GM!Mapped, StreamInv
<1>3. made = [k \in DOMAIN gathered |-> [gathered[k] EXCEPT !.args = GM!Parsed(gathered[k].args)]]
  BY <1>2 DEF GM!Response, GM!Mapped
<1>4. ASSUME NEW k \in 1..n
      PROVE  gathered[k] = [id |-> FinalId(s[k]), name |-> <<s[k]>>, args |-> Brought(fed.calls[s[k]])]
  <2>1. s[k] \in Begun /\ k \in DOMAIN s
    BY <1>1
  <2> HIDE DEF s
  <2>2. functionCalls[s[k]] =
          [id |-> GM!IdOf(s[k]), name |-> <<s[k]>>, args |-> Brought(fed.calls[s[k]])]
    BY <2>1 DEF StreamInv
  <2>3. gathered[k] = [functionCalls[s[k]] EXCEPT
                         !.id = IF functionCalls[s[k]].id = GM!NoId
                                THEN <<GM!Unidentified, s[k]>> ELSE functionCalls[s[k]].id]
    BY <2>1
  <2> HIDE DEF gathered
  <2>4. QED BY <2>2, <2>3 DEF FinalId
<1>5. DOMAIN gathered = 1..n
  BY <1>1
<1> HIDE DEF gathered, s, n, made
<1>6. DOMAIN made = 1..n
  BY <1>3, <1>5
<1>7. ASSUME NEW k \in 1..n
      PROVE  made[k] = [id |-> FinalId(s[k]), name |-> <<s[k]>>,
                         args |-> GM!Parsed(Brought(fed.calls[s[k]]))]
  BY <1>3, <1>4, <1>5
<1>8. QED BY <1>6, <1>7 DEF made, s, n

LEMMA SoundIf ==
  ASSUME NEW meant, NEW said, NEW n \in Nat,
         said.calls = [i \in 1..n |-> said.calls[i]],
         \A i, j \in 1..n : said.calls[i].id = said.calls[j].id => i = j,
         \A i \in 1..n : said.calls[i].args = GM!Fragments \/ (said.error /\ said.calls[i].args = <<>>),
         ~said.error =>
           /\ n = meant.calls
           /\ said.text = IF meant.text = 0 THEN <<>> ELSE GM!Fragments
           /\ \A i \in 1..n :
                said.calls[i] = [id |-> said.calls[i].id, name |-> <<i>>, args |-> GM!Fragments]
  PROVE  Sound(meant, said)
<1> DEFINE ids == [i \in DOMAIN said.calls |-> said.calls[i].id]
           whole == GM!Said(meant, ids)
<1>1. DOMAIN said.calls = 1..n
  OBVIOUS
<1>2. \A i \in 1..n : ids[i] = said.calls[i].id
  BY <1>1
<1> HIDE DEF ids
<1>3. ASSUME ~said.error
      PROVE  Len(said.calls) = meant.calls /\ said.text = whole.text /\ said.calls = whole.calls
  <2>1. whole.text = (IF meant.text = 0 THEN <<>> ELSE GM!Fragments)
    BY DEF GM!Said
  <2>2. whole.calls = [i \in 1..n |-> [id |-> ids[i], name |-> <<i>>, args |-> GM!Fragments]]
    BY <1>3 DEF GM!Said
  <2>3. \A i \in 1..n :
           said.calls[i] = [id |-> ids[i], name |-> <<i>>, args |-> GM!Fragments]
    BY <1>2, <1>3
  <2>4. said.calls = whole.calls
    BY <2>2, <2>3
  <2>5. Len(said.calls) = n
    BY <1>1, LenIs
  <2>6. QED BY <1>3, <2>1, <2>4, <2>5
<1>4. QED
  BY <1>1, <1>3, Zenon DEF Sound, ids

\* The stream ends: with everything said, or flagged.
LEMMA StreamSound ==
  ASSUME StreamInv, answer # {}, Len(contents) \in Nat, NEW reason \in {"stop", "length"},
         reason = "stop" => /\ fed.text = GM!Meant.text
                            /\ \A i \in 1..GM!Meant.calls : fed.calls[i] = 2
  PROVE  LET response == GM!Response(textParts, GM!Gathered, reason)
         IN  Sound(GM!Meant, response) /\ Identified(response.calls)
<1> DEFINE n == Cardinality(Begun)
           s == GM!Sorted(Begun)
           response == GM!Response(textParts, GM!Gathered, reason)
           made == response.calls
<1>1. /\ n \in Nat /\ s \in [1..n -> Begun]
      /\ \A i, j \in 1..n : s[i] = s[j] => i = j
      /\ \A m \in 0..2 : Begun = 1..m => n = m /\ \A i \in 1..n : s[i] = i
  BY SortedIs DEF Begun
<1>2. DOMAIN made = 1..n /\ made = [k \in DOMAIN made |-> made[k]]
  BY GatheredIs DEF GM!Response, GM!Mapped
<1>3. response.text = textParts /\ (response.error <=> reason = "length")
  BY DEF GM!Response
<1>4. \A k \in 1..n : made[k] = [id |-> FinalId(s[k]), name |-> <<s[k]>>,
                                  args |-> GM!Parsed(Brought(fed.calls[s[k]]))]
  BY GatheredIs
<1> HIDE DEF n, s, made, response
<1>5. \A k \in 1..n : s[k] \in 1..2 /\ (fed.calls[s[k]] = 1 \/ fed.calls[s[k]] = 2)
  BY <1>1 DEF Begun, StreamInv
<1>6. GM!Parsed(Brought(2)) = GM!Fragments /\ GM!Parsed(Brought(1)) = <<>>
  BY DEF GM!Parsed, GM!Fragments, Brought
<1>7. ASSUME NEW k \in 1..n
      PROVE  /\ made[k].id = FinalId(s[k])
             /\ made[k].args = GM!Fragments \/ (fed.calls[s[k]] = 1 /\ made[k].args = <<>>)
  <2> DEFINE args == GM!Parsed(Brought(fed.calls[s[k]]))
  <2>1. made[k] = [id |-> FinalId(s[k]), name |-> <<s[k]>>, args |-> args]
    BY <1>4
  <2>2. args = GM!Fragments \/ (fed.calls[s[k]] = 1 /\ args = <<>>)
    <3>1. CASE fed.calls[s[k]] = 1
      <4>1. args = GM!Parsed(Brought(1))
        BY <3>1
      <4>2. QED BY <1>6, <3>1, <4>1
    <3>2. CASE fed.calls[s[k]] = 2
      <4>1. args = GM!Parsed(Brought(2))
        BY <3>2
      <4>2. QED BY <1>6, <4>1
    <3>3. QED BY <1>5, <3>1, <3>2
  <2> HIDE DEF args
  <2>3. made[k].id = FinalId(s[k]) /\ made[k].args = args
    BY <2>1
  <2>4. QED BY <2>2, <2>3
<1>8. \A i, j \in 1..n : made[i].id = made[j].id => i = j
  BY <1>1, <1>5, <1>7, FinalIds
<1>9. Identified(made)
  BY <1>1, <1>2, <1>5, <1>7, FinalIds DEF Identified
<1>10. ASSUME reason = "stop"
       PROVE  /\ n = GM!Meant.calls
              /\ textParts = (IF GM!Meant.text = 0 THEN <<>> ELSE GM!Fragments)
              /\ \A i \in 1..n :
                   made[i] = [id |-> made[i].id, name |-> <<i>>, args |-> GM!Fragments]
  <2>1. GM!Meant.calls \in 0..2 /\ GM!Meant.text \in {0, 2}
    BY MeantIs DEF GM!Answers
  <2>2. Begun = 1..GM!Meant.calls
    BY <1>10, <2>1 DEF Begun, StreamInv
  <2>3. n = GM!Meant.calls /\ \A i \in 1..n : s[i] = i
    BY <1>1, <2>1, <2>2
  <2>4. ASSUME NEW i \in 1..n
        PROVE  made[i] = [id |-> made[i].id, name |-> <<i>>, args |-> GM!Fragments]
    <3>1. s[i] = i /\ fed.calls[i] = 2
      BY <1>10, <2>3
    <3>2. made[i] = [id |-> FinalId(i), name |-> <<i>>, args |-> GM!Fragments]
      BY <1>4, <1>6, <3>1
    <3>3. QED BY <3>2
  <2>5. textParts = (IF GM!Meant.text = 0 THEN <<>> ELSE GM!Fragments)
    BY <1>10, <2>1 DEF StreamInv, Brought, GM!Fragments
  <2>6. QED BY <2>3, <2>4, <2>5
<1>11. ASSUME NEW i \in 1..n
       PROVE  made[i].args = GM!Fragments \/ (response.error /\ made[i].args = <<>>)
  <2>1. CASE reason = "length"
    BY <1>3, <1>7, <2>1, Zenon
  <2>2. CASE reason = "stop"
    <3>1. made[i] = [id |-> made[i].id, name |-> <<i>>, args |-> GM!Fragments]
      BY <1>10, <2>2
    <3>2. made[i].args = GM!Fragments
      BY <3>1
    <3>3. QED BY <3>2, Zenon
  <2>3. QED BY <2>1, <2>2, Zenon
<1>12. Sound(GM!Meant, response)
  <2>1. ~response.error => reason = "stop"
    BY <1>3, Zenon
  <2>2. /\ response.calls = [k \in 1..n |-> response.calls[k]]
        /\ \A i, j \in 1..n : response.calls[i].id = response.calls[j].id => i = j
    BY <1>2, <1>8 DEF made
  <2>3. \A i \in 1..n :
          \/ response.calls[i].args = GM!Fragments
          \/ response.error /\ response.calls[i].args = <<>>
    BY <1>11, Zenon DEF made
  <2>4. ~response.error =>
          /\ n = GM!Meant.calls
          /\ response.text = IF GM!Meant.text = 0 THEN <<>> ELSE GM!Fragments
          /\ \A i \in 1..n : response.calls[i] =
               [id |-> response.calls[i].id, name |-> <<i>>, args |-> GM!Fragments]
    <3>1. SUFFICES ASSUME reason = "stop"
                   PROVE  /\ n = GM!Meant.calls
                          /\ response.text = IF GM!Meant.text = 0 THEN <<>> ELSE GM!Fragments
                          /\ \A i \in 1..n : response.calls[i] =
                               [id |-> response.calls[i].id, name |-> <<i>>, args |-> GM!Fragments]
      BY <2>1, Zenon
    <3>2. QED BY <1>3, <1>10, <3>1 DEF made
  <2>5. QED BY <1>1, <2>2, <2>3, <2>4, SoundIf, Zenon
<1>13. QED BY <1>9, <1>12 DEF made, response

\* The answer comes whole.
LEMMA CompletionSound ==
  ASSUME StreamInv, answer # {}, Len(contents) \in Nat, GM!Meant.ids
  PROVE  LET said == GM!Said(GM!Meant, [i \in GM!Indexes |-> GM!IdOf(i)])
             response == GM!Response(said.text, said.calls, "stop")
         IN  Sound(GM!Meant, response) /\ Identified(response.calls)
<1> DEFINE said == GM!Said(GM!Meant, [i \in GM!Indexes |-> GM!IdOf(i)])
           response == GM!Response(said.text, said.calls, "stop")
           made == response.calls
           n == GM!Meant.calls
<1>1. n \in 0..2
  BY MeantIs DEF GM!Answers
<1>2. said.calls = [i \in 1..n |-> [id |-> GM!IdOf(i), name |-> <<i>>, args |-> GM!Fragments]]
  BY <1>1 DEF GM!Said, GM!Indexes
<1>3. said.text = (IF GM!Meant.text = 0 THEN <<>> ELSE GM!Fragments)
  BY DEF GM!Said
<1>4. response.text = said.text
  BY DEF GM!Response
<1>5. made = [i \in DOMAIN said.calls |->
                 [said.calls[i] EXCEPT !.args = GM!Parsed(said.calls[i].args)]]
  BY DEF GM!Response, GM!Mapped
<1> HIDE DEF said, n, made
<1>6. ASSUME NEW i \in 1..n
      PROVE  made[i] = [id |-> GM!IdOf(i), name |-> <<i>>, args |-> GM!Fragments]
  <2>1. said.calls[i] = [id |-> GM!IdOf(i), name |-> <<i>>, args |-> GM!Fragments]
    BY <1>2
  <2>2. GM!Parsed(GM!Fragments) = GM!Fragments
    BY DEF GM!Parsed
  <2>3. made[i] = [said.calls[i] EXCEPT !.args = GM!Parsed(said.calls[i].args)]
    BY <1>2, <1>5
  <2>4. QED BY <2>1, <2>2, <2>3
<1>7. DOMAIN made = 1..n /\ made = [i \in 1..n |-> made[i]]
  BY <1>2, <1>5
<1>8. ASSUME NEW i \in 1..n
      PROVE  /\ made[i].id = GM!IdOf(i) /\ made[i].args = GM!Fragments
             /\ made[i] = [id |-> made[i].id, name |-> <<i>>, args |-> GM!Fragments]
  <2>1. made[i] = [id |-> GM!IdOf(i), name |-> <<i>>, args |-> GM!Fragments]
    BY <1>6
  <2>2. QED BY <2>1
<1>9. \A i, j \in 1..n : made[i].id = made[j].id => i = j
  <2>1. \A i \in 1..n : i \in 1..2
    BY <1>1
  <2>2. \A i, j \in 1..2 : GM!IdOf(i) = GM!IdOf(j) => i = j
    BY FinalIds
  <2>3. ASSUME NEW i \in 1..n, NEW j \in 1..n, made[i].id = made[j].id PROVE i = j
    <3>1. GM!IdOf(i) = GM!IdOf(j)
      BY <1>8, <2>3
    <3>2. QED BY <2>1, <2>2, <3>1
  <2>4. QED BY <2>3
<1>10. Identified(made)
  BY <1>1, <1>7, <1>8, FinalIds DEF Identified
<1>11. Sound(GM!Meant, response)
  <2>1. n \in Nat
    BY <1>1
  <2> HIDE DEF response
  <2>2. /\ response.calls = [i \in 1..n |-> response.calls[i]]
        /\ \A i, j \in 1..n : response.calls[i].id = response.calls[j].id => i = j
    BY <1>7, <1>9 DEF made
  <2>3. /\ \A i \in 1..n : response.calls[i].args = GM!Fragments
        /\ \A i \in 1..n : response.calls[i] =
             [id |-> response.calls[i].id, name |-> <<i>>, args |-> GM!Fragments]
    BY <1>8 DEF made
  <2>4. \A i \in 1..n :
          \/ response.calls[i].args = GM!Fragments
          \/ response.error /\ response.calls[i].args = <<>>
    BY <2>3, Zenon
  <2>5. ~response.error =>
          /\ n = GM!Meant.calls
          /\ response.text = IF GM!Meant.text = 0 THEN <<>> ELSE GM!Fragments
          /\ \A i \in 1..n : response.calls[i] =
               [id |-> response.calls[i].id, name |-> <<i>>, args |-> GM!Fragments]
    <3>1. /\ n = GM!Meant.calls
          /\ response.text = IF GM!Meant.text = 0 THEN <<>> ELSE GM!Fragments
      BY <1>3, <1>4 DEF n
    <3>2. QED BY <2>3, <3>1, Zenon
  <2>6. QED BY <2>1, <2>2, <2>4, <2>5, SoundIf, Zenon
<1>12. QED BY <1>10, <1>11 DEF made, said

-----------------------------------------------------------------------------
(* The conversation *)

\* What is sent is made of the conversation, and stays so while it is awaited.
ChatInv ==
  /\ contents \in Seq(Contents) /\ Len(contents) <= MaxTurns
  /\ \A i \in DOMAIN contents : contents[i].role = "user" => contents[i].calls = <<>>
  /\ answer = {} => request = <<>>
  /\ answer # {} => request = GM!EnsureToolResults(GM!Flat(GM!WithUserContent(contents)))
  /\ \A d \in delivered : Sound(d.meant, d.response)

\* With no answer awaited, nothing of one is kept.
LEMMA Idle ==
  ASSUME StreamInv, answer = {}
  PROVE  fed = GM!Unfed /\ textParts = <<>> /\ DOMAIN functionCalls = {}
         /\ functionCalls = [i \in DOMAIN functionCalls |-> functionCalls[i]]
<1>1. fed = GM!Unfed
  BY DEF StreamInv
<1>2. Begun = {} /\ fed.text = 0
  BY <1>1, UnfedIs
<1>3. QED BY <1>1, <1>2 DEF StreamInv, Brought

\* A turn is added to the conversation.
LEMMA TurnAdded ==
  ASSUME contents \in Seq(Contents), Len(contents) < MaxTurns,
         \A i \in DOMAIN contents : contents[i].role = "user" => contents[i].calls = <<>>,
         NEW c \in Contents, c.role = "user" => c.calls = <<>>, contents' = Append(contents, c)
  PROVE  /\ contents' \in Seq(Contents) /\ Len(contents') <= MaxTurns
         /\ \A i \in DOMAIN contents' : contents'[i].role = "user" => contents'[i].calls = <<>>
<1>1. contents' \in Seq(Contents) /\ Len(contents') = Len(contents) + 1
  OBVIOUS
<1>2. \A i \in 1..Len(contents) : contents'[i] = contents[i]
  OBVIOUS
<1>3. contents'[Len(contents) + 1] = c
  OBVIOUS
<1>4. DOMAIN contents' = 1..(Len(contents) + 1)
  BY <1>1
<1>5. \A i \in DOMAIN contents' : contents'[i].role = "user" => contents'[i].calls = <<>>
  BY <1>2, <1>3, <1>4
<1>6. QED BY <1>1, <1>5, FrameworksAssumption

LEMMA SpeaksKept ==
  ASSUME StreamInv, ChatInv, NEW c \in Contents, c.role = "user" => c.calls = <<>>, GM!Speaks(c)
  PROVE  StreamInv' /\ ChatInv'
<1>1. /\ answer = {} /\ answer' = {} /\ delivered' = {} /\ request' = request
      /\ Len(contents) < MaxTurns /\ contents' = Append(contents, c)
      /\ UNCHANGED <<fed, textParts, functionCalls>>
  BY DEF GM!Speaks, GM!gmStream
<1>2. ChatInv'
  <2>1. /\ contents' \in Seq(Contents) /\ Len(contents') <= MaxTurns
        /\ \A i \in DOMAIN contents' : contents'[i].role = "user" => contents'[i].calls = <<>>
    BY <1>1, TurnAdded DEF ChatInv
  <2>2. QED BY <1>1, <2>1 DEF ChatInv
<1>3. /\ fed' = GM!Unfed /\ textParts' = <<>> /\ DOMAIN functionCalls' = {}
      /\ functionCalls' = [i \in DOMAIN functionCalls' |-> functionCalls'[i]]
  BY <1>1, Idle
<1>4. StreamInv'
  <2>1. Begun' = {} /\ fed' \in [text : 0..2, calls : [1..2 -> 0..2]] /\ fed'.text = 0
    BY <1>1, Idle, UnfedIs DEF Begun
  <2>2. functionCalls' =
          [i \in Begun' |-> [id |-> GM!IdOf(i)', name |-> <<i>>, args |-> Brought(fed'.calls[i])]]
    BY <1>3, <2>1
  <2>3. textParts' = Brought(fed'.text)
    BY <1>3, <2>1 DEF Brought
  <2>4. QED BY <1>1, <1>3, <2>1, <2>2, <2>3 DEF StreamInv
<1>5. QED BY <1>2, <1>4

LEMMA AskKept == StreamInv /\ ChatInv /\ GM!Ask => StreamInv' /\ ChatInv'
<1> SUFFICES ASSUME StreamInv, ChatInv, GM!Ask PROVE StreamInv' /\ ChatInv'
  OBVIOUS
<1>1. PICK a \in GM!Answers : answer' = {a}
  BY DEF GM!Ask
<1>2. /\ answer = {} /\ delivered' = {} /\ contents' = contents
      /\ request' = GM!EnsureToolResults(GM!Flat(GM!WithUserContent(contents)))
      /\ UNCHANGED <<fed, textParts, functionCalls>>
  BY DEF GM!Ask, GM!gmStream
<1>3. ChatInv'
  BY <1>1, <1>2 DEF ChatInv
<1>4. /\ Begun = {} /\ Begun' = {} /\ fed'.text = 0 /\ fed' \in [text : 0..2, calls : [1..2 -> 0..2]]
      /\ \A i \in 1..2 : fed'.calls[i] = 0
  BY <1>2, Idle, UnfedIs DEF Begun
<1>5. GM!Meant' = a
  BY <1>1 DEF GM!Meant
<1>6. functionCalls' =
        [i \in Begun' |-> [id |-> GM!IdOf(i)', name |-> <<i>>, args |-> Brought(fed'.calls[i])]]
  BY <1>2, <1>4, Idle
<1>7. textParts' = Brought(fed'.text) /\ DOMAIN functionCalls' = Begun'
  BY <1>2, <1>4, Idle DEF Brought
<1>8. fed'.text <= GM!Meant'.text
  BY <1>4, <1>5 DEF GM!Answers
<1>9. StreamInv'
  BY <1>1, <1>4, <1>6, <1>7, <1>8 DEF StreamInv
<1>10. QED BY <1>3, <1>9

LEMMA ImageFinite ==
  ASSUME NEW n \in Nat, NEW f, DOMAIN f = 1..n
  PROVE  IsFiniteSet({f[i] : i \in 1..n})
<1> DEFINE T == {f[i] : i \in 1..n}
           g == [i \in 1..n |-> f[i]]
<1>1. g \in Surjection(1..n, T)
  BY DEF Surjection
<1>2. IsFiniteSet(1..n)
  <2>1. 1 \in Int /\ n \in Int
    OBVIOUS
  <2>2. QED BY <2>1, FS_Interval
<1> HIDE DEF T, g
<1>3. IsFiniteSet(T)
  BY <1>1, <1>2, FS_Surjection
<1>4. QED BY <1>3 DEF T

\* The results of a turn are those of calls made.
LEMMA ResultsAre ==
  ASSUME contents \in Seq(Contents), NEW ids \in SUBSET GM!Unanswered
  PROVE  GM!SetToSeq(ids) \in Seq(Ids)
<1>1. ASSUME NEW s \in Seq(Ids) PROVE IsFiniteSet(GM!ToSet(s)) /\ GM!ToSet(s) \subseteq Ids
  <2>1. Len(s) \in Nat /\ DOMAIN s = 1..Len(s) /\ GM!ToSet(s) = {s[i] : i \in 1..Len(s)}
    BY DEF GM!ToSet
  <2>2. IsFiniteSet(GM!ToSet(s))
    BY <2>1, ImageFinite
  <2>3. QED BY <2>1, <2>2
<1> DEFINE called == [i \in 1..Len(contents) |-> GM!ToSet(contents[i].calls)]
           made == {called[i] : i \in 1..Len(contents)}
<1>2. \A i \in 1..Len(contents) : contents[i].calls \in Seq(Ids)
  <2>1. \A c \in Contents : c.calls \in Seq(Ids)
    BY DEF Contents
  <2>2. \A i \in 1..Len(contents) : contents[i] \in Contents
    OBVIOUS
  <2>3. QED BY <2>1, <2>2
<1>3. IsFiniteSet(made)
  <2>1. Len(contents) \in Nat /\ DOMAIN called = 1..Len(contents)
    OBVIOUS
  <2> HIDE DEF called
  <2>2. QED BY <2>1, ImageFinite
<1>4. \A T \in made : IsFiniteSet(T) /\ T \subseteq Ids
  BY <1>1, <1>2
<1>5. GM!Called = UNION made
  BY DEF GM!Called
<1> HIDE DEF made, called
<1>6. IsFiniteSet(UNION made) /\ UNION made \subseteq Ids
  BY <1>3, <1>4, FS_UNION
<1>7. ids \subseteq UNION made
  BY <1>5 DEF GM!Unanswered
<1>8. IsFiniteSet(ids) /\ ids \subseteq Ids
  BY <1>6, <1>7, FS_Subset
<1>9. Cardinality(ids) \in Nat /\ ExistsBijection(1..Cardinality(ids), ids)
  BY <1>8, FS_CardinalityType
<1>10. PICK f \in [1..Cardinality(ids) -> ids] : GM!IsInjective(f)
  BY <1>9 DEF ExistsBijection, Bijection, Injection, IsInjective, GM!IsInjective
<1>11. GM!Cardinality(ids) = Cardinality(ids)
  BY DEF GM!Cardinality, Cardinality
<1>12. GM!SetToSeq(ids) \in [1..Cardinality(ids) -> ids]
  BY <1>10, <1>11 DEF GM!SetToSeq
<1>13. QED BY <1>8, <1>9, <1>12

LEMMA UserKept == StreamInv /\ ChatInv /\ GM!User => StreamInv' /\ ChatInv'
<1> SUFFICES ASSUME StreamInv, ChatInv, GM!User PROVE StreamInv' /\ ChatInv'
  OBVIOUS
<1>1. PICK t \in BOOLEAN : GM!Speaks([GM!Fallback EXCEPT !.text = t])
  BY DEF GM!User
<1> DEFINE c == [GM!Fallback EXCEPT !.text = t]
<1>2. c \in Contents /\ c.calls = <<>>
  <2>1. GM!Fallback \in Contents /\ GM!Fallback.calls = <<>>
    BY DEF GM!Fallback, Contents
  <2>2. \A d \in Contents, b \in BOOLEAN :
           LET e == [d EXCEPT !.text = b] IN e \in Contents /\ e.calls = d.calls
    BY DEF Contents
  <2>3. QED BY <2>1, <2>2
<1> HIDE DEF c
<1>3. GM!Speaks(c)
  BY <1>1 DEF c
<1>4. QED BY <1>2, <1>3, SpeaksKept

LEMMA ToolResultsKept == StreamInv /\ ChatInv /\ GM!ToolResults => StreamInv' /\ ChatInv'
<1> SUFFICES ASSUME StreamInv, ChatInv, GM!ToolResults PROVE StreamInv' /\ ChatInv'
  OBVIOUS
<1>1. PICK ids \in SUBSET GM!Unanswered, t \in BOOLEAN :
         GM!Speaks([GM!Fallback EXCEPT !.text = t, !.results = GM!SetToSeq(ids)])
  BY DEF GM!ToolResults
<1> DEFINE r == GM!SetToSeq(ids)
           c == [GM!Fallback EXCEPT !.text = t, !.results = r]
<1>2. r \in Seq(Ids)
  BY ResultsAre DEF ChatInv
<1>3. GM!Speaks(c)
  BY <1>1
<1> HIDE DEF r
<1>4. c \in Contents /\ c.calls = <<>>
  <2>1. GM!Fallback \in Contents /\ GM!Fallback.calls = <<>>
    BY DEF GM!Fallback, Contents
  <2>2. \A d \in Contents, b \in BOOLEAN, s \in Seq(Ids) :
           LET e == [d EXCEPT !.text = b, !.results = s] IN e \in Contents /\ e.calls = d.calls
    BY DEF Contents
  <2>3. QED BY <1>2, <2>1, <2>2
<1> HIDE DEF c
<1>5. QED BY <1>3, <1>4, SpeaksKept

\* The answer over, nothing of it is kept.
LEMMA DoneKept == GM!Done => StreamInv' /\ answer' = {} /\ request' = <<>>
<1> SUFFICES ASSUME GM!Done PROVE StreamInv' /\ answer' = {} /\ request' = <<>>
  OBVIOUS
<1>1. /\ answer' = {} /\ request' = <<>> /\ fed' = GM!Unfed /\ textParts' = <<>>
      /\ functionCalls' = [i \in {} |-> 0]
  BY DEF GM!Done, GM!NoCalls
<1>2. Begun' = {} /\ fed' \in [text : 0..2, calls : [1..2 -> 0..2]] /\ fed'.text = 0
  BY <1>1 DEF Begun, GM!Unfed
<1>3. functionCalls' =
        [i \in Begun' |-> [id |-> GM!IdOf(i)', name |-> <<i>>, args |-> Brought(fed'.calls[i])]]
  BY <1>1, <1>2
<1>4. textParts' = Brought(fed'.text)
  BY <1>1, <1>2 DEF Brought
<1>5. DOMAIN functionCalls' = Begun'
  BY <1>2, <1>3
<1>6. QED BY <1>1, <1>2, <1>3, <1>4, <1>5 DEF StreamInv

LEMMA DeliverKept ==
  ASSUME StreamInv, ChatInv, GM!Answering, NEW response, GM!Deliver(response),
         Sound(GM!Meant, response), Identified(response.calls)
  PROVE  StreamInv' /\ ChatInv'
<1> DEFINE made == response.calls
           ids == [i \in DOMAIN made |-> made[i].id]
           c == [role |-> "model", text |-> response.text # <<>>, calls |-> ids, results |-> <<>>]
<1>1. /\ GM!Done /\ contents' = Append(contents, c)
      /\ delivered' = {[meant |-> GM!Meant, response |-> response]}
  BY DEF GM!Deliver, GM!Mapped
<1>2. StreamInv' /\ answer' = {} /\ request' = <<>>
  BY <1>1, DoneKept
<1>3. ids \in Seq(Ids)
  <2>1. PICK n \in Nat : DOMAIN made = 1..n /\ \A i \in 1..n : made[i].id \in Ids
    BY DEF Identified
  <2>2. QED BY <2>1
<1> HIDE DEF ids
<1>4. c \in Contents /\ c.role # "user"
  <2> DEFINE said == response.text # <<>>
  <2>1. said \in BOOLEAN
    OBVIOUS
  <2> HIDE DEF said
  <2>2. <<>> \in Seq(Ids)
    OBVIOUS
  <2>3. [role |-> "model", text |-> said, calls |-> ids, results |-> <<>>] \in Contents
    BY <1>3, <2>1, <2>2 DEF Contents
  <2>4. QED BY <2>3 DEF said
<1> HIDE DEF c
<1>5. /\ contents' \in Seq(Contents) /\ Len(contents') <= MaxTurns
      /\ \A i \in DOMAIN contents' : contents'[i].role = "user" => contents'[i].calls = <<>>
  <2>1. Len(contents) < MaxTurns
    BY DEF GM!Answering
  <2>2. QED BY <1>1, <1>4, <2>1, TurnAdded DEF ChatInv
<1>6. \A d \in delivered' : Sound(d.meant, d.response)
  <2> DEFINE d == [meant |-> GM!Meant, response |-> response]
  <2>1. d.meant = GM!Meant /\ d.response = response
    OBVIOUS
  <2>2. Sound(d.meant, d.response)
    BY <2>1
  <2>3. QED BY <1>1, <2>2
<1>7. QED BY <1>2, <1>5, <1>6 DEF ChatInv

LEMMA StreamEndsKept == StreamInv /\ ChatInv /\ GM!StreamEnds => StreamInv' /\ ChatInv'
<1> SUFFICES ASSUME StreamInv, ChatInv, GM!StreamEnds PROVE StreamInv' /\ ChatInv'
  OBVIOUS
<1>1. PICK reason \in {"stop", "length"} :
        /\ GM!Deliver(GM!Response(textParts, GM!Gathered, reason))
        /\ reason = "stop" => /\ fed.text = GM!Meant.text
                              /\ \A i \in 1..GM!Meant.calls : fed.calls[i] = 2
  BY DEF GM!StreamEnds
<1>2. GM!Answering /\ answer # {} /\ Len(contents) \in Nat
  BY DEF GM!StreamEnds, GM!Answering, ChatInv
<1> DEFINE response == GM!Response(textParts, GM!Gathered, reason)
<1>3. Sound(GM!Meant, response) /\ Identified(response.calls)
  BY <1>1, <1>2, StreamSound
<1> HIDE DEF response
<1>4. GM!Deliver(response)
  BY <1>1 DEF response
<1>5. QED BY <1>2, <1>3, <1>4, DeliverKept

LEMMA CompletionKept == StreamInv /\ ChatInv /\ GM!Completion => StreamInv' /\ ChatInv'
<1> SUFFICES ASSUME StreamInv, ChatInv, GM!Completion PROVE StreamInv' /\ ChatInv'
  OBVIOUS
<1> DEFINE said == GM!Said(GM!Meant, [i \in GM!Indexes |-> GM!IdOf(i)])
           response == GM!Response(said.text, said.calls, "stop")
<1>1. /\ GM!Answering /\ answer # {} /\ Len(contents) \in Nat /\ GM!Meant.ids
      /\ GM!Deliver(response)
  BY DEF GM!Completion, GM!Answering, ChatInv
<1>2. Sound(GM!Meant, response) /\ Identified(response.calls)
  BY <1>1, CompletionSound
<1> HIDE DEF response
<1>3. QED BY <1>1, <1>2, DeliverKept

-----------------------------------------------------------------------------
(* What is promised of the model *)

GMInv == StreamInv /\ ChatInv

LEMMA GMKept == GMInv /\ [GM!GMNext]_gateway_model => GMInv'
<1> SUFFICES ASSUME GMInv, [GM!GMNext]_gateway_model PROVE GMInv'
  OBVIOUS
<1> USE DEF GMInv
<1>1. CASE GM!User
  BY <1>1, UserKept
<1>2. CASE GM!ToolResults
  BY <1>2, ToolResultsKept
<1>3. CASE GM!Ask
  BY <1>3, AskKept
<1>4. CASE GM!TextDelta
  <2>1. StreamInv'
    BY <1>4, TextKept
  <2>2. UNCHANGED <<contents, request, answer, delivered>>
    BY <1>4 DEF GM!TextDelta
  <2>3. QED BY <2>1, <2>2 DEF ChatInv
<1>5. ASSUME NEW i \in GM!Indexes, GM!CallDelta(i) PROVE GMInv'
  <2>1. StreamInv'
    BY <1>5, CallKept
  <2>2. UNCHANGED <<contents, request, answer, delivered>>
    BY <1>5 DEF GM!CallDelta
  <2>3. QED BY <2>1, <2>2 DEF ChatInv
<1>6. CASE GM!StreamEnds
  BY <1>6, StreamEndsKept
<1>7. CASE GM!Completion
  BY <1>7, CompletionKept
<1>8. CASE GM!Breaks
  <2>1. StreamInv' /\ answer' = {} /\ request' = <<>>
    BY <1>8, DoneKept DEF GM!Breaks
  <2>2. contents' = contents /\ delivered' = delivered
    BY <1>8 DEF GM!Breaks
  <2>3. QED BY <2>1, <2>2 DEF ChatInv
<1>9. CASE UNCHANGED gateway_model
  <2>1. UNCHANGED <<contents, request, answer, fed, textParts, functionCalls, delivered>>
    BY <1>9 DEF gateway_model
  <2>2. ChatInv'
    BY <2>1 DEF ChatInv
  <2>3. GM!Meant' = GM!Meant /\ Begun' = Begun /\ \A i : GM!IdOf(i)' = GM!IdOf(i)
    BY <2>1 DEF GM!Meant, Begun, GM!IdOf
  <2>4. StreamInv'
    BY <2>1, <2>3 DEF StreamInv
  <2>5. QED BY <2>2, <2>4
<1>10. CASE GM!GMRest
  BY <1>9, <1>10 DEF GM!GMRest, GM!gmVars, GM!gmStream, gateway_model
<1>11. QED
  BY <1>1, <1>2, <1>3, <1>4, <1>5, <1>6, <1>7, <1>8, <1>9, <1>10 DEF GM!GMNext

LEMMA GMStarts == GM!GMInit => GMInv
<1> SUFFICES ASSUME GM!GMInit PROVE GMInv
  OBVIOUS
<1>1. /\ contents = <<>> /\ request = <<>> /\ answer = {} /\ delivered = {}
      /\ fed = GM!Unfed /\ textParts = <<>> /\ functionCalls = [i \in {} |-> 0]
  BY DEF GM!GMInit, GM!NoCalls
<1>2. ChatInv
  <2>1. contents \in Seq(Contents) /\ Len(contents) = 0 /\ DOMAIN contents = {}
    BY <1>1
  <2>2. QED BY <1>1, <2>1, FrameworksAssumption DEF ChatInv
<1>3. Begun = {} /\ fed \in [text : 0..2, calls : [1..2 -> 0..2]] /\ fed.text = 0
  BY <1>1, UnfedIs
<1>4. functionCalls =
        [i \in Begun |-> [id |-> GM!IdOf(i), name |-> <<i>>, args |-> Brought(fed.calls[i])]]
  BY <1>1, <1>3
<1>5. StreamInv
  BY <1>1, <1>3, <1>4 DEF StreamInv, Brought
<1>6. QED BY <1>2, <1>5 DEF GMInv

LEMMA GMAlways == AgentSpec => []GMInv
<1>1. AgentInit => GMInv
  BY GMStarts DEF AgentInit
<1>2. GMInv /\ [AgentNext]_agentVars => GMInv'
  <2>1. GMInv /\ [GM!GMNext]_gateway_model => GMInv'
    BY GMKept
  <2>2. [AgentNext]_agentVars => [GM!GMNext]_gateway_model
    BY DEF AgentNext, agentVars, Calls, LangChain, GoogleAdk, ModelCalls, WrappedCalls
  <2>3. QED BY <2>1, <2>2
<1>3. QED BY <1>1, <1>2, PTL DEF AgentSpec

\* However tools were interrupted and results came late, every call in what
\* generate_content_async() sends is answered by a tool message right after the
\* message that makes it, and the history is sent complete and in order.
THEOREM ConversationAnswered == AgentSpec => []ChatAnswered
<1>1. GMInv => ChatAnswered
  <2> SUFFICES ASSUME GMInv PROVE GM!ChatAnswered
    BY DEF ChatAnswered
  <2> DEFINE ms == GM!Flat(GM!WithUserContent(contents))
  <2>1. IsHistory(ms)
    BY FlatIsHistory DEF GMInv, ChatInv
  <2>2. answer # {} => request = GM!EnsureToolResults(ms)
    BY DEF GMInv, ChatInv
  <2>3. answer = {} => request = <<>>
    BY DEF GMInv, ChatInv
  <2> HIDE DEF ms
  <2>4. answer # {} => /\ request \in Seq(Messages) /\ Healed(request, <<>>)
                       /\ InStep(request, ms, Len(ms))
    BY <2>1, <2>2, HistoryHealed
  <2>5. ASSUME NEW i \in DOMAIN request, request[i].role = "assistant",
               NEW id \in GM!ToSet(request[i].calls)
        PROVE  \E j \in (i + 1)..Len(request) :
                 request[j].result = id /\ \A k \in (i + 1)..j : request[k].role = "tool"
    <3>1. answer # {}
      BY <2>3, <2>5
    <3>2. IsAnswered(request, i, id) \/ IsPending(request, <<>>, i, id)
      BY <2>4, <2>5, <3>1 DEF Healed
    <3>3. ~IsPending(request, <<>>, i, id)
      BY DEF IsPending, GM!ToSet
    <3>4. QED BY <3>2, <3>3 DEF IsAnswered
  <2>6. answer # {} =>
          /\ GM!Rank(request, Len(request)) = Len(ms)
          /\ \A j \in DOMAIN request :
               request[j].real => request[j] = ms[GM!Rank(request, j)]
    BY <2>4 DEF InStep
  <2>7. QED BY <2>5, <2>6 DEF GM!ChatAnswered, ms
<1>2. QED BY <1>1, GMAlways, PTL

\* What the fragments of a stream are put together to is what the backend meant,
\* or flagged as cut off, with no call half its arguments and no id twice.
THEOREM AnswerWhole == AgentSpec => []StreamWhole
<1>1. GMInv => StreamWhole
  BY DEF GMInv, ChatInv, Sound, StreamWhole, GM!StreamWhole
<1>2. QED BY <1>1, GMAlways, PTL

LEMMA GMTypes == GMInv => GM!GMTypeOK
<1> SUFFICES ASSUME GMInv PROVE GM!GMTypeOK
  OBVIOUS
<1>1. \A i \in DOMAIN request : request[i].role \in {"user", "assistant", "tool"}
  <2>1. CASE answer = {}
    BY <2>1 DEF GMInv, ChatInv
  <2>2. CASE answer # {}
    <3> DEFINE ms == GM!Flat(GM!WithUserContent(contents))
    <3>1. IsHistory(ms) /\ request = GM!EnsureToolResults(ms)
      BY <2>2, FlatIsHistory DEF GMInv, ChatInv
    <3> HIDE DEF ms
    <3>2. request \in Seq(Messages)
      BY <3>1, HistoryHealed
    <3>3. \A m \in Messages : m.role \in Roles
      BY DEF Messages
    <3>4. \A i \in DOMAIN request : request[i] \in Messages
      BY <3>2
    <3>5. QED BY <3>3, <3>4 DEF Roles
  <2>3. QED BY <2>1, <2>2
<1>2. DOMAIN functionCalls \subseteq GM!Indexes
  BY DEF GMInv, StreamInv, Begun, GM!Indexes
<1>3. ASSUME NEW i \in DOMAIN functionCalls
      PROVE  functionCalls[i].args \in {<<1>>, GM!Fragments}
  <2>1. i \in Begun /\ i \in 1..2 /\ fed.calls[i] \in {1, 2}
    BY <1>3 DEF GMInv, StreamInv, Begun
  <2>2. functionCalls[i].args = Brought(fed.calls[i])
    BY <2>1 DEF GMInv, StreamInv
  <2>3. QED BY <2>1, <2>2 DEF Brought, GM!Fragments
<1>4. QED BY <1>1, <1>2, <1>3 DEF GMInv, ChatInv, GM!GMTypeOK
=============================================================================
