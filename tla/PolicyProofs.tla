----------------------------- MODULE PolicyProofs -----------------------------
(***************************************************************************)
(* What the decision of Policy never does, for every set of tags, every    *)
(* intensity and every configuration.  The invariant is only the types of  *)
(* the inputs; the rest is about the decision, which is a function of      *)
(* them.                                                                   *)
(***************************************************************************)
EXTENDS Policy, FiniteSetTheorems, TLAPS

Inputs ==
  /\ user \in [Tags -> Wishes(UserStatuses)]
  /\ bot \in [Tags -> Wishes(BotStatuses)]
  /\ relation \in Relations
  /\ limits \in Limits

-----------------------------------------------------------------------------
(* The inputs.                                                             *)

LEMMA InputsInvariant == Spec => []Inputs
<1>1. Init => Inputs
  BY DEF Init, Inputs, Wishes, Relations
<1>2. Inputs /\ [Next]_vars => Inputs'
  BY DEF Inputs, Next, SetUser, SetTemplate, SetRelation, SetLimits, vars
<1> QED BY <1>1, <1>2, PTL DEF Spec

\* An entry that likes has an intensity from 1 to 5.
LEMMA WishFacts ==
  ASSUME Inputs, NEW t \in Tags, NEW e \in {user[t], bot[t]}
  PROVE  /\ e.status \in Statuses \cup {"unset"} /\ e.intensity \in 0..5
         /\ e.status = "like" => e.intensity \in 1..5
         /\ e.status = "unset" <=> e = Unset
<1>1. e \in Wishes(UserStatuses) \cup Wishes(BotStatuses)
  BY DEF Inputs
<1>2. \/ e = Unset
      \/ e.status = "like" /\ e.intensity \in Intensities
      \/ e.status \in Statuses \ {"like"} /\ e.intensity = 0
  BY <1>1, WishAssumption DEF Wishes
<1>3. "unset" \notin Statuses /\ Unset.status = "unset" /\ Unset.intensity = 0
  BY DEF Statuses, Unset
<1>4. \A n \in Intensities : n \in 1..5 /\ n \in 0..5
  <2>1. ASSUME NEW n \in Intensities PROVE n \in 1..5
    BY WishAssumption, ZenonT(30)
  <2>2. \A n \in 1..5 : n \in 0..5
    OBVIOUS
  <2> QED BY <2>1, <2>2
<1>5. "like" \in Statuses
  BY DEF Statuses
<1>6. CASE e = Unset
  BY <1>3, <1>6
<1>7. CASE e.status = "like" /\ e.intensity \in Intensities
  <2>1. e.intensity \in 1..5 /\ e.intensity \in 0..5
    BY <1>4, <1>7
  <2>2. e.status # "unset" /\ e # Unset
    BY <1>3, <1>7
  <2> QED BY <1>5, <1>7, <2>1, <2>2
<1>8. CASE e.status \in Statuses \ {"like"} /\ e.intensity = 0
  BY <1>3, <1>8
<1> QED BY <1>2, <1>6, <1>7, <1>8

-----------------------------------------------------------------------------
(* Induction by a least counterexample: the provers cannot instantiate an  *)
(* induction over a predicate, but a set has a least member.               *)

LEMMA LeastMember ==
  ASSUME NEW T \in SUBSET Nat, T # {}
  PROVE  \E n \in T : \A m \in T : n <= m
<1> DEFINE R == OpToRel(<, Nat)
<1>1. IsWellFoundedOn(R, Nat)
  BY NatLessThanWellFounded
<1>2. \A m, n \in Nat : m < n => <<m, n>> \in R
  BY DEF OpToRel
<1> HIDE DEF R
<1>3. PICK n \in T : \A m \in T : ~ (<<m, n>> \in R)
  BY <1>1, WFMin
<1>4. \A m \in T : ~ (m < n)
  BY <1>2, <1>3
<1>5. \A m \in T : n <= m
  BY <1>4
<1> QED BY <1>5

\* Max means something on every nonempty set of positions.
LEMMA GreatestMember ==
  ASSUME NEW N \in Nat, NEW T \in SUBSET (1..N), T # {}
  PROVE  Max(T) \in T /\ \A y \in T : y <= Max(T)
<1> DEFINE U == {n \in Nat : \A y \in T : y <= n}
<1>1. N \in U
  OBVIOUS
<1>2. PICK n \in U : \A m \in U : n <= m
  <2>1. U \in SUBSET Nat /\ U # {}
    BY <1>1
  <2> HIDE DEF U
  <2> QED BY <2>1, LeastMember
<1>3. n \in T
  <2> SUFFICES ASSUME n \notin T PROVE FALSE
    OBVIOUS
  <2>1. \A y \in T : y <= n - 1 /\ y >= 1
    OBVIOUS
  <2>2. PICK y \in T : y >= 1 /\ y <= n - 1
    BY <2>1
  <2>3. n \in Nat /\ n - 1 \in Nat
    BY <2>2
  <2>4. n - 1 \in U
    BY <2>1, <2>3
  <2> QED BY <1>2, <2>3, <2>4
<1>4. \E x \in T : \A y \in T : x >= y
  BY <1>2, <1>3
<1>5. Max(T) \in T /\ \A y \in T : Max(T) >= y
  BY <1>4 DEF Max
<1> QED BY <1>5

-----------------------------------------------------------------------------
(* The size of a text.                                                     *)

\* A fold over the positions 1..N is a function: some function satisfies the
\* equation that defines it.
LEMMA FoldExists ==
  ASSUME NEW N \in Nat, NEW base \in Int, NEW w \in [1..N -> Int]
  PROVE  \E g : g = [s \in SUBSET (1..N) |->
                       IF s = {} THEN base ELSE g[s \ {Max(s)}] + 1 + w[Max(s)]]
<1> DEFINE Folds(k, g) ==
             /\ g \in [SUBSET (1..k) -> Int]
             /\ \A s \in SUBSET (1..k) :
                  g[s] = IF s = {} THEN base ELSE g[s \ {Max(s)}] + 1 + w[Max(s)]
           Bad == {k \in 0..N : ~ \E g : Folds(k, g)}
<1>1. Bad = {}
  <2> SUFFICES ASSUME Bad # {} PROVE FALSE
    OBVIOUS
  <2>1. PICK k \in Bad : \A m \in Bad : k <= m
    <3>1. Bad \in SUBSET Nat
      OBVIOUS
    <3> HIDE DEF Bad
    <3> QED BY <3>1, LeastMember
  <2>2. CASE k = 0
    <3> DEFINE h == [s \in SUBSET (1..0) |-> base]
    <3>0. \A s \in SUBSET (1..0) : s = {}
      OBVIOUS
    <3>1. Folds(0, h)
      BY <3>0
    <3> QED BY <2>2, <3>1
  <2>3. CASE k # 0
    <3>1. k \in 1..N /\ k - 1 \in 0..N /\ k - 1 \notin Bad
      <4>1. k \in 0..N
        OBVIOUS
      <4> HIDE DEF Bad
      <4> QED BY <2>1, <2>3, <4>1
    <3>2. PICK h : Folds(k - 1, h)
      <4> HIDE DEF Folds
      <4> QED BY <3>1
    <3> DEFINE g == [s \in SUBSET (1..k) |-> IF k \in s THEN h[s \ {k}] + 1 + w[k] ELSE h[s]]
    <3>3. \A s \in SUBSET (1..k) : s \ {k} \in SUBSET (1..(k - 1))
      BY <3>1
    <3>4. \A s \in SUBSET (1..k) : k \notin s => s \in SUBSET (1..(k - 1))
      BY <3>1
    <3>5. g \in [SUBSET (1..k) -> Int]
      <4>1. w[k] \in Int /\ h \in [SUBSET (1..(k - 1)) -> Int]
        BY <3>1, <3>2
      <4>2. ASSUME NEW s \in SUBSET (1..k)
            PROVE  (IF k \in s THEN h[s \ {k}] + 1 + w[k] ELSE h[s]) \in Int
        BY <3>3, <3>4, <4>1
      <4> QED BY <4>2
    <3>6. ASSUME NEW s \in SUBSET (1..k), s # {}
          PROVE  g[s] = g[s \ {Max(s)}] + 1 + w[Max(s)]
      <4>1. Max(s) \in s /\ \A y \in s : y <= Max(s)
        <5>1. k \in Nat
          BY <3>1
        <5> HIDE DEF g
        <5> QED BY <3>6, <5>1, GreatestMember
      <4>2. CASE k \in s
        <5>1. Max(s) = k
          <6> HIDE DEF g, Folds, Bad
          <6>1. Max(s) \in 1..k /\ k <= Max(s)
            BY <4>1, <4>2
          <6> QED BY <3>1, <6>1
        <5>2. g[s \ {k}] = h[s \ {k}]
          BY <3>3
        <5> QED BY <4>2, <5>1, <5>2
      <4>3. CASE k \notin s
        <5>1. s \in SUBSET (1..(k - 1)) /\ s \ {Max(s)} \in SUBSET (1..k)
              /\ k \notin s \ {Max(s)}
          BY <3>4, <4>3
        <5>2. g[s] = h[s] /\ g[s \ {Max(s)}] = h[s \ {Max(s)}]
          BY <4>3, <5>1
        <5> QED BY <3>2, <3>6, <5>1, <5>2
      <4> QED BY <4>2, <4>3
    <3>7. g[{}] = base
      BY <3>1, <3>2
    <3>8. Folds(k, g)
      <4> HIDE DEF g
      <4>1. \A s \in SUBSET (1..k) :
              g[s] = IF s = {} THEN base ELSE g[s \ {Max(s)}] + 1 + w[Max(s)]
        BY <3>6, <3>7
      <4> QED BY <3>5, <4>1
    <3> HIDE DEF g, Folds
    <3> QED BY <3>8
  <2> QED BY <2>2, <2>3
<1>2. PICK g : Folds(N, g)
  <2>1. N \in 0..N
    OBVIOUS
  <2> HIDE DEF Folds
  <2> QED BY <1>1, <2>1
<1>3. g = [s \in SUBSET (1..N) |->
            IF s = {} THEN base ELSE g[s \ {Max(s)}] + 1 + w[Max(s)]]
  BY <1>2
<1> QED BY <1>3

\* What such a function gives is a number.
LEMMA FoldType ==
  ASSUME NEW N \in Nat, NEW base \in Int, NEW w \in [1..N -> Int], NEW g,
         g = [s \in SUBSET (1..N) |->
               IF s = {} THEN base ELSE g[s \ {Max(s)}] + 1 + w[Max(s)]]
  PROVE  g[1..N] \in Int
<1> DEFINE Bad == {k \in 0..N : \E s \in SUBSET (1..k) : g[s] \notin Int}
<1>0. SUFFICES ASSUME Bad # {} PROVE FALSE
  <2>1. N \in 0..N /\ 1..N \in SUBSET (1..N)
    OBVIOUS
  <2> QED BY <2>1
<1>1. PICK k \in Bad : \A m \in Bad : k <= m
  <2>1. Bad \in SUBSET Nat
    OBVIOUS
  <2> HIDE DEF Bad
  <2> QED BY <1>0, <2>1, LeastMember
<1>2. PICK s \in SUBSET (1..k) : g[s] \notin Int
  OBVIOUS
<1>3. s \in SUBSET (1..N)
  OBVIOUS
<1>4. s # {}
  BY <1>2, <1>3
<1>5. Max(s) \in s /\ \A y \in s : y <= Max(s)
  BY <1>3, <1>4, GreatestMember
<1>6. k - 1 \in 0..N /\ s \ {Max(s)} \in SUBSET (1..(k - 1))
  <2>1. k \in 0..N /\ Max(s) \in 1..k
    BY <1>5
  <2> HIDE DEF Bad
  <2>2. k \in 1..N
    BY <2>1
  <2>3. ASSUME NEW y \in s \ {Max(s)} PROVE y \in 1..(k - 1)
    <3>1. y \in 1..k /\ y <= Max(s) /\ y # Max(s)
      BY <1>5
    <3> QED BY <2>1, <2>2, <3>1
  <2>4. k - 1 \in 0..N
    BY <2>2
  <2>5. s \ {Max(s)} \in SUBSET (1..(k - 1))
    BY <2>3
  <2> QED BY <2>4, <2>5
<1>7. g[s \ {Max(s)}] \in Int
  <2>1. k - 1 \notin Bad
    <3>1. k \in Int
      OBVIOUS
    <3> HIDE DEF Bad
    <3> QED BY <1>1, <3>1
  <2> QED BY <1>6, <2>1
<1>8. g[s] = g[s \ {Max(s)}] + 1 + w[Max(s)] /\ w[Max(s)] \in Int
  BY <1>3, <1>4, <1>5
<1>9. \A a, b \in Int : a + 1 + b \in Int
  OBVIOUS
<1> HIDE DEF Bad
<1> QED BY <1>2, <1>7, <1>8, <1>9

-----------------------------------------------------------------------------
(* The lines of the text.                                                  *)

Line == [kind : {"note", "avoid", "positive"}, tag : Nat, len : Nat]

\* The size of lines is a number.
LEMMA SizeType ==
  ASSUME NEW lines \in Seq(Line)
  PROVE  Size(lines) \in Int
<1> DEFINE N == Len(lines)
           w == [i \in 1..N |-> lines[i].len]
           iter == CHOOSE iter : iter = [s \in SUBSET (DOMAIN lines) |->
                  IF s = {} THEN HeaderLen
                  ELSE iter[s \ {Max(s)}] + 1 + lines[Max(s)].len]
<1>1. Size(lines) = iter[DOMAIN lines]
  BY DEF Size, FoldLeft, MapThenFoldSet
<1>2. DOMAIN lines = 1..N /\ N \in Nat /\ w \in [1..N -> Int] /\ HeaderLen \in Int
  <2>1. DOMAIN lines = 1..N /\ N \in Nat /\ \A i \in 1..N : lines[i] \in Line
    OBVIOUS
  <2>2. \A line \in Line : line.len \in Int
    BY DEF Line
  <2>3. w \in [1..N -> Int]
    BY <2>1, <2>2
  <2>4. HeaderLen \in Int
    BY LengthAssumption
  <2> QED BY <2>1, <2>3, <2>4
<1>3. \A s \in SUBSET (1..N) : s # {} => w[Max(s)] = lines[Max(s)].len
  <2> SUFFICES ASSUME NEW s \in SUBSET (1..N), s # {} PROVE w[Max(s)] = lines[Max(s)].len
    OBVIOUS
  <2>1. Max(s) \in 1..N
    BY <1>2, GreatestMember
  <2> QED BY <2>1
<1> HIDE DEF N, w
<1>4. \E g : g = [s \in SUBSET (DOMAIN lines) |->
                   IF s = {} THEN HeaderLen ELSE g[s \ {Max(s)}] + 1 + lines[Max(s)].len]
  <2>1. PICK g : g = [s \in SUBSET (1..N) |->
                       IF s = {} THEN HeaderLen ELSE g[s \ {Max(s)}] + 1 + w[Max(s)]]
    BY <1>2, FoldExists
  <2>2. g = [s \in SUBSET (1..N) |->
              IF s = {} THEN HeaderLen ELSE g[s \ {Max(s)}] + 1 + lines[Max(s)].len]
    BY <1>3, <2>1
  <2> QED BY <1>2, <2>2
<1>5. iter = [s \in SUBSET (DOMAIN lines) |->
               IF s = {} THEN HeaderLen ELSE iter[s \ {Max(s)}] + 1 + lines[Max(s)].len]
  BY <1>4
<1> HIDE DEF iter
<1>6. iter = [s \in SUBSET (1..N) |->
               IF s = {} THEN HeaderLen ELSE iter[s \ {Max(s)}] + 1 + w[Max(s)]]
  BY <1>2, <1>3, <1>5
<1>7. iter[1..N] \in Int
  BY <1>2, <1>6, FoldType
<1> QED BY <1>1, <1>2, <1>7

-----------------------------------------------------------------------------
(* How far a tag goes.                                                     *)

LEMMA LeastOfTwo ==
  ASSUME NEW a \in Int, NEW b \in Int, NEW S, S # {}, S \subseteq {a, b}
  PROVE  Min(S) \in S /\ \A x \in S : Min(S) <= x
<1>1. \E x \in S : \A y \in S : x =< y
  <2>1. CASE a \in S /\ (b \in S => a <= b)
    BY <2>1
  <2>2. CASE b \in S /\ (a \in S => b <= a)
    BY <2>2
  <2>3. a \in S \/ b \in S
    OBVIOUS
  <2>4. a <= b \/ b <= a
    OBVIOUS
  <2> QED BY <2>1, <2>2, <2>3, <2>4
<1> QED BY <1>1 DEF Min

\* The cap of a tag that somebody likes is at most what each side that likes it says.
LEMMA CapFacts ==
  ASSUME Inputs, NEW t \in Tags, Liked(t) # {}
  PROVE  /\ Cap(t) \in 1..5
         /\ \A e \in {user[t], bot[t]} : e.status = "like" => Cap(t) <= e.intensity
         /\ Rhythm = "slow" => Cap(t) <= 2
<1> DEFINE S == {e.intensity : e \in Liked(t)}
<1>1. /\ user[t].intensity \in 0..5 /\ bot[t].intensity \in 0..5
      /\ \A e \in Liked(t) : e.intensity \in 1..5
  BY WishFacts DEF Liked
<1>2. /\ S # {} /\ S \subseteq {user[t].intensity, bot[t].intensity}
      /\ \A x \in S : x \in 1..5
  BY <1>1 DEF Liked
<1>3. \A e \in {user[t], bot[t]} : e.status = "like" => e.intensity \in S
  BY DEF Liked
<1> HIDE DEF S
<1>4. Min(S) \in S /\ \A x \in S : Min(S) <= x
  BY <1>1, <1>2, LeastOfTwo
<1>5. Cap(t) = IF Rhythm = "slow" THEN Smaller(Min(S), 2) ELSE Min(S)
  BY DEF Cap, SlowCap, S
<1>6. \A e \in {user[t], bot[t]} : e.status = "like" => e.intensity \in 1..5
  BY WishFacts
<1> QED BY <1>2, <1>3, <1>4, <1>5, <1>6 DEF Smaller

LEMMA LevelFacts ==
  ASSUME Inputs, NEW t \in Tags
  PROVE  /\ Level(t) \in 0..5
         /\ Level(t) > 0 => t \in Kept /\ t \in Welcome /\ Rhythm # "pause" /\ Level(t) = Cap(t)
<1>1. t \in Kept => t \in Positive
  BY DEF Kept
<1>2. t \in Kept => t \in Welcome /\ Rhythm # "pause" /\ Liked(t) # {}
  BY <1>1 DEF Positive, Welcome
<1> QED BY <1>2, CapFacts DEF Level

\* The inputs keep their types, and every level is one the schema knows.
THEOREM DecisionTypes == Spec => []TypeOK
<1>1. Inputs => TypeOK
  BY LevelFacts DEF Inputs, TypeOK
<1> QED BY <1>1, InputsInvariant, PTL

LEMMA LevelRespectsWishes ==
  ASSUME Inputs, NEW t \in Tags, Level(t) > 0
  PROVE  /\ {user[t].status, bot[t].status} \in {{"like"}, {"like", "neutral"}}
         /\ \A e \in {user[t], bot[t]} : e.status = "like" => Level(t) <= e.intensity
         /\ ~(relation.available /\ (relation.paused \/ relation.rhythm = "pause"))
         /\ relation.available /\ relation.rhythm = "slow" => Level(t) <= 2
<1>1. t \in Welcome /\ Rhythm # "pause" /\ Level(t) = Cap(t) /\ Liked(t) # {}
  BY LevelFacts DEF Welcome
<1>2. {user[t].status, bot[t].status} \in {{"like"}, {"like", "neutral"}}
  <2>1. \A e \in {user[t], bot[t]} : e.status \in {"like", "neutral"}
    <3> SUFFICES ASSUME NEW e \in {user[t], bot[t]} PROVE e.status \in {"like", "neutral"}
      OBVIOUS
    <3>1. e.status \in Statuses \cup {"unset"} /\ (e.status = "unset" <=> e = Unset)
      BY WishFacts
    <3>2. e # Unset /\ e.status \notin {"dislike", "forbidden"}
      BY <1>1 DEF Welcome, Avoided
    <3> QED BY <3>1, <3>2 DEF Statuses
  <2>2. \E e \in {user[t], bot[t]} : e.status = "like"
    BY <1>1 DEF Liked
  <2> QED BY <2>1, <2>2
<1>3. ~(relation.available /\ (relation.paused \/ relation.rhythm = "pause"))
  BY <1>1 DEF Rhythm
<1>4. relation.available /\ relation.rhythm = "slow" => Rhythm = "slow"
  BY <1>3 DEF Rhythm
<1> QED BY <1>1, <1>2, <1>3, <1>4, CapFacts

\* No invitation against a wish, a missing entry, a pause or a slowed relation, for
\* every number of tags and every configuration.
THEOREM WishesRespected == Spec => []NeverAgainstAWish
<1>1. Inputs => NeverAgainstAWish
  BY LevelRespectsWishes DEF NeverAgainstAWish
<1> QED BY <1>1, InputsInvariant, PTL

-----------------------------------------------------------------------------
(* A new obstacle on the tag z, and the room it frees.                     *)

\* What an edit that makes z avoided changes, and what it does not.
LEMMA NewObstacle ==
  ASSUME Inputs, [Next]_vars, user' # user \/ bot' # bot, NEW y \in Avoided' \ Avoided
  PROVE  \E z \in Tags :
           /\ relation' = relation /\ limits' = limits
           /\ \A t \in Tags \ {z} : user'[t] = user[t] /\ bot'[t] = bot[t]
           /\ z \in Avoided' /\ z \notin Avoided
<1>1. PICK z \in Tags : /\ relation' = relation /\ limits' = limits
                       /\ \A t \in Tags \ {z} : user'[t] = user[t] /\ bot'[t] = bot[t]
  BY DEF Next, SetUser, SetTemplate, SetRelation, SetLimits, vars, Inputs
<1>2. y = z
  BY <1>1 DEF Avoided
<1> QED BY <1>1, <1>2

LEMMA RoomOfOneTag ==
  ASSUME Inputs, NEW z \in Tags, relation' = relation, limits' = limits,
         \A t \in Tags \ {z} : user'[t] = user[t] /\ bot'[t] = bot[t],
         z \in Avoided', z \notin Avoided
  PROVE  /\ Avoided' = Avoided \cup {z} /\ Positive' = Positive \ {z}
         /\ Budget \in Nat /\ Budget' \in Nat
         /\ Budget' > 0 => Budget = Budget' + 1
<1>1. Avoided' = Avoided \cup {z}
  BY DEF Avoided
<1>2. Positive' = Positive \ {z}
  <2>1. \A t \in Tags \ {z} : t \in Welcome' <=> t \in Welcome
    BY <1>1 DEF Welcome, Liked
  <2>2. z \notin Welcome' /\ Welcome \subseteq Tags /\ Welcome' \subseteq Tags
    BY <1>1 DEF Welcome
  <2>3. Rhythm' = Rhythm
    BY DEF Rhythm
  <2> QED BY <2>1, <2>2, <2>3 DEF Positive
<1>3. IsFiniteSet(Avoided)
  BY TagAssumption, FS_Subset DEF Avoided
<1>4. Cardinality(Avoided') = Cardinality(Avoided) + 1 /\ Cardinality(Avoided) \in Nat
  BY <1>1, <1>3, FS_AddElement, FS_CardinalityType
<1>5. MaxItems \in Nat /\ MaxItems' = MaxItems
  BY LimitAssumption DEF Inputs, MaxItems, Larger, Smaller
<1> QED BY <1>1, <1>2, <1>4, <1>5 DEF Budget, Larger

LEMMA KeptBefore ==
  ASSUME Inputs, NEW z \in Tags, relation' = relation, limits' = limits,
         \A t \in Tags \ {z} : user'[t] = user[t] /\ bot'[t] = bot[t],
         z \in Avoided', z \notin Avoided, NEW t \in Kept'
  PROVE  t # z /\ t \in Kept
<1> DEFINE Ahead == {s \in Positive : Before(s, t)}
           AheadNow == {s \in Positive' : Before(s, t)'}
<1>1. /\ Positive' = Positive \ {z} /\ Budget \in Nat /\ Budget' \in Nat
      /\ Budget' > 0 => Budget = Budget' + 1
  BY RoomOfOneTag
<1>2. t \in Positive' /\ Cardinality(AheadNow) < Budget'
  BY DEF Kept, Place
<1>3. t # z /\ t \in Positive /\ t \in Tags /\ Positive \subseteq Tags
  BY <1>1, <1>2 DEF Positive, Welcome
<1>4. \A s \in Tags \ {z} : Cap(s)' = Cap(s)
  BY DEF Cap, Liked, Rhythm
<1>5. \A s \in Tags \ {z} : Before(s, t)' <=> Before(s, t)
  BY <1>3, <1>4 DEF Before
<1>6. Ahead \subseteq AheadNow \cup {z}
  BY <1>1, <1>3, <1>5
<1>7. IsFiniteSet(AheadNow)
  BY <1>1, <1>3, TagAssumption, FS_Subset
<1> HIDE DEF Ahead, AheadNow
<1>8. Cardinality(Ahead) <= Cardinality(AheadNow) + 1 /\ Cardinality(Ahead) \in Nat
      /\ Cardinality(AheadNow) \in Nat
  <2>1. /\ IsFiniteSet(AheadNow \cup {z}) /\ Cardinality(AheadNow) \in Nat
        /\ \/ Cardinality(AheadNow \cup {z}) = Cardinality(AheadNow)
           \/ Cardinality(AheadNow \cup {z}) = Cardinality(AheadNow) + 1
    BY <1>7, FS_AddElement, FS_CardinalityType
  <2>2. /\ IsFiniteSet(Ahead) /\ Cardinality(Ahead) \in Nat
        /\ Cardinality(Ahead) <= Cardinality(AheadNow \cup {z})
    BY <1>6, <2>1, FS_Subset, FS_CardinalityType
  <2> QED BY <2>1, <2>2
<1>9. Cardinality(Ahead) < Budget
  <2>1. ASSUME NEW a \in Nat, NEW n \in Nat, NEW b \in Nat, NEW m \in Nat,
               a <= n + 1, n < m, m > 0 => b = m + 1
        PROVE  a < b
    BY <2>1
  <2> QED BY <1>1, <1>2, <1>8, <2>1
<1> QED BY <1>3, <1>9 DEF Kept, Place, Ahead

\* Avoiding a tag never invites the turn further on any tag, for every number of
\* tags and whatever the budget is.
THEOREM ObstaclesTighten == Spec => AvoidingNeverLoosens
<1>1. ASSUME Inputs, [Next]_vars, user' # user \/ bot' # bot, Avoided' \ Avoided # {},
             NEW t \in Tags
      PROVE  Level(t)' <= Level(t)
  <2>1. PICK z \in Tags :
          /\ relation' = relation /\ limits' = limits
          /\ \A s \in Tags \ {z} : user'[s] = user[s] /\ bot'[s] = bot[s]
          /\ z \in Avoided' /\ z \notin Avoided
    BY <1>1, NewObstacle
  <2>2. Level(t) \in 0..5
    BY <1>1, LevelFacts
  <2>3. CASE t \in Kept'
    <3>1. t # z /\ t \in Kept
      BY <1>1, <2>1, <2>3, KeptBefore
    <3>2. Cap(t)' = Cap(t)
      BY <2>1, <3>1 DEF Cap, Liked, Rhythm
    <3> QED BY <2>2, <2>3, <3>1, <3>2 DEF Level
  <2>4. CASE t \notin Kept'
    BY <2>2, <2>4 DEF Level
  <2> QED BY <2>3, <2>4
<1>2. Inputs /\ [Next]_vars =>
        [(user' # user \/ bot' # bot) /\ Avoided' \ Avoided # {}
            => \A t \in Tags : Level(t)' <= Level(t)]_vars
  BY <1>1
<1> QED BY <1>2, InputsInvariant, PTL DEF Spec, AvoidingNeverLoosens

-----------------------------------------------------------------------------
(* What the text holds.                                                    *)

\* A finite set S, totally ordered: ahead gives for each member those ahead of it, and
\* q puts everyone at the number of those.
Ranks(S, ahead, q) ==
  /\ IsFiniteSet(S) /\ ahead \in [S -> SUBSET S]
  /\ \A a \in S : a \notin ahead[a]
  /\ \A a, b, c \in S : a \in ahead[b] /\ b \in ahead[c] => a \in ahead[c]
  /\ \A a, b \in S : a = b \/ a \in ahead[b] \/ b \in ahead[a]
  /\ q = [i \in 1..Cardinality(S) |-> q[i]]
  /\ \A i \in 1..Cardinality(S) :
       (\E t \in S : Cardinality(ahead[t]) = i - 1) => q[i] \in S /\ Cardinality(ahead[q[i]]) = i - 1

\* Everyone is there, and those ahead come first.
Sorts(S, ahead, q) ==
  /\ q \in [1..Cardinality(S) -> S]
  /\ \A t \in S : \E i \in 1..Cardinality(S) : q[i] = t
  /\ \A i, j \in 1..Cardinality(S) : i < j => q[i] \in ahead[q[j]]

LEMMA RanksSort ==
  ASSUME NEW S, NEW ahead, NEW q, Ranks(S, ahead, q)
  PROVE  Sorts(S, ahead, q)
<1> DEFINE place == [u \in S |-> Cardinality(ahead[u]) + 1]
<1>0. /\ IsFiniteSet(S) /\ ahead \in [S -> SUBSET S]
      /\ \A a \in S : a \notin ahead[a]
      /\ \A a, b, c \in S : a \in ahead[b] /\ b \in ahead[c] => a \in ahead[c]
      /\ \A a, b \in S : a = b \/ a \in ahead[b] \/ b \in ahead[a]
  BY DEF Ranks
<1>1. /\ \A u \in S : IsFiniteSet(ahead[u]) /\ Cardinality(ahead[u]) \in Nat
      /\ Cardinality(S) \in Nat
  <2>1. \A u \in S : ahead[u] \in SUBSET S
    BY <1>0
  <2> QED BY <1>0, <2>1, FS_Subset, FS_CardinalityType
<1>2. ASSUME NEW u \in S, NEW v \in S, u \in ahead[v]
      PROVE  Cardinality(ahead[u]) < Cardinality(ahead[v])
  <2>1. ahead[u] \in SUBSET ahead[v] /\ ahead[u] # ahead[v]
    BY <1>0, <1>2
  <2>2. /\ Cardinality(ahead[u]) <= Cardinality(ahead[v])
        /\ Cardinality(ahead[u]) # Cardinality(ahead[v])
    BY <1>1, <2>1, FS_Subset
  <2> QED BY <1>1, <2>2
<1>3. \A u \in S : Cardinality(ahead[u]) + 1 \in 1..Cardinality(S)
  <2> SUFFICES ASSUME NEW u \in S PROVE Cardinality(ahead[u]) + 1 \in 1..Cardinality(S)
    OBVIOUS
  <2>1. ahead[u] \in SUBSET S /\ ahead[u] # S
    BY <1>0
  <2>2. /\ Cardinality(ahead[u]) <= Cardinality(S)
        /\ Cardinality(ahead[u]) # Cardinality(S)
    BY <1>0, <2>1, FS_Subset
  <2> QED BY <1>1, <2>2
<1>4. ASSUME NEW u \in S, NEW v \in S, Cardinality(ahead[u]) = Cardinality(ahead[v])
      PROVE  u = v
  <2>1. u = v \/ u \in ahead[v] \/ v \in ahead[u]
    BY <1>0
  <2>2. ~ (u \in ahead[v]) /\ ~ (v \in ahead[u])
    BY <1>1, <1>2, <1>4
  <2> QED BY <2>1, <2>2
<1>5. \A i \in 1..Cardinality(S) : \E u \in S : Cardinality(ahead[u]) = i - 1
  <2>1. place \in Injection(S, 1..Cardinality(S))
    BY <1>1, <1>3, <1>4 DEF Injection, IsInjective
  <2>2. IsFiniteSet(1..Cardinality(S)) /\ Cardinality(1..Cardinality(S)) = Cardinality(S)
    BY <1>1, FS_Interval
  <2> HIDE DEF place
  <2>3. place \in Surjection(S, 1..Cardinality(S))
    BY <2>1, <2>2, FS_Injection
  <2>4. \A i \in 1..Cardinality(S) : \E u \in S : place[u] = i
    BY <2>3 DEF Surjection
  <2> QED BY <1>1, <2>4 DEF place
<1>6. \A i \in 1..Cardinality(S) : q[i] \in S /\ Cardinality(ahead[q[i]]) = i - 1
  BY <1>5 DEF Ranks
<1>7. q \in [1..Cardinality(S) -> S]
  BY <1>6 DEF Ranks
<1>8. \A t \in S : \E i \in 1..Cardinality(S) : q[i] = t
  <2> SUFFICES ASSUME NEW t \in S PROVE \E i \in 1..Cardinality(S) : q[i] = t
    OBVIOUS
  <2>1. PICK i \in 1..Cardinality(S) : i = Cardinality(ahead[t]) + 1
    BY <1>3
  <2>2. q[i] \in S /\ Cardinality(ahead[q[i]]) = Cardinality(ahead[t])
    <3>1. \A n \in Nat : i = n + 1 => i - 1 = n
      OBVIOUS
    <3> QED BY <1>1, <1>6, <2>1, <3>1
  <2> QED BY <1>4, <2>2
<1>9. ASSUME NEW i \in 1..Cardinality(S), NEW j \in 1..Cardinality(S), i < j
      PROVE  q[i] \in ahead[q[j]]
  <2>1. /\ q[i] \in S /\ Cardinality(ahead[q[i]]) = i - 1
        /\ q[j] \in S /\ Cardinality(ahead[q[j]]) = j - 1
    BY <1>6
  <2>2. i \in Int /\ j \in Int
    BY <1>1
  <2>3. ~ (Cardinality(ahead[q[j]]) < Cardinality(ahead[q[i]])) /\ q[i] # q[j]
    BY <1>9, <2>1, <2>2
  <2> QED BY <1>0, <1>2, <2>1, <2>3
<1> QED BY <1>7, <1>8, <1>9 DEF Sorts

\* Sorted sorts the avoidances: none is lost, and those ahead come first.
LEMMA AvoidedSorted ==
  ASSUME Inputs
  PROVE  LET q == Sorted(Avoided, Paired)
         IN  /\ q \in [1..Cardinality(Avoided) -> Avoided]
             /\ \A t \in Avoided : \E i \in 1..Cardinality(Avoided) : q[i] = t
             /\ \A i, j \in 1..Cardinality(Avoided) : i < j => Paired(q[i], q[j])
<1> DEFINE ahead == [u \in Avoided |-> {s \in Avoided : Paired(s, u)}]
           q == Sorted(Avoided, Paired)
<1>1. IsFiniteSet(Avoided) /\ \A a \in Avoided : a \in Nat
  BY TagAssumption, FS_Subset DEF Avoided
<1>2. \A a \in Avoided : ~ Paired(a, a)
  BY <1>1 DEF Paired
<1>3. \A a, b, c \in Avoided : Paired(a, b) /\ Paired(b, c) => Paired(a, c)
  BY <1>1 DEF Paired
<1>4. \A a, b \in Avoided : a = b \/ Paired(a, b) \/ Paired(b, a)
  BY <1>1 DEF Paired
<1>5. \A u \in Avoided : Place(u, Avoided, Paired) = Cardinality(ahead[u])
  BY DEF Place
<1>6. /\ ahead \in [Avoided -> SUBSET Avoided]
      /\ \A a, b \in Avoided : a \in ahead[b] <=> Paired(a, b)
  OBVIOUS
<1>7. /\ q = [i \in 1..Cardinality(Avoided) |-> q[i]]
      /\ \A i \in 1..Cardinality(Avoided) :
           (\E t \in Avoided : Cardinality(ahead[t]) = i - 1)
             => q[i] \in Avoided /\ Cardinality(ahead[q[i]]) = i - 1
  <2> HIDE DEF ahead
  <2> QED BY <1>5 DEF Sorted
<1> HIDE DEF ahead, q
<1>8. Sorts(Avoided, ahead, q)
  <2>1. Ranks(Avoided, ahead, q)
    BY <1>1, <1>2, <1>3, <1>4, <1>6, <1>7 DEF Ranks
  <2> QED BY <2>1, RanksSort
<1>9. \A i, j \in 1..Cardinality(Avoided) : i < j => Paired(q[i], q[j])
  BY <1>6, <1>8 DEF Sorts
<1> QED BY <1>8, <1>9 DEF q, Sorts

\* Sorted sorts the positives, the furthest first.
LEMMA KeptSorted ==
  ASSUME Inputs
  PROVE  LET q == Sorted(Kept, Before)
         IN  /\ q \in [1..Cardinality(Kept) -> Kept]
             /\ \A t \in Kept : \E i \in 1..Cardinality(Kept) : q[i] = t
             /\ \A i, j \in 1..Cardinality(Kept) : i < j => Before(q[i], q[j])
<1> DEFINE ahead == [u \in Kept |-> {s \in Kept : Before(s, u)}]
           q == Sorted(Kept, Before)
<1>0. \A a \in Kept : a \in Tags /\ Cap(a) \in Nat
  <2>1. \A a \in Kept : a \in Tags /\ Liked(a) # {}
    BY DEF Kept, Positive, Welcome
  <2> QED BY <2>1, CapFacts
<1>1. IsFiniteSet(Kept) /\ \A a \in Kept : a \in Nat
  BY <1>0, TagAssumption, FS_Subset
<1>2. \A a \in Kept : ~ Before(a, a)
  BY <1>0, <1>1 DEF Before
<1>3. \A a, b, c \in Kept : Before(a, b) /\ Before(b, c) => Before(a, c)
  BY <1>0, <1>1 DEF Before
<1>4. \A a, b \in Kept : a = b \/ Before(a, b) \/ Before(b, a)
  BY <1>0, <1>1 DEF Before
<1>5. \A u \in Kept : Place(u, Kept, Before) = Cardinality(ahead[u])
  BY DEF Place
<1>6. /\ ahead \in [Kept -> SUBSET Kept]
      /\ \A a, b \in Kept : a \in ahead[b] <=> Before(a, b)
  OBVIOUS
<1>7. /\ q = [i \in 1..Cardinality(Kept) |-> q[i]]
      /\ \A i \in 1..Cardinality(Kept) :
           (\E t \in Kept : Cardinality(ahead[t]) = i - 1)
             => q[i] \in Kept /\ Cardinality(ahead[q[i]]) = i - 1
  <2> HIDE DEF ahead
  <2> QED BY <1>5 DEF Sorted
<1> HIDE DEF ahead, q
<1>8. Sorts(Kept, ahead, q)
  <2>1. Ranks(Kept, ahead, q)
    BY <1>1, <1>2, <1>3, <1>4, <1>6, <1>7 DEF Ranks
  <2> QED BY <2>1, RanksSort
<1>9. \A i, j \in 1..Cardinality(Kept) : i < j => Before(q[i], q[j])
  BY <1>6, <1>8 DEF Sorts
<1> QED BY <1>8, <1>9 DEF q, Sorts

\* Where anything is invited, what is told stays within the configured number of items,
\* for every number of tags: the last of the kept ones has all others before it.
THEOREM InvitationsFit == Spec => []InvitationsWithinLimit
<1>1. Inputs => InvitationsWithinLimit
  <2> SUFFICES ASSUME Inputs, Kept # {}
               PROVE  Cardinality(Avoided) + Cardinality(Kept) <= MaxItems
    BY DEF InvitationsWithinLimit
  <2> DEFINE c == Cardinality(Kept)
             q == Sorted(Kept, Before)
             ahead == {s \in Positive : Before(s, q[c])}
  <2>1. /\ Kept \in SUBSET Positive /\ Positive \in SUBSET Tags /\ Avoided \in SUBSET Tags
        /\ \A t \in Kept : Place(t, Positive, Before) < Budget
    BY DEF Kept, Positive, Welcome, Avoided
  <2>2. /\ IsFiniteSet(Kept) /\ IsFiniteSet(Positive) /\ IsFiniteSet(Avoided)
        /\ c \in Nat /\ Cardinality(Avoided) \in Nat /\ c # 0
    BY <2>1, TagAssumption, FS_Subset, FS_CardinalityType, FS_EmptySet
  <2>3. /\ q \in [1..c -> Kept]
        /\ \A t \in Kept : \E i \in 1..c : q[i] = t
        /\ \A i, j \in 1..c : i < j => Before(q[i], q[j])
    BY KeptSorted
  <2>4. c \in 1..c
    BY <2>2
  <2>5. Place(q[c], Positive, Before) = Cardinality(ahead)
    BY DEF Place
  <2>6. Cardinality(ahead) < Budget
    BY <2>1, <2>3, <2>4, <2>5
  <2> HIDE DEF q
  <2>7. Kept \ {q[c]} \subseteq ahead
    <3> SUFFICES ASSUME NEW t \in Kept, t # q[c] PROVE t \in ahead
      OBVIOUS
    <3>1. PICK i \in 1..c : q[i] = t
      BY <2>3
    <3>2. i < c
      BY <2>2, <3>1
    <3> QED BY <2>1, <2>3, <2>4, <3>1, <3>2
  <2>8. IsFiniteSet(ahead)
    BY <2>2, FS_Subset
  <2> HIDE DEF ahead
  <2>9. Cardinality(Kept \ {q[c]}) = c - 1
    BY <2>2, <2>3, <2>4, FS_RemoveElement
  <2>10. Cardinality(Kept \ {q[c]}) <= Cardinality(ahead) /\ Cardinality(ahead) \in Nat
    BY <2>7, <2>8, FS_Subset, FS_CardinalityType
  <2>11. MaxItems \in Int
    BY LimitAssumption DEF Inputs, MaxItems, Larger, Smaller
  <2> HIDE DEF c
  <2>12. Budget = Larger(0, MaxItems - Cardinality(Avoided))
    BY DEF Budget
  <2> QED BY <2>2, <2>6, <2>9, <2>10, <2>11, <2>12 DEF Larger, c
<1> QED BY <1>1, InputsInvariant, PTL

\* The restrictions stand in front: the note first, then every avoidance.
LEMMA LinesFacts ==
  ASSUME Inputs
  PROVE  /\ Lines \in Seq(Line)
         /\ \E m \in 0..Len(Lines) :
              /\ \A i \in 1..m : Lines[i].kind # "positive"
              /\ \A t \in Avoided : \E i \in 1..m : Lines[i].kind = "avoid" /\ Lines[i].tag = t
              /\ Rhythm # "normal" =>
                   \E i \in 1..m : Lines[i].kind = "note" /\ Lines[i].tag = 0
<1> DEFINE avoid == Map(AvoidLine, Sorted(Avoided, Paired))
           positive == Map(PositiveLine, Sorted(Kept, Before))
           b == Cardinality(Avoided)
           c == Cardinality(Kept)
<1>1. /\ Avoided \subseteq Tags /\ b \in Nat
      /\ Kept \subseteq Tags /\ c \in Nat
  <2>1. Avoided \in SUBSET Tags /\ Kept \in SUBSET Tags
    BY DEF Avoided, Kept, Positive, Welcome
  <2> QED BY <2>1, TagAssumption, FS_Subset, FS_CardinalityType
<1>2. \A t \in Tags : AvoidLine(t) \in Line /\ PositiveLine(t) \in Line
  <2> SUFFICES ASSUME NEW t \in Tags PROVE AvoidLine(t) \in Line /\ PositiveLine(t) \in Line
    OBVIOUS
  <2>1. t \in Nat /\ AvoidLen[t] \in Nat /\ PositiveLen[t] + WordLen(Cap(t)) \in Nat
    BY TagAssumption, LengthAssumption DEF WordLen
  <2> QED BY <2>1 DEF AvoidLine, PositiveLine, Line
<1>3. /\ Note \in Seq(Line) /\ \A i \in 1..Len(Note) : Note[i].kind = "note" /\ Note[i].tag = 0
      /\ Rhythm # "normal" => Len(Note) >= 1
  <2>1. Rhythm \in {"normal", "slow", "pause"}
    <3>1. \/ relation = Unavailable
          \/ relation.paused = FALSE /\ relation.rhythm \in {"normal", "slow", "pause"}
          \/ relation.paused = TRUE
      <4>1. \/ relation = Unavailable
            \/ relation \in [available : {TRUE}, paused : {FALSE}, rhythm : {"normal", "slow", "pause"}]
            \/ relation = [available |-> TRUE, paused |-> TRUE, rhythm |-> "pause"]
        BY DEF Inputs, Relations
      <4>2. ASSUME NEW r \in [available : {TRUE}, paused : {FALSE}, rhythm : {"normal", "slow", "pause"}]
            PROVE  r.paused = FALSE /\ r.rhythm \in {"normal", "slow", "pause"}
        OBVIOUS
      <4>3. [available |-> TRUE, paused |-> TRUE, rhythm |-> "pause"].paused = TRUE
        OBVIOUS
      <4> QED BY <4>1, <4>2, <4>3
    <3>2. CASE relation = Unavailable
      BY <3>2 DEF Unavailable, Rhythm
    <3>3. CASE relation.paused = FALSE /\ relation.rhythm \in {"normal", "slow", "pause"}
      BY <3>3 DEF Rhythm
    <3>4. CASE relation.paused = TRUE
      BY <3>4 DEF Rhythm
    <3> QED BY <3>1, <3>2, <3>3, <3>4
  <2>2. \A n \in Nat : LET s == <<[kind |-> "note", tag |-> 0, len |-> n]>>
                      IN  s \in Seq(Line) /\ Len(s) = 1
                          /\ \A i \in 1..1 : s[i].kind = "note" /\ s[i].tag = 0
    BY DEF Line
  <2>3. <<>> \in Seq(Line) /\ Len(<<>>) = 0
    OBVIOUS
  <2>4. PauseLen \in Nat /\ SlowLen \in Nat
    BY LengthAssumption
  <2> QED BY <2>1, <2>2, <2>3, <2>4 DEF Note
<1>4. /\ avoid \in Seq(Line) /\ Len(avoid) = b /\ \A i \in 1..b : avoid[i].kind = "avoid"
      /\ \A t \in Avoided : \E i \in 1..b : avoid[i].tag = t
  <2> DEFINE q == Sorted(Avoided, Paired)
  <2>1. q \in [1..b -> Avoided] /\ \A t \in Avoided : \E i \in 1..b : q[i] = t
    BY AvoidedSorted
  <2> HIDE DEF q
  <2>2. avoid = [i \in 1..b |-> AvoidLine(q[i])]
    BY <2>1 DEF Map, q
  <2>3. \A i \in 1..b : q[i] \in Tags /\ AvoidLine(q[i]) \in Line
    BY <1>1, <1>2, <2>1
  <2>4. \A t : AvoidLine(t).kind = "avoid" /\ AvoidLine(t).tag = t
    BY DEF AvoidLine
  <2> HIDE DEF avoid, b
  <2>5. avoid \in Seq(Line) /\ Len(avoid) = b
    BY <1>1, <2>2, <2>3
  <2> QED BY <2>1, <2>2, <2>4, <2>5
<1>5. positive \in Seq(Line)
  <2> DEFINE q == Sorted(Kept, Before)
  <2>1. q \in [1..c -> Kept]
    BY KeptSorted
  <2> HIDE DEF q
  <2>2. positive = [i \in 1..c |-> PositiveLine(q[i])]
    BY <2>1 DEF Map, q
  <2>3. \A i \in 1..c : PositiveLine(q[i]) \in Line
    BY <1>1, <1>2, <2>1
  <2> HIDE DEF positive, c
  <2> QED BY <1>1, <2>2, <2>3
<1> DEFINE m == Len(Note) + b
<1>8. Lines = Note \o avoid \o positive
  BY DEF Lines
<1> HIDE DEF avoid, positive, b
<1>6. \A line \in Line : line.kind \in {"note", "avoid", "positive"}
  BY DEF Line
<1>9. /\ Lines \in Seq(Line) /\ m \in 0..Len(Lines)
      /\ \A i \in 1..Len(Note) : i \in 1..m /\ Lines[i] = Note[i]
      /\ \A i \in 1..b : Len(Note) + i \in 1..m /\ Lines[Len(Note) + i] = avoid[i]
      /\ \A i \in 1..m : Lines[i].kind # "positive"
  <2> DEFINE both == Note \o avoid
  <2>1. both \in Seq(Line) /\ Len(both) = m /\ m \in Nat
        /\ \A i \in 1..m : both[i] = IF i <= Len(Note) THEN Note[i] ELSE avoid[i - Len(Note)]
    BY <1>1, <1>3, <1>4
  <2>2. \A i \in 1..m : both[i].kind # "positive"
    BY <1>1, <1>3, <1>4, <2>1
  <2>3. Len(Note) \in Nat /\ b \in Nat
    BY <1>1, <1>3
  <2> HIDE DEF both
  <2>4. Lines \in Seq(Line) /\ m \in 0..Len(Lines) /\ \A i \in 1..m : Lines[i] = both[i]
    BY <1>5, <1>8, <2>1 DEF both
  <2>5. \A i \in 1..Len(Note) : i \in 1..m /\ Lines[i] = Note[i]
    BY <2>1, <2>3, <2>4
  <2>6. \A i \in 1..b : Len(Note) + i \in 1..m /\ Lines[Len(Note) + i] = avoid[i]
    BY <2>1, <2>3, <2>4
  <2> QED BY <2>2, <2>4, <2>5, <2>6
<1>10. \A t \in Avoided : \E i \in 1..m : Lines[i].kind = "avoid" /\ Lines[i].tag = t
  <2> SUFFICES ASSUME NEW t \in Avoided
               PROVE  \E i \in 1..m : Lines[i].kind = "avoid" /\ Lines[i].tag = t
    OBVIOUS
  <2>1. PICK i \in 1..b : avoid[i].tag = t /\ avoid[i].kind = "avoid"
    BY <1>4
  <2> HIDE DEF m
  <2> QED BY <1>9, <2>1
<1>11. Rhythm # "normal" => \E i \in 1..m : Lines[i].kind = "note" /\ Lines[i].tag = 0
  <2> SUFFICES ASSUME Rhythm # "normal"
               PROVE  \E i \in 1..m : Lines[i].kind = "note" /\ Lines[i].tag = 0
    OBVIOUS
  <2>1. 1 \in 1..Len(Note)
    BY <1>3
  <2> QED BY <1>3, <1>9, <2>1
<1> HIDE DEF m
<1> QED BY <1>9, <1>10, <1>11

\* The text is empty or a beginning of the lines that fits beside the token.
LEMMA TextIsPrefix ==
  ASSUME Inputs, Text # <<>>
  PROVE  \E n \in 1..Len(Lines) : Text = SubSeq(Lines, 1, n) /\ Size(Text) <= Room
<1> DEFINE fitting == {n \in 1..Len(Lines) : Size(SubSeq(Lines, 1, n)) <= Room}
<1>1. fitting # {} /\ Text = SubSeq(Lines, 1, Max(fitting))
  BY DEF Text
<1>2. Len(Lines) \in Nat
  BY LinesFacts
<1>3. Max(fitting) \in fitting
  <2>1. fitting \in SUBSET (1..Len(Lines))
    OBVIOUS
  <2> HIDE DEF fitting
  <2> QED BY <1>1, <1>2, <2>1, GreatestMember
<1> QED BY <1>1, <1>3

\* Whatever is configured, what a turn adds to the request fits in the configured
\* number of characters.
THEOREM TextFits == Spec => []TextWithinLimit
<1>1. ASSUME Inputs PROVE TextWithinLimit
  <2>1. Room \in Int /\ TokenLen \in Int /\ MaxChars \in Nat /\ Room = MaxChars - TokenLen
    <3>1. limits.chars \in Int
      BY <1>1, LimitAssumption DEF Inputs
    <3> QED BY <3>1, LengthAssumption DEF Room, MaxChars, Larger, Smaller
  <2>2. CASE Text = <<>>
    BY <2>1, <2>2 DEF TextWithinLimit, Added
  <2>3. CASE Text # <<>>
    <3>1. PICK n \in 1..Len(Lines) : Text = SubSeq(Lines, 1, n) /\ Size(Text) <= Room
      BY <1>1, <2>3, TextIsPrefix
    <3>2. Lines \in Seq(Line)
      BY <1>1, LinesFacts
    <3>3. Text \in Seq(Line)
      BY <3>1, <3>2
    <3>4. Size(Text) \in Int
      BY <3>3, SizeType
    <3>5. Added = Size(Text) + TokenLen
      BY <2>3 DEF Added
    <3> QED BY <2>1, <3>1, <3>4, <3>5 DEF TextWithinLimit
  <2> QED BY <2>2, <2>3
<1> QED BY <1>1, InputsInvariant, PTL

\* However short the text is cut, no invitation is left in it without every avoidance
\* and the note, for every number of tags and every length of the texts.
THEOREM RestrictionsStay == Spec => []RestrictionsFirst
<1>1. ASSUME Inputs PROVE RestrictionsFirst
  <2> DEFINE shown == {<<Text[i].kind, Text[i].tag>> : i \in DOMAIN Text}
  <2> SUFFICES ASSUME NEW p \in Tags, <<"positive", p>> \in shown
               PROVE  /\ \A t \in Avoided : <<"avoid", t>> \in shown
                      /\ Rhythm # "normal" => <<"note", 0>> \in shown
    BY DEF RestrictionsFirst
  <2>1. PICK i \in DOMAIN Text : Text[i].kind = "positive"
    OBVIOUS
  <2>2. Text # <<>>
    BY <2>1
  <2>3. PICK n \in 1..Len(Lines) : Text = SubSeq(Lines, 1, n)
    BY <1>1, <2>2, TextIsPrefix
  <2>4. Lines \in Seq(Line)
    BY <1>1, LinesFacts
  <2>5. DOMAIN Text = 1..n /\ \A k \in 1..n : Text[k] = Lines[k]
    BY <2>3, <2>4
  <2>6. PICK m \in 0..Len(Lines) :
          /\ \A k \in 1..m : Lines[k].kind # "positive"
          /\ \A t \in Avoided : \E k \in 1..m : Lines[k].kind = "avoid" /\ Lines[k].tag = t
          /\ Rhythm # "normal" => \E k \in 1..m : Lines[k].kind = "note" /\ Lines[k].tag = 0
    BY <1>1, LinesFacts
  <2>7. i \in 1..n /\ i \notin 1..m
    BY <2>1, <2>5, <2>6
  <2>8. \A k \in 1..m : k \in 1..n
    BY <2>4, <2>7
  <2>9. \A k \in 1..m : <<Lines[k].kind, Lines[k].tag>> \in shown
    BY <2>5, <2>8
  <2> HIDE DEF shown
  <2> QED BY <2>6, <2>9
<1> QED BY <1>1, InputsInvariant, PTL
=============================================================================
