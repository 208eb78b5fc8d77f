-------------------------------- MODULE Policy --------------------------------
(***************************************************************************)
(* What one turn is told: evaluate of pref_profile/policy.py over the      *)
(* entries of the user and of the persona's template, render_decision of   *)
(* prompt_builder.py, and the limits injection.py reads from the           *)
(* configuration.  A decision is a function of the state; the actions are  *)
(* the edits between two turns.  Tags are numbered in the order of their   *)
(* names, which is also that of their ids here.                            *)
(***************************************************************************)
EXTENDS Integers, FiniteSets, SequencesExt

CONSTANTS
  Tags,          \* tags in use, numbers
  UserStatuses,  \* statuses each side uses
  BotStatuses,
  Intensities,
  Limits,        \* configurations [items, chars], as they are typed in
  HeaderLen, PauseLen, SlowLen, TokenLen,  \* lengths of the fixed texts
  AvoidLen,      \* lengths of the rendered items: that of a tag's avoidance,
  PositiveLen    \* and that of its invitation but for the word of its level

Statuses == {"like", "neutral", "dislike", "forbidden"}

ASSUME TagAssumption == Tags \subseteq Nat /\ IsFiniteSet(Tags)
ASSUME WishAssumption ==
  UserStatuses \cup BotStatuses \subseteq Statuses /\ Intensities \subseteq 1..5
ASSUME LimitAssumption == Limits \subseteq [items : Int, chars : Int]
ASSUME LengthAssumption ==
  /\ {HeaderLen, PauseLen, SlowLen, TokenLen} \subseteq Nat
  /\ AvoidLen \in [Tags -> Nat] /\ PositiveLen \in [Tags -> Nat]

VARIABLES
  user, bot,  \* the entries of both sides
  relation,   \* the relation snapshot
  limits      \* max_inject_items and max_inject_chars

vars == <<user, bot, relation, limits>>

-----------------------------------------------------------------------------
(* Inputs.                                                                 *)

\* "unset" is having no entry; the intensity is used of an entry that likes.
Unset == [status |-> "unset", intensity |-> 0]
Wishes(statuses) ==
  {Unset} \cup [status : statuses \cap {"like"}, intensity : Intensities]
          \cup [status : statuses \ {"like"}, intensity : {0}]

Unavailable == [available |-> FALSE, paused |-> FALSE, rhythm |-> "normal"]
\* The reader gives a paused account the rhythm of a pause.
Relations ==
  {Unavailable} \cup [available : {TRUE}, paused : {FALSE}, rhythm : {"normal", "slow", "pause"}]
                \cup {[available |-> TRUE, paused |-> TRUE, rhythm |-> "pause"]}

Larger(a, b) == IF a >= b THEN a ELSE b
Smaller(a, b) == IF a <= b THEN a ELSE b

\* The limits a turn works with.
MaxItems == Smaller(Larger(1, limits.items), 10)
MaxChars == Smaller(Larger(100, limits.chars), 2000)

Rhythm ==
  IF ~relation.available THEN "normal"
  ELSE IF relation.paused THEN "pause"
  ELSE relation.rhythm

-----------------------------------------------------------------------------
(* The decision.                                                           *)

\* As Avoided would be if a dislike were no obstacle.
ForbiddenOnly == {t \in Tags : "forbidden" \in {user[t].status, bot[t].status}}

Avoided == {t \in Tags : {user[t].status, bot[t].status} \cap {"dislike", "forbidden"} # {}}

Liked(t) == {e \in {user[t], bot[t]} : e.status = "like"}

\* Both sides have an entry, none avoids, one likes.
Welcome == {t \in Tags \ Avoided : Unset \notin {user[t], bot[t]} /\ Liked(t) # {}}

SlowCap == 2
Cap(t) ==
  LET least == Min({e.intensity : e \in Liked(t)})
  IN IF Rhythm = "slow" THEN Smaller(least, SlowCap) ELSE least

Positive == IF Rhythm = "pause" THEN {} ELSE Welcome

\* Where t comes in S sorted by before, from 0, and S sorted.  SetToSortSeq gives the
\* same, by SortSeq of TLC, which has no definition to prove about.
Place(t, S, before(_, _)) == Cardinality({s \in S : before(s, t)})
Sorted(S, before(_, _)) ==
  [i \in 1..Cardinality(S) |-> CHOOSE t \in S : Place(t, S, before) = i - 1]

\* As Budget would be if avoidances were not counted in.
BudgetOfPositives == MaxItems

\* The sort of the positives, and what is left of the budget for them.
Before(s, t) == Cap(s) > Cap(t) \/ (Cap(s) = Cap(t) /\ s < t)
Budget == Larger(0, MaxItems - Cardinality(Avoided))
Kept ==
  LET positive == Positive
      budget == Budget
  IN {t \in positive : Place(t, positive, Before) < budget}

\* How far the turn is invited to go on a tag.
Level(t) == IF t \in Kept THEN Cap(t) ELSE 0

\* _pair_by_tag: the user's entries first, then what only the template has.
Paired(s, t) ==
  LET botOnly(x) == user[x] = Unset
  IN (~botOnly(s) /\ botOnly(t)) \/ ((botOnly(s) <=> botOnly(t)) /\ s < t)

-----------------------------------------------------------------------------
(* The text.                                                               *)

Note == IF Rhythm = "pause" THEN <<[kind |-> "note", tag |-> 0, len |-> PauseLen]>>
        ELSE IF Rhythm = "slow" THEN <<[kind |-> "note", tag |-> 0, len |-> SlowLen]>>
        ELSE <<>>

\* The word of level 2 has one character, the others two.
WordLen(n) == IF n = 2 THEN 1 ELSE 2
AvoidLine(t) == [kind |-> "avoid", tag |-> t, len |-> AvoidLen[t]]
PositiveLine(t) == [kind |-> "positive", tag |-> t, len |-> PositiveLen[t] + WordLen(Cap(t))]
Map(f(_), s) == [i \in DOMAIN s |-> f(s[i])]

\* As Lines would be if the invitations came first.
LinesInviting ==
  Map(PositiveLine, Sorted(Kept, Before))
    \o Note \o Map(AvoidLine, Sorted(Avoided, Paired))

Lines ==
  Note \o Map(AvoidLine, Sorted(Avoided, Paired))
       \o Map(PositiveLine, Sorted(Kept, Before))

\* The header, and each line with its line break.
Size(lines) == FoldLeft(LAMBDA n, line : n + 1 + line.len, HeaderLen, lines)

\* As Room would be if the token were not counted in.
RoomOfText == MaxChars

\* Lines are dropped from the end until the rest fits beside the token; a header
\* alone is not injected, and nothing is when neither side has an entry.
Room == MaxChars - TokenLen
Text ==
  LET lines == Lines
      fitting == {n \in 1..Len(lines) : Size(SubSeq(lines, 1, n)) <= Room}
  IN IF fitting = {} \/ \A t \in Tags : {user[t], bot[t]} = {Unset}
     THEN <<>> ELSE SubSeq(lines, 1, Max(fitting))

\* Characters the turn adds to the request.
Added == LET text == Text IN IF text = <<>> THEN 0 ELSE Size(text) + TokenLen

-----------------------------------------------------------------------------
(* Edits.                                                                  *)

Init ==
  /\ user = [t \in Tags |-> Unset]
  /\ bot = [t \in Tags |-> Unset]
  /\ relation = Unavailable
  /\ limits \in Limits

SetUser(t, e) ==
  /\ user[t] # e
  /\ user' = [user EXCEPT ![t] = e]
  /\ UNCHANGED <<bot, relation, limits>>

\* As SetTemplate would be if it wrote to the wrong owner.
SetTemplateOfUser(t, e) ==
  /\ user[t] # e
  /\ user' = [user EXCEPT ![t] = e]
  /\ UNCHANGED <<bot, relation, limits>>

SetTemplate(t, e) ==
  /\ bot[t] # e
  /\ bot' = [bot EXCEPT ![t] = e]
  /\ UNCHANGED <<user, relation, limits>>

SetRelation(r) ==
  /\ relation # r
  /\ relation' = r
  /\ UNCHANGED <<user, bot, limits>>

SetLimits(l) ==
  /\ limits # l
  /\ limits' = l
  /\ UNCHANGED <<user, bot, relation>>

Next ==
  \/ \E t \in Tags : \E e \in Wishes(UserStatuses) : SetUser(t, e)
  \/ \E t \in Tags : \E e \in Wishes(BotStatuses) : SetTemplate(t, e)
  \/ \E r \in Relations : SetRelation(r)
  \/ \E l \in Limits : SetLimits(l)

Spec == Init /\ [][Next]_vars

-----------------------------------------------------------------------------
(* Properties.                                                             *)

\* Types of the variables, and of what is computed from them.
TypeOK ==
  /\ user \in [Tags -> Wishes(UserStatuses)]
  /\ bot \in [Tags -> Wishes(BotStatuses)]
  /\ relation \in Relations
  /\ limits \in Limits
  /\ \A t \in Tags : Level(t) \in 0..5

\* The turn is never invited to what one side avoids or only one side has an entry
\* of, nor further than every side that likes it goes; while the relation is slowed
\* down no further than "light", and nowhere while it is paused (policy.py evaluate).
NeverAgainstAWish ==
  \A t \in Tags : Level(t) > 0 =>
    /\ {user[t].status, bot[t].status} \in {{"like"}, {"like", "neutral"}}
    /\ \A e \in {user[t], bot[t]} : e.status = "like" => Level(t) <= e.intensity
    /\ ~(relation.available /\ (relation.paused \/ relation.rhythm = "pause"))
    /\ relation.available /\ relation.rhythm = "slow" => Level(t) <= 2

\* However short the text is cut, an invitation is in it only together with every
\* avoidance and the note on the relation (policy.py:176, prompt_builder.py:51).
RestrictionsFirst ==
  LET text == Text
      shown == {<<text[i].kind, text[i].tag>> : i \in DOMAIN text}
  IN (\E t \in Tags : <<"positive", t>> \in shown) =>
       /\ \A t \in Avoided : <<"avoid", t>> \in shown
       /\ Rhythm # "normal" => <<"note", 0>> \in shown

\* Header, items, line breaks and token together stay within max_inject_chars as
\* clamped, whatever is configured (injection.py:594).
TextWithinLimit == Added <= MaxChars

\* Forbidding or disliking a tag invites the turn no further on any tag: the slot
\* it frees in the budget is taken by the avoidance (policy.py:176-180).
AvoidingNeverLoosens ==
  [][(user' # user \/ bot' # bot) /\ Avoided' \ Avoided # {}
        => \A t \in Tags : Level(t)' <= Level(t)]_vars

\* Where anything is invited, avoidances and invitations together stay within the
\* budget: only a turn without invitations can exceed it (policy.py:176-180).
InvitationsWithinLimit ==
  Kept # {} => Cardinality(Avoided) + Cardinality(Kept) <= MaxItems

\* A turn has at most max_inject_items items: policy.py:111 counts avoidances in,
\* and _conf_schema.json:14 calls it the upper bound of the items of a turn.
ItemsWithinLimit == Cardinality(Avoided) + Cardinality(Kept) <= MaxItems
=============================================================================
