---------------------------- MODULE CommandsProofs ----------------------------
(***************************************************************************)
(* The properties of Commands for every number of users, personas, tags,   *)
(* codes and seconds.  Only the cap's count and the order of requests need *)
(* an invariant of more than types: stored sets are finite, and a code     *)
(* that is pending is the last one its sender was shown.                   *)
(***************************************************************************)
EXTENDS Commands, FiniteSetTheorems, TLAPS

FiniteEntries == \A i \in Owners : IsFiniteSet(entries[i])
PendingWasShown == \A i \in Identities : pending[i] # NoToken => pending[i] = asked[i]

IInv == TypeOK /\ FiniteEntries /\ CustomCap /\ PendingWasShown

-----------------------------------------------------------------------------
(* Names.                                                                  *)

\* A template is nobody's profile.
LEMMA TemplateOwner ==
  ASSUME NEW i \in Identities
  PROVE  /\ i \in Owners
         /\ Template(i) \in Owners /\ Template(i) \notin Identities
  BY NameAssumption DEF Identities, Owners, Template

LEMMA TokenTypes ==
  /\ NoToken \in TokenType
  /\ now \in 0..MaxTime => \A code \in Codes : [code |-> code, exp |-> now + TTL] \in TokenType
  BY NameAssumption, BoundAssumption DEF NoToken, TokenType

LEMMA TagIdTypes ==
  ASSUME NEW tag \in Tags
  PROVE  TagId(tag) \in TagIds
  BY DEF TagIds

\* A custom tag counts for the cap, a built-in one does not.
LEMMA CountedTags ==
  ASSUME NEW tag \in Tags, NEW ids
  PROVE  /\ tag \in Custom => Customs(ids \cup {TagId(tag)}) = Customs(ids) \cup {TagId(tag)}
         /\ tag \notin Custom => Customs(ids \cup {TagId(tag)}) = Customs(ids)
         /\ TagId(tag) \in ids => Customs(ids \cup {TagId(tag)}) = Customs(ids)
  BY DEF Customs, TagId

-----------------------------------------------------------------------------
(* What a body does to the entries.                                        *)

\* An action that writes one entry of o, takes some away, or leaves them.
Adds(o, tag) == entries' = [entries EXCEPT ![o] = @ \cup {TagId(tag)}]
Shrinks == \A o \in Owners : entries'[o] \subseteq entries[o]

LEMMA FiniteAfter ==
  ASSUME TypeOK, FiniteEntries, NEW o \in Owners, NEW tag, Shrinks \/ Adds(o, tag)
  PROVE  FiniteEntries'
<1> SUFFICES ASSUME NEW j \in Owners PROVE IsFiniteSet(entries'[j])
  BY DEF FiniteEntries
<1>0. IsFiniteSet(entries[j])
  BY DEF FiniteEntries
<1>1. CASE Shrinks
  BY <1>0, <1>1, FS_Subset DEF Shrinks
<1>2. CASE Adds(o, tag)
  <2>1. entries'[j] = entries[j] \/ entries'[j] = entries[j] \cup {TagId(tag)}
    BY <1>2 DEF Adds, TypeOK
  <2> QED BY <1>0, <2>1, FS_AddElement
<1> QED BY <1>1, <1>2

LEMMA CapAfterShrinking ==
  ASSUME TypeOK, FiniteEntries, CustomCap, Shrinks
  PROVE  CustomCap'
<1> SUFFICES ASSUME NEW i \in Identities
             PROVE  Cardinality(Customs(entries'[i])) <= MaxCustomTags
  BY DEF CustomCap
<1>1. IsFiniteSet(Customs(entries[i])) /\ Customs(entries'[i]) \subseteq Customs(entries[i])
  BY TemplateOwner, FS_Subset DEF FiniteEntries, Customs, Shrinks
<1>2. /\ Cardinality(Customs(entries'[i])) <= Cardinality(Customs(entries[i]))
      /\ Cardinality(Customs(entries'[i])) \in Nat /\ Cardinality(Customs(entries[i])) \in Nat
  BY <1>1, FS_Subset, FS_CardinalityType
<1>3. Cardinality(Customs(entries[i])) <= MaxCustomTags
  BY DEF CustomCap
<1> QED BY <1>2, <1>3, BoundAssumption

\* Handle_set tests the cap in the body that writes.
LEMMA CapAfterSet ==
  ASSUME TypeOK, FiniteEntries, CustomCap, NEW i \in Identities, NEW tag \in Tags, Set(i, tag)
  PROVE  CustomCap'
<1> SUFFICES ASSUME NEW j \in Identities
             PROVE  Cardinality(Customs(entries'[j])) <= MaxCustomTags
  BY DEF CustomCap
<1>0. Cardinality(Customs(entries[j])) <= MaxCustomTags
  BY DEF CustomCap
<1>1. entries'[j] = IF j = i THEN entries[i] \cup {TagId(tag)} ELSE entries[j]
  BY TemplateOwner DEF Set, Put, TypeOK
<1>2. CASE j # i \/ tag \notin Custom \/ TagId(tag) \in entries[i]
  BY <1>0, <1>1, <1>2, CountedTags
<1>3. CASE j = i /\ tag \in Custom /\ TagId(tag) \notin entries[i]
  <2>1. Cardinality(Customs(entries[i])) < MaxCustomTags
    BY <1>3 DEF Set
  <2>2. IsFiniteSet(Customs(entries[i])) /\ TagId(tag) \notin Customs(entries[i])
    BY <1>3, TemplateOwner, FS_Subset DEF FiniteEntries, Customs
  <2>3. /\ Cardinality(Customs(entries[i]) \cup {TagId(tag)}) = Cardinality(Customs(entries[i])) + 1
        /\ Cardinality(Customs(entries[i])) \in Nat
    BY <2>2, FS_AddElement, FS_CardinalityType
  <2>4. Customs(entries'[j]) = Customs(entries[i]) \cup {TagId(tag)}
    BY <1>1, <1>3, CountedTags
  <2> QED BY <2>1, <2>3, <2>4, BoundAssumption
<1> QED BY <1>2, <1>3

LEMMA CapAfterTemplate ==
  ASSUME TypeOK, CustomCap, NEW i \in Identities, NEW tag \in Tags, SetTemplate(i, tag)
  PROVE  CustomCap'
<1>1. \A j \in Identities : entries'[j] = entries[j]
  BY TemplateOwner DEF SetTemplate, Put, TypeOK
<1> QED BY <1>1 DEF CustomCap

-----------------------------------------------------------------------------
(* Each body keeps the invariant.                                          *)

LEMMA PutKeeps ==
  ASSUME IInv, NEW i \in Identities, NEW tag \in Tags, Set(i, tag) \/ SetTemplate(i, tag)
  PROVE  IInv'
<1>1. PICK o \in Owners : Put(o, tag)
  BY TemplateOwner DEF Set, SetTemplate
<1>2. TypeOK'
  BY <1>1, TagIdTypes DEF IInv, TypeOK, Put
<1>3. FiniteEntries'
  BY <1>1, FiniteAfter DEF IInv, Put, Adds
<1>4. CustomCap'
  BY CapAfterSet, CapAfterTemplate DEF IInv
<1>5. PendingWasShown'
  BY <1>1 DEF IInv, PendingWasShown, Put
<1> QED BY <1>2, <1>3, <1>4, <1>5 DEF IInv

LEMMA RemoveKeeps ==
  ASSUME IInv, NEW i \in Identities, NEW tag \in Tags, Remove(i, tag) \/ RemoveTemplate(i, tag)
  PROVE  IInv'
<1>1. PICK o \in Owners : Remove(o, tag)
  BY TemplateOwner DEF RemoveTemplate
<1>2. TypeOK'
  BY <1>1 DEF IInv, TypeOK, Remove
<1>3. Shrinks
  BY <1>1 DEF IInv, TypeOK, Remove, Shrinks
<1>4. PendingWasShown'
  BY <1>1 DEF IInv, PendingWasShown, Remove
<1> QED BY <1>2, <1>3, <1>4, FiniteAfter, CapAfterShrinking DEF IInv

\* Bodies that take nothing from the entries but whole profiles.
LEMMA OthersKeep ==
  ASSUME IInv, NEW i \in Identities, NEW tag,
         \/ \E on \in BOOLEAN : Switch(i, on)
         \/ ReportNotSet(i, tag)
         \/ \E code \in Codes : AskClear(i, code) \/ RejectCode(i, code) \/ ConfirmClear(i, code)
         \/ ClearTemplate(i)
  PROVE  IInv'
<1>0. TypeOK /\ PendingWasShown /\ i \in Owners /\ Template(i) \in Owners
  BY TemplateOwner DEF IInv
<1>1. CASE \/ \E on \in BOOLEAN : Switch(i, on)
           \/ ReportNotSet(i, tag)
           \/ ClearTemplate(i)
  <2>1. TypeOK'
    BY <1>0, <1>1, NameAssumption DEF TypeOK, Switch, ReportNotSet, ClearTemplate
  <2>2. Shrinks
    BY <1>0, <1>1 DEF TypeOK, Switch, ReportNotSet, ClearTemplate, Shrinks
  <2>3. PendingWasShown'
    BY <1>0, <1>1 DEF PendingWasShown, Switch, ReportNotSet, ClearTemplate
  <2> QED BY <1>0, <2>1, <2>2, <2>3, FiniteAfter, CapAfterShrinking DEF IInv
<1>2. ASSUME NEW code \in Codes, AskClear(i, code) PROVE IInv'
  <2>1. TypeOK'
    BY <1>0, <1>2, TokenTypes DEF TypeOK, AskClear
  <2>2. Shrinks
    BY <1>2 DEF AskClear, Shrinks
  <2>3. PendingWasShown'
    BY <1>0, <1>2 DEF PendingWasShown, AskClear, TypeOK
  <2> QED BY <1>0, <2>1, <2>2, <2>3, FiniteAfter, CapAfterShrinking DEF IInv
<1>3. ASSUME NEW code \in Codes, RejectCode(i, code) PROVE IInv'
  <2>1. TypeOK'
    BY <1>0, <1>3, TokenTypes DEF TypeOK, RejectCode
  <2>2. Shrinks
    BY <1>3 DEF RejectCode, Shrinks
  <2>3. PendingWasShown'
    BY <1>0, <1>3 DEF PendingWasShown, RejectCode, TypeOK
  <2> QED BY <1>0, <2>1, <2>2, <2>3, FiniteAfter, CapAfterShrinking DEF IInv
<1>4. ASSUME NEW code \in Codes, ConfirmClear(i, code) PROVE IInv'
  <2>1. TypeOK'
    BY <1>0, <1>4, TokenTypes DEF TypeOK, ConfirmClear
  <2>2. Shrinks
    BY <1>0, <1>4 DEF ConfirmClear, Shrinks, TypeOK
  <2>3. PendingWasShown'
    BY <1>0, <1>4 DEF PendingWasShown, ConfirmClear, TypeOK
  <2> QED BY <1>0, <2>1, <2>2, <2>3, FiniteAfter, CapAfterShrinking DEF IInv
<1> QED BY <1>1, <1>2, <1>3, <1>4

LEMMA SurroundingsKeep ==
  ASSUME IInv, Tick \/ Restart \/ UNCHANGED vars
  PROVE  IInv'
<1>1. TypeOK'
  <2>0. TypeOK
    BY DEF IInv
  <2>1. CASE Tick
    BY <2>0, <2>1, BoundAssumption DEF TypeOK, Tick
  <2>2. CASE Restart
    BY <2>0, <2>2, TokenTypes DEF TypeOK, Restart
  <2>3. CASE UNCHANGED vars
    BY <2>0, <2>3 DEF TypeOK, vars
  <2> QED BY <2>1, <2>2, <2>3
<1>2. entries' = entries
  BY DEF Tick, Restart, vars
<1>3. FiniteEntries' /\ CustomCap'
  BY <1>2 DEF IInv, FiniteEntries, CustomCap
<1>4. PendingWasShown'
  BY DEF IInv, PendingWasShown, Tick, Restart, vars
<1> QED BY <1>1, <1>3, <1>4 DEF IInv

LEMMA Initially == Init => IInv
<1> SUFFICES ASSUME Init PROVE IInv
  OBVIOUS
<1>1. TypeOK
  BY TokenTypes, BoundAssumption DEF Init, TypeOK
<1>2. FiniteEntries
  BY FS_EmptySet DEF Init, FiniteEntries
<1>3. CustomCap
  <2> SUFFICES ASSUME NEW i \in Identities
               PROVE  Cardinality(Customs(entries[i])) <= MaxCustomTags
    BY DEF CustomCap
  <2>1. Customs(entries[i]) = {}
    BY TemplateOwner DEF Init, Customs
  <2> QED BY <2>1, FS_EmptySet, BoundAssumption
<1>4. PendingWasShown
  BY DEF Init, PendingWasShown
<1> QED BY <1>1, <1>2, <1>3, <1>4 DEF IInv

LEMMA Inductive == IInv /\ [Next]_vars => IInv'
<1> SUFFICES ASSUME IInv, [Next]_vars PROVE IInv'
  OBVIOUS
<1>1. CASE Tick \/ Restart \/ UNCHANGED vars
  BY <1>1, SurroundingsKeep
<1>2. ASSUME NEW i \in Identities, Command(i) PROVE IInv'
  BY <1>2, PutKeeps, RemoveKeeps, OthersKeep DEF Command
<1>3. ASSUME NEW i \in Identities, AdminCommand(i) PROVE IInv'
  <2>1. \A tag \in TemplateTags : tag \in Tags
    BY NameAssumption DEF Tags
  <2> QED BY <1>3, <2>1, PutKeeps, RemoveKeeps, OthersKeep DEF AdminCommand
<1> QED BY <1>1, <1>2, <1>3 DEF Next

-----------------------------------------------------------------------------
(* Who takes how much away.                                                *)

\* What WipeAnswersARequest says of one identity.
Answers(i) ==
  LET lost == Cardinality(entries[i] \ entries'[i])
  IN lost > 1 \/ (lost = 1 /\ enabled[i] /\ ~enabled'[i]) =>
       asked[i] # NoToken /\ now <= asked[i].exp /\ quoted' = asked[i].code

\* A body that takes away nothing, or one entry and leaves the consent.
LEMMA Harmless ==
  ASSUME NEW i \in Identities,
         \/ entries[i] \subseteq entries'[i]
         \/ enabled'[i] = enabled[i] /\ \E x : entries[i] \ entries'[i] \subseteq {x}
  PROVE  Answers(i)
<1>1. CASE entries[i] \subseteq entries'[i]
  <2>1. Cardinality(entries[i] \ entries'[i]) = 0
    BY <1>1, FS_EmptySet
  <2> QED BY <2>1 DEF Answers
<1>2. ASSUME NEW x, entries[i] \ entries'[i] \subseteq {x}, enabled'[i] = enabled[i]
      PROVE  Answers(i)
  <2>1. entries[i] \ entries'[i] = {} \/ entries[i] \ entries'[i] = {x}
    BY <1>2
  <2>2. Cardinality(entries[i] \ entries'[i]) \in {0, 1}
    BY <2>1, FS_EmptySet, FS_Singleton
  <2> QED BY <1>2, <2>2 DEF Answers
<1> QED BY <1>1, <1>2

LEMMA EveryStepAnswers ==
  ASSUME IInv, [Next]_vars, NEW i \in Identities
  PROVE  Answers(i)
<1>0. TypeOK /\ PendingWasShown /\ i \in Owners
  BY TemplateOwner DEF IInv
<1>1. CASE Tick \/ Restart \/ UNCHANGED vars
  BY <1>1, Harmless DEF Tick, Restart, vars
<1>2. ASSUME NEW o \in Owners, NEW tag, Put(o, tag) PROVE Answers(i)
  <2>1. entries[i] \subseteq entries'[i]
    BY <1>0, <1>2 DEF Put, TypeOK
  <2> QED BY <2>1, Harmless
<1>3. ASSUME NEW o \in Owners, NEW tag, Remove(o, tag) PROVE Answers(i)
  <2>1. entries[i] \ entries'[i] \subseteq {Lookup(tag)} /\ enabled' = enabled
    BY <1>0, <1>3 DEF Remove, TypeOK
  <2> QED BY <2>1, Harmless
<1>4. ASSUME NEW j \in Identities, NEW tag,
             \/ \E on \in BOOLEAN : Switch(j, on)
             \/ ReportNotSet(j, tag)
             \/ \E code \in Codes : AskClear(j, code) \/ RejectCode(j, code)
             \/ ClearTemplate(j)
      PROVE  Answers(i)
  <2>1. entries'[i] = entries[i]
    BY <1>0, <1>4, TemplateOwner
       DEF TypeOK, Switch, ReportNotSet, AskClear, RejectCode, ClearTemplate
  <2> QED BY <2>1, Harmless
<1>5. ASSUME NEW j \in Identities, NEW code \in Codes, ConfirmClear(j, code) PROVE Answers(i)
  <2>1. CASE j # i
    <3>1. entries'[i] = entries[i]
      BY <1>0, <1>5, <2>1 DEF ConfirmClear, TypeOK
    <3> QED BY <3>1, Harmless
  <2>2. CASE j = i
    <3>1. pending[i] # NoToken /\ pending[i] = asked[i]
      BY <1>0, <1>5, <2>2 DEF ConfirmClear, PendingWasShown
    <3>2. now <= asked[i].exp /\ quoted' = asked[i].code
      BY <1>5, <2>2, <3>1 DEF ConfirmClear
    <3> QED BY <3>1, <3>2 DEF Answers
  <2> QED BY <2>1, <2>2
<1> QED BY <1>1, <1>2, <1>3, <1>4, <1>5, TemplateOwner
        DEF Next, Command, AdminCommand, Set, SetTemplate, RemoveTemplate

-----------------------------------------------------------------------------
(* Theorems.                                                               *)

\* The invariant, in whatever order the bodies are handled.
THEOREM CommandsInvariance == Spec => []IInv
  BY Initially, Inductive, PTL DEF Spec

\* The variables keep their types: what is stored, pending and shown.
THEOREM CommandTypes == Spec => []TypeOK
  BY CommandsInvariance, PTL DEF IInv

\* No profile gets more custom tags than the cap, for every cap and number of tags.
THEOREM CapKept == Spec => []CustomCap
  BY CommandsInvariance, PTL DEF IInv

\* A profile is wiped only in answer to the request its sender was last shown under
\* that identity, for every number of senders, personas, codes and reloads.
THEOREM WipesAreAsked == Spec => WipeAnswersARequest
<1>1. IInv /\ [Next]_vars => [\A i \in Identities : Answers(i)]_vars
  BY EveryStepAnswers
<1> QED BY <1>1, CommandsInvariance, PTL DEF Spec, WipeAnswersARequest, Answers
=============================================================================
