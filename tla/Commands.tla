------------------------------- MODULE Commands -------------------------------
(***************************************************************************)
(* The /xp commands that write: pref_profile/commands.py with the bindings *)
(* of main.py.  The host runs every message as a task of its own.  A       *)
(* handler awaits the identity of its sender, reading nothing else, and    *)
(* then runs to its answer without a break; so an action is a whole body,  *)
(* and bodies come in any order, for any identity the sender had while his *)
(* message waited.                                                         *)
(***************************************************************************)
EXTENDS Integers, FiniteSets

CONSTANTS
  Users,
  Bot,            \* the owner of the templates, of no sender
  Personas,       \* personas a conversation may resolve to
  Builtin,        \* built-in tags
  Custom,         \* display names of custom tags
  TemplateTags,   \* the tags administrators use
  MaxCustomTags,  \* MAX_CUSTOM_TAGS
  Codes,          \* confirmation codes
  NoCode,
  TTL,            \* CLEAR_TOKEN_TTL
  MaxTime         \* bound on the clock

ASSUME NameAssumption ==
  /\ Bot \notin Users /\ NoCode \notin Codes
  /\ Builtin \cap Custom = {} /\ TemplateTags \subseteq Builtin \cup Custom
ASSUME BoundAssumption == {MaxCustomTags, TTL, MaxTime} \subseteq Nat

VARIABLES
  entries,  \* the tag_ids stored under each identity
  enabled,  \* user_state
  pending,  \* _clear_tokens
  now,      \* time.monotonic
  asked,    \* history: the last request to clear shown under an identity, until used
  quoted    \* history: the code in the message handled last

vars == <<entries, enabled, pending, now, asked, quoted>>

-----------------------------------------------------------------------------

\* A user and the persona he talks to; a command whose identity cannot be read is
\* refused.  Templates drop the sender.
Identities == Users \X Personas
Owners == Identities \cup ({Bot} \X Personas)
Template(i) == <<Bot, i[2]>>

\* make_tag_id is injective on display names and yields no built-in tag.
TagId(tag) == IF tag \in Custom THEN <<"custom", tag>> ELSE <<"builtin", tag>>
Tags == Builtin \cup Custom
TagIds == {TagId(tag) : tag \in Tags}
Customs(ids) == {id \in ids : id[1] = "custom"}

\* _resolve_tag(create=False) knows the built-in tags and returns anything else as
\* it was typed, which is no tag_id.
Lookup(tag) == IF tag \in Builtin THEN TagId(tag) ELSE <<"raw", tag>>

NoToken == [code |-> NoCode, exp |-> 0]
TokenType == [code : Codes \cup {NoCode}, exp : 0..MaxTime + TTL]

Init ==
  /\ entries = [i \in Owners |-> {}]
  /\ enabled = [i \in Identities |-> FALSE]
  /\ pending = [i \in Identities |-> NoToken]
  /\ now = 0
  /\ asked = [i \in Identities |-> NoToken]
  /\ quoted = NoCode

-----------------------------------------------------------------------------
(* Bodies, from the identity to the answer, for private messages that pass *)
(* the gates.  A body whose arguments are no good, or whose store raises,  *)
(* leaves everything as it is.                                             *)

Switch(i, on) ==
  /\ enabled' = [enabled EXCEPT ![i] = on]
  /\ quoted' = NoCode
  /\ UNCHANGED <<entries, pending, now, asked>>

Put(i, tag) ==
  /\ entries' = [entries EXCEPT ![i] = @ \cup {TagId(tag)}]
  /\ quoted' = NoCode
  /\ UNCHANGED <<enabled, pending, now, asked>>

\* As Set would be if its cap were tested one too late.
SetOneMore(i, tag) ==
  /\ tag \in Custom /\ TagId(tag) \notin entries[i] =>
       Cardinality(Customs(entries[i])) <= MaxCustomTags
  /\ Put(i, tag)

\* handle_set: a new custom tag only below the cap, counted in the same breath as
\* the entry is written.
Set(i, tag) ==
  /\ tag \in Custom /\ TagId(tag) \notin entries[i] =>
       Cardinality(Customs(entries[i])) < MaxCustomTags
  /\ Put(i, tag)

SetTemplate(i, tag) == Put(Template(i), tag)

\* handle_remove, and of a template its counterpart.
Remove(i, tag) ==
  /\ Lookup(tag) \in entries[i]
  /\ entries' = [entries EXCEPT ![i] = @ \ {Lookup(tag)}]
  /\ quoted' = NoCode
  /\ UNCHANGED <<enabled, pending, now, asked>>

RemoveTemplate(i, tag) == Remove(Template(i), tag)

ReportNotSet(i, tag) ==
  /\ Lookup(tag) \notin entries[i]
  /\ quoted' = NoCode
  /\ UNCHANGED <<entries, enabled, pending, now, asked>>

\* As AskClear would be if the codes had no end.
AskClearUntimed(i, code) ==
  /\ pending' = [pending EXCEPT ![i] = [code |-> code, exp |-> MaxTime + TTL + 1]]
  /\ asked' = [asked EXCEPT ![i] = [code |-> code, exp |-> now + TTL]]
  /\ quoted' = NoCode
  /\ UNCHANGED <<entries, enabled, now>>

\* handle_clear without a code: a new one replaces the old.
AskClear(i, code) ==
  /\ pending' = [pending EXCEPT ![i] = [code |-> code, exp |-> now + TTL]]
  /\ asked' = [asked EXCEPT ![i] = [code |-> code, exp |-> now + TTL]]
  /\ quoted' = NoCode
  /\ UNCHANGED <<entries, enabled, now>>

\* With a code: nothing pending, or too late, and the request is dropped; a wrong
\* code keeps it.
RejectCode(i, code) ==
  /\ \/ /\ pending[i] = NoToken \/ now > pending[i].exp
        /\ pending' = [pending EXCEPT ![i] = NoToken]
     \/ /\ pending[i] # NoToken /\ now <= pending[i].exp
        /\ code # pending[i].code
        /\ UNCHANGED pending
  /\ quoted' = code
  /\ UNCHANGED <<entries, enabled, now, asked>>

\* As ConfirmClear would be if the code were not spent.
ConfirmClearAgain(i, code) ==
  /\ pending[i] # NoToken /\ now <= pending[i].exp
  /\ code = pending[i].code
  /\ entries' = [entries EXCEPT ![i] = {}]
  /\ enabled' = [enabled EXCEPT ![i] = FALSE]
  /\ asked' = [asked EXCEPT ![i] = NoToken]
  /\ quoted' = code
  /\ UNCHANGED <<pending, now>>

\* The right code is spent before the profile is deleted, which may fail.
ConfirmClear(i, code) ==
  /\ pending[i] # NoToken /\ now <= pending[i].exp
  /\ code = pending[i].code
  /\ pending' = [pending EXCEPT ![i] = NoToken]
  /\ \/ /\ entries' = [entries EXCEPT ![i] = {}]
        /\ enabled' = [enabled EXCEPT ![i] = FALSE]
        /\ asked' = [asked EXCEPT ![i] = NoToken]
     \/ UNCHANGED <<entries, enabled, asked>>
  /\ quoted' = code
  /\ UNCHANGED now

ClearTemplate(i) ==
  /\ entries' = [entries EXCEPT ![Template(i)] = {}]
  /\ quoted' = NoCode
  /\ UNCHANGED <<enabled, pending, now, asked>>

-----------------------------------------------------------------------------
(* Surroundings.                                                           *)

Tick ==
  /\ now < MaxTime
  /\ now' = now + 1
  /\ UNCHANGED <<entries, enabled, pending, asked, quoted>>

\* The plugin is loaded again: codes are kept in memory only.
Restart ==
  /\ pending' = [i \in Identities |-> NoToken]
  /\ UNCHANGED <<entries, enabled, now, asked, quoted>>

Command(i) ==
  \/ \E on \in BOOLEAN : Switch(i, on)
  \/ \E tag \in Tags : Set(i, tag) \/ Remove(i, tag) \/ ReportNotSet(i, tag)
  \/ \E code \in Codes : AskClear(i, code) \/ RejectCode(i, code) \/ ConfirmClear(i, code)

AdminCommand(i) ==
  \/ \E tag \in TemplateTags : SetTemplate(i, tag) \/ RemoveTemplate(i, tag)
  \/ ClearTemplate(i)

Next ==
  \/ \E i \in Identities : Command(i) \/ AdminCommand(i)
  \/ Tick \/ Restart

Spec == Init /\ [][Next]_vars

-----------------------------------------------------------------------------
(* Properties.                                                             *)

\* Types of the variables.
TypeOK ==
  /\ entries \in [Owners -> SUBSET TagIds]
  /\ enabled \in [Identities -> BOOLEAN]
  /\ pending \in [Identities -> TokenType]
  /\ now \in 0..MaxTime
  /\ asked \in [Identities -> TokenType]
  /\ quoted \in Codes \cup {NoCode}

\* No identity of a user gets more custom tags than the cap, whatever order his
\* messages are handled in (commands.py handle_set).
CustomCap == \A i \in Identities : Cardinality(Customs(entries[i])) <= MaxCustomTags

\* A profile loses two entries at once, or an entry and its consent, only when its
\* own sender quotes the code he was last shown under that very persona, in time,
\* and no clear has used that request before: not the code of another persona, one
\* a newer request replaced or one already spent, also across restarts
\* (commands.py handle_clear).
WipeAnswersARequest ==
  [][\A i \in Identities :
       LET lost == Cardinality(entries[i] \ entries'[i])
       IN lost > 1 \/ (lost = 1 /\ enabled[i] /\ ~enabled'[i]) =>
            asked[i] # NoToken /\ now <= asked[i].exp /\ quoted' = asked[i].code]_vars

\* A tag reported as not set is not stored: commands.py:269 answers "not found (not
\* set)", and README.md:48 says that /xp remove <tag> deletes one entry.
NotSetIsNotStored ==
  [][\A i \in Identities, tag \in Tags : ReportNotSet(i, tag) => TagId(tag) \notin entries[i]]_vars
=============================================================================
