--------------------------------- MODULE Feed ---------------------------------
(***************************************************************************)
(* The intelligence feed: raw events become cards, cards are dismissed or  *)
(* explored by a deep dive.                                                *)
(*                                                                         *)
(* process_new_events reads the cards and the newest events once, then     *)
(* checks and commits event by event; every GET /news/feed runs one, and   *)
(* so does the timer of the desktop window.  Users mute tags and            *)
(* administrators block them while it runs.  A deep dive reads its card,   *)
(* generates for minutes and then writes the card.                         *)
(***************************************************************************)
EXTENDS Integers, Sequences, FiniteSets

CONSTANTS
  Users, Refs, Topics, Kinds,
  Workspaces, NoSpace,
  Tags, Admins,  \* the tags of the organization, and its administrators
  Managers,      \* who administers which workspace
  Stored,      \* what a card keeps of a reference: its first 512 characters
  Polls,       \* runs of process_new_events in progress at a time
  Dives,       \* deep dives in progress at a time
  Alone,       \* TRUE: no user has two runs at once (the desktop's isRunning guard)
  Expires,     \* TRUE: a commit expires what the session loaded (desktop sessions)
  Limit,       \* process_new_events(limit=20)
  Reach,       \* events looked at: limit * 5
  MaxEvents, MaxDigests, MaxOut  \* bounds; MaxOut: tags muted or blocked at a time

ASSUME FeedAssumption ==
  /\ Kinds \subseteq {"plain", "muted", "short"} /\ NoSpace \notin Workspaces
  /\ Admins \subseteq Users /\ Managers \subseteq Users \X Workspaces /\ Stored \in [Refs -> Refs]
  /\ {Alone, Expires} \subseteq BOOLEAN
  /\ {Limit, Reach, MaxEvents, MaxDigests} \subseteq Nat \ {0} /\ MaxOut \in Nat

VARIABLES
  events,    \* EventRaw in the order of ts
  cards,     \* IntelligenceFeed in the order of id
  digests,   \* the owner of each NewsletterDigest in the order of created_at
  poll,      \* the runs of process_new_events
  dive,      \* the deep dives
  tags,      \* Tag
  muted,     \* UserTagPreference: who muted what
  blocked    \* WorkspaceTagPolicy: what is blocked where

tagVars == <<tags, muted, blocked>>
feedVars == <<events, cards, digests, poll, dive, tags, muted, blocked>>

\* muted: advertising; short: less than 20 characters of text.  What is shared
\* with a workspace may carry tags.
Event ==
  {e \in [ref : Refs, topic : Topics, owner : Users, space : Workspaces \cup {NoSpace},
          tags : SUBSET Tags, kind : Kinds] : e.space = NoSpace => e.tags = {}}
Statuses == {"new", "dismissed", "deep_dive_ready"}
EventIds == 1..MaxEvents

IdlePoll(j) == poll[j].step = "idle"
IdleDive(d) == dive[d].step = "idle"
NoPoll == [step |-> "idle", user |-> "nobody", space |-> NoSpace, batch |-> <<>>]
NoDive == [step |-> "idle", user |-> "nobody", card |-> 0, read |-> "new"]

Card == [user : Users, event : Nat, status : Statuses, digest : Nat, recent : BOOLEAN]
Run == [step : {"idle", "check", "create"}, user : Users \cup {"nobody"},
        space : Workspaces \cup {NoSpace}, batch : Seq(EventIds)]
DeepDive == [step : {"idle", "generate", "link"}, user : Users \cup {"nobody"}, card : Nat, read : Statuses]

FeedTypeOK ==
  /\ events \in Seq(Event) /\ Len(events) <= MaxEvents
  /\ cards \in Seq(Card) /\ digests \in Seq(Users)
  /\ poll \in [Polls -> Run] /\ dive \in [Dives -> DeepDive]
  /\ tags \subseteq Tags /\ muted \subseteq Users \X tags /\ blocked \subseteq Workspaces \X tags

FeedInit ==
  /\ events = <<>> /\ cards = <<>> /\ digests = <<>>
  /\ poll = [j \in Polls |-> NoPoll] /\ dive = [d \in Dives |-> NoDive]
  /\ tags = {} /\ muted = {} /\ blocked = {}

-----------------------------------------------------------------------------
(* Processing. *)

CardsOf(u) == {i \in DOMAIN cards : cards[i].user = u}

\* The n newest events of a set, and a set of events newest first.
Newest(S, n) == {e \in S : Cardinality({x \in S : x > e}) < n}
NewestFirst(S) == {b \in [1..Cardinality(S) -> S] : \A i, k \in DOMAIN b : i < k => b[i] > b[k]}

\* What a user owns, and what was shared with the workspace of the request.
Visible(u, w) == {e \in DOMAIN events : events[e].owner = u \/ (w # NoSpace /\ events[e].space = w)}
Processed(u) == {cards[i].event : i \in CardsOf(u)}

\* normalize_event: not what the user shared with a workspace that is not selected.
Normalized(w, e) == events[e].kind # "short" /\ events[e].space \in {NoSpace, w}

\* load_unprocessed_events: muted events and duplicates count, dropped ones do not.
Unprocessed(u, w) ==
  Newest({e \in Newest(Visible(u, w), Reach) \ Processed(u) : Normalized(w, e)}, Limit)

\* Mutation: a dismissed card does not count as a source that was shown.
SourceShownNow(u, e) ==
  \E i \in CardsOf(u) : /\ Stored[events[cards[i].event].ref] = events[e].ref
                        /\ cards[i].status # "dismissed"

\* source_ref_exists, whatever the status of the card.
SourceShown(u, e) == \E i \in CardsOf(u) : Stored[events[cards[i].event].ref] = events[e].ref

\* recent_topic_exists: six hours, dismissed cards left out.
TopicShown(u, e) ==
  \E i \in CardsOf(u) : /\ events[cards[i].event].topic = events[e].topic
                        /\ cards[i].recent /\ cards[i].status # "dismissed"

IsDuplicate(u, e) == SourceShown(u, e) \/ TopicShown(u, e)

\* feed_tag_adjustment: a tag of the event is muted by the user, or blocked in the
\* one workspace of the request.
TaggedOut(u, w, e) ==
  \E g \in events[e].tags : <<u, g>> \in muted \/ <<w, g>> \in blocked

\* The priority of a card in ten-thousandths.  Its topics are at least its tags;
\* local: from the clipboard or the window; weight: in hundredths, what the user and
\* the workspace give its tags.
Clip(low, high, x) == IF x < low THEN low ELSE IF x > high THEN high ELSE x
Priority(topics, local, fresh, weight) ==
  LET interest == Clip(0, 10000, 3500 + 1200 * topics) + (IF local THEN 1000 ELSE 0) IN
  Clip(0, 10000, Clip(0, 10000, interest + fresh) + Clip(-5000, 5000, 15 * weight))

Arrive(e) ==
  /\ Len(events) < MaxEvents /\ e.tags \subseteq tags
  /\ events' = Append(events, e)
  /\ UNCHANGED <<cards, digests, poll, dive>> /\ UNCHANGED tagVars

Load(j, u, w) ==
  /\ IdlePoll(j)
  /\ Alone => \A other \in Polls : poll[other].user = u => IdlePoll(other)
  /\ Unprocessed(u, w) # {}
  /\ \E batch \in NewestFirst(Unprocessed(u, w)) :
       poll' = [poll EXCEPT ![j] = [step |-> "check", user |-> u, space |-> w, batch |-> batch]]
  /\ UNCHANGED <<events, cards, digests, dive>> /\ UNCHANGED tagVars

Advance(j) ==
  LET rest == Tail(poll[j].batch) IN
  poll' = [poll EXCEPT ![j] = IF rest = <<>> THEN NoPoll
                              ELSE [@ EXCEPT !.step = "check", !.batch = rest]]

Check(j) ==
  LET e == Head(poll[j].batch) IN
  /\ poll[j].step = "check"
  /\ IF \/ events[e].kind = "muted" \/ TaggedOut(poll[j].user, poll[j].space, e)
        \/ IsDuplicate(poll[j].user, e)
     THEN Advance(j)
     ELSE poll' = [poll EXCEPT ![j].step = "create"]
  /\ UNCHANGED <<events, cards, digests, dive>> /\ UNCHANGED tagVars

CreateCard(j) ==
  /\ poll[j].step = "create"
  /\ cards' = Append(cards, [user |-> poll[j].user, event |-> Head(poll[j].batch),
                             status |-> "new", digest |-> 0, recent |-> TRUE])
  /\ Advance(j)
  /\ UNCHANGED <<events, digests, dive>> /\ UNCHANGED tagVars

\* A commit fails: the session is not rolled back, and every later event of the
\* batch fails with it.
CreateFails(j) ==
  /\ poll[j].step = "create"
  /\ poll' = [poll EXCEPT ![j] = NoPoll]
  /\ UNCHANGED <<events, cards, digests, dive>> /\ UNCHANGED tagVars

-----------------------------------------------------------------------------
(* Cards. *)

Dismiss(i) ==
  /\ cards[i].status # "dismissed"
  /\ cards' = [cards EXCEPT ![i].status = "dismissed"]
  /\ UNCHANGED <<events, digests, poll, dive>> /\ UNCHANGED tagVars

SixHoursPass ==
  /\ \E i \in DOMAIN cards : cards[i].recent
  /\ cards' = [i \in DOMAIN cards |-> [cards[i] EXCEPT !.recent = FALSE]]
  /\ UNCHANGED <<events, digests, poll, dive>> /\ UNCHANGED tagVars

\* run_deep_dive reads its card.
Begin(d, u, i) ==
  /\ IdleDive(d)
  /\ i \in CardsOf(u)
  /\ dive' = [dive EXCEPT ![d] = [step |-> "generate", user |-> u, card |-> i, read |-> cards[i].status]]
  /\ UNCHANGED <<events, cards, digests, poll>> /\ UNCHANGED tagVars

\* generate_newsletter stores the digest.
Generate(d) ==
  /\ dive[d].step = "generate" /\ Len(digests) < MaxDigests
  /\ digests' = Append(digests, dive[d].user)
  /\ dive' = [dive EXCEPT ![d].step = "link"]
  /\ UNCHANGED <<events, cards, poll>> /\ UNCHANGED tagVars

\* Any other generation of a user: a request, a schedule, the window.
OtherDigest(u) ==
  /\ Len(digests) < MaxDigests
  /\ digests' = Append(digests, u)
  /\ UNCHANGED <<events, cards, poll, dive>> /\ UNCHANGED tagVars

GenerateFails(d) ==
  /\ dive[d].step = "generate"
  /\ dive' = [dive EXCEPT ![d] = NoDive]
  /\ UNCHANGED <<events, cards, digests, poll>> /\ UNCHANGED tagVars

\* Mutation: the newest digest of anybody.
NewestDigest(u) == Len(digests)

\* _latest_digest_id: the newest of the user, whatever it was generated for.
LatestDigest(u) ==
  CHOOSE n \in DOMAIN digests :
    digests[n] = u /\ \A m \in DOMAIN digests : digests[m] = u => m <= n

\* mark_deep_dive_ready: a status that did not change since the session read it
\* is not written.
Link(d) ==
  LET i == dive[d].card
      same == (IF Expires THEN cards[i].status ELSE dive[d].read) = "deep_dive_ready"
  IN
  /\ dive[d].step = "link"
  /\ cards' = [cards EXCEPT ![i].digest = LatestDigest(dive[d].user),
                            ![i].status = IF same THEN @ ELSE "deep_dive_ready"]
  /\ dive' = [dive EXCEPT ![d] = NoDive]
  /\ UNCHANGED <<events, digests, poll>> /\ UNCHANGED tagVars

-----------------------------------------------------------------------------
(* Tags. *)

Room(on) == on => Cardinality(muted) + Cardinality(blocked) < MaxOut

\* create_admin_tag: a tag that exists is returned as it is.
CreateTag(u, g) ==
  /\ u \in Admins /\ g \notin tags
  /\ tags' = tags \cup {g}
  /\ UNCHANGED <<events, cards, digests, poll, dive, muted, blocked>>

\* set_user_tag_preference: one row for a user and a tag, made or overwritten.
SetPreference(u, g, mute) ==
  /\ g \in tags /\ Room(mute)
  /\ muted' = IF mute THEN muted \cup {<<u, g>>} ELSE muted \ {<<u, g>>}
  /\ UNCHANGED <<events, cards, digests, poll, dive, tags, blocked>>

\* _is_workspace_admin, and the scope of an administrator.
Governs(u, w) == u \in Admins \/ <<u, w>> \in Managers

\* set_admin_workspace_tag_policy: one row for a workspace and a tag.
SetPolicy(u, w, g, block) ==
  /\ Governs(u, w)
  /\ g \in tags /\ Room(block)
  /\ blocked' = IF block THEN blocked \cup {<<w, g>>} ELSE blocked \ {<<w, g>>}
  /\ UNCHANGED <<events, cards, digests, poll, dive, tags, muted>>

TagStep(u, g) ==
  \/ CreateTag(u, g)
  \/ \E on \in BOOLEAN : \/ SetPreference(u, g, on)
                        \/ \E w \in Workspaces : SetPolicy(u, w, g, on)

FeedNext ==
  \/ \E e \in Event : Arrive(e)
  \/ \E j \in Polls : \/ \E u \in Users, w \in Workspaces \cup {NoSpace} : Load(j, u, w)
                      \/ Check(j) \/ CreateCard(j) \/ CreateFails(j)
  \/ \E i \in DOMAIN cards : Dismiss(i)
  \/ SixHoursPass
  \/ \E u \in Users : OtherDigest(u)
  \/ \E d \in Dives : \/ \E u \in Users, i \in DOMAIN cards : Begin(d, u, i)
                      \/ Generate(d) \/ GenerateFails(d) \/ Link(d)
  \/ \E u \in Users, g \in Tags : TagStep(u, g)

FeedSpec == FeedInit /\ [][FeedNext]_feedVars

\* The desktop polls every minute, a run that was started goes on, and commits do
\* not fail for ever.
FairFeedSpec ==
  /\ FeedSpec
  /\ \A j \in Polls : /\ WF_feedVars(Check(j)) /\ SF_feedVars(CreateCard(j))
                      /\ \A u \in Users : WF_feedVars(Load(j, u, NoSpace))

-----------------------------------------------------------------------------
\* One source whose reference is stored whole never gives a user two cards, through
\* dismissals, failures, deep dives, other tags and any time that passes
\* (feed_deduper.py).
OneCardPerSource ==
  \A u \in Users : \A i, k \in CardsOf(u) :
    LET r == events[cards[i].event].ref IN
    r = events[cards[k].event].ref /\ Stored[r] = r => i = k

\* The digest a card leads to is one of the card's user (feed_deep_dive.py).
DigestOfUser == \A i \in DOMAIN cards : cards[i].digest # 0 => digests[cards[i].digest] = cards[i].user

\* A card that is dismissed while it is being explored stays dismissed
\* (verify_intelligence_feed.py: "assert list_cards(session, user_id) == []").
DismissedStays ==
  [][\A i \in DOMAIN cards :
       /\ cards[i].status = "dismissed"
       /\ \A d \in Dives : dive[d].card = i => dive[d].read # "dismissed"
       => cards'[i].status = "dismissed"]_feedVars

\* Every event a user may see becomes a card or is a duplicate of one
\* (docs/frontend_desktop_feature_parity_plan.md: GET /news/feed "processes new
\* events before returning the feed").
EventsConsidered ==
  \A u \in Users, e \in EventIds :
    (e \in Visible(u, NoSpace) /\ Normalized(NoSpace, e) /\ events[e].kind = "plain")
      ~> (e \in Visible(u, NoSpace) /\ (e \in Processed(u) \/ IsDuplicate(u, e)))
=============================================================================
