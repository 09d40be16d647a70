--------------------------- MODULE ResidentConsent ---------------------------
(***************************************************************************)
(* A resident reviews a plan in the browser and decides on what was shown  *)
(* (ResidentConsentAdapter of management/consent.py over RuntimeReviewSource *)
(* of mcp/consent_review_source.py).                                       *)
(*                                                                         *)
(* A call awaits twice: the plan is read, then the preferences.  When the  *)
(* second read comes back, the rest (the pinned observation, the control   *)
(* head, the projection and the whole of "Phase C") runs without an await  *)
(* and is one action.  Reads come back in the order the one storage worker *)
(* made them.  _prune deletes what has expired on either clock; as the     *)
(* adapter closes when the wall clock is behind its last sample, deleting  *)
(* and no longer counting are the same, and the model does the latter.     *)
(* Locked sections that only sample the clocks (authenticate_session,      *)
(* receipt_for, a retry answered from its receipt) can only close the      *)
(* adapter, which may happen at any time here.                             *)
(***************************************************************************)
EXTENDS Integers, Sequences

CONSTANTS
    Limits,          \* bounds, of which a behaviour takes one (see Limited)
    VisitTTL,        \* a session's lifetime: the credential's, or 600 s
    ReviewTTL,       \* _CHALLENGE_TTL_SECONDS
    ConsentTTL       \* _GRANT_REQUEST_TTL

\* Sessions, requests at once, challenges, request ids, grants, what others do to
\* grants, changes of the plan or the preferences, ticks of the monotonic clock, and
\* settings of the wall clock.
Limited == {"visits", "talks", "reviews", "asks", "consents", "others", "turns", "hours", "jumps"}

ASSUME ConsentAssumption ==
    /\ \A l \in Limits : DOMAIN l = Limited /\ \A x \in Limited : l[x] \in Nat
    /\ VisitTTL \in Nat \ {0} /\ ReviewTTL \in Nat \ {0} /\ ConsentTTL \in Nat \ {0}

VARIABLES
    limit,       \* the bounds of this behaviour
    shut,        \* _closed, of the adapter and of its admission
    clock,       \* wall: Clock.now; tick: time.monotonic; last: _last_time; jumps
    house,       \* versions of the plan, of the preferences, and of what load reads
                 \* last without an await: the control head (and the devices); others
                 \* counts what other callers did to grants
    pin,         \* _observation: preference version and first stamp, 0 for none
    visit,       \* _sessions: opened, expires_at and deadline
    made,        \* challenges made so far, which numbers them
    held,        \* _challenges: the one each session may answer, for the one plan
    talk,        \* where each request stands
    line,        \* request -> those whose preferences were read before its own and
                 \* are still to come back
    consents,    \* approval_grants of the plan
    answers      \* consent_receipts: the kind recorded for each request id

Visits == 1 .. limit.visits
Talks  == 1 .. limit.talks
Asks   == 1 .. limit.asks

consentVars == <<limit, shut, clock, house, pin, visit, made, held, talk, line, consents, answers>>

NoChallenge == [id |-> 0, digest |-> <<>>, wall |-> 0, until |-> 0, end |-> 0, known |-> 0]
NoTalk      == [op |-> "none", at |-> "idle", visit |-> 0, challenge |-> NoChallenge,
                ask |-> 0, plan |-> 0, pref |-> 0]
NoVisit     == [on |-> FALSE, until |-> 0, end |-> 0]

ConsentInit ==
    /\ limit \in Limits
    /\ shut = FALSE
    /\ clock = [wall |-> 1, tick |-> 0, last |-> 0, jumps |-> 0]
    /\ house = [plan |-> 1, pref |-> 1, head |-> 0, others |-> 0]
    /\ pin = [pref |-> 0, stamp |-> 0]
    /\ visit = [h \in Visits |-> NoVisit]
    /\ made = 0 /\ held = [h \in Visits |-> NoChallenge]
    /\ talk = [k \in Talks |-> NoTalk] /\ line = [k \in Talks |-> {}]
    /\ consents = <<>>
    /\ answers = [r \in Asks |-> "none"]

-----------------------------------------------------------------------------
(* Availability, sessions and challenges *)

\* ensure_available and _sample: open, and the wall clock not behind the last sample.
Usable  == ~shut /\ clock.wall >= clock.last
Sampled == clock' = [clock EXCEPT !.last = clock.wall]

Lives(x) == clock.wall < x.until /\ clock.tick < x.end
Present(h)   == visit[h].on /\ Lives(visit[h])

\* _prune keeps a challenge while it and its session live.
Answerable(h) == held[h] # NoChallenge /\ Lives(held[h]) /\ Present(h)

\* create_session.  A session is opened once; it outlives its credential never, which
\* VisitTTL stands for too.
OpenVisit(h) ==
    /\ Usable /\ Sampled
    /\ ~visit[h].on /\ \A g \in 1 .. (h - 1) : visit[g].on
    /\ visit' = [visit EXCEPT ![h] =
         [on |-> TRUE, until |-> clock.wall + VisitTTL, end |-> clock.tick + VisitTTL]]
    /\ UNCHANGED <<limit, shut, house, pin, made, held, talk, line, consents, answers>>

\* close: the gateway shuts the adapter down (before it reloads credentials, or at
\* its end), or a call finds it unavailable; nothing opens it again.
CloseConsent ==
    /\ ~shut
    /\ shut' = TRUE
    /\ visit' = [h \in Visits |-> NoVisit]
    /\ held' = [h \in Visits |-> NoChallenge]
    /\ UNCHANGED <<limit, clock, house, pin, made, talk, line, consents, answers>>

-----------------------------------------------------------------------------
(* A request, up to its answer from storage *)

\* Requests take the first free number.
Vacant(k) == talk[k] = NoTalk /\ \A j \in 1 .. (k - 1) : talk[j] # NoTalk

StartReview(k, h) ==
    /\ Vacant(k) /\ ~shut
    /\ Present(h)
    /\ made < limit.reviews
    /\ talk' = [talk EXCEPT ![k] = [NoTalk EXCEPT !.op = "review", !.at = "plan", !.visit = h]]
    /\ UNCHANGED <<limit, shut, clock, house, pin, visit, made, held, line, consents, answers>>

\* A request id whose approval is recorded is answered or refused from the receipt,
\* and so is a revocation whose request id is recorded.
Recorded(r, act) == answers[r] = "approve" \/ (act = "revoke" /\ answers[r] = "revoke")

\* decide, Phase A: the challenge is consumed whatever comes of the decision.
Consumed(h) == [held EXCEPT ![h] = NoChallenge]

\* A rejection, a decision that quotes another digest and one about a rule end right
\* here, which is FailTalk as the next step.  Request ids are numbered by the first
\* challenge that could use them: they are interchangeable.
StartDecision(k, h, r, act) ==
    /\ Vacant(k) /\ r <= held[h].id
    /\ Usable /\ Sampled
    /\ ~Recorded(r, act)
    /\ Answerable(h)
    /\ held' = Consumed(h)
    /\ talk' = [talk EXCEPT ![k] =
         [NoTalk EXCEPT !.op = act, !.at = IF act = "reject" THEN "done" ELSE "plan",
                        !.visit = h, !.challenge = held[h], !.ask = r]]
    /\ UNCHANGED <<limit, shut, house, pin, visit, made, line, consents, answers>>

ReadPlan(k) ==
    /\ talk[k].at = "plan"
    /\ talk' = [talk EXCEPT ![k] = [talk[k] EXCEPT !.plan = house.plan, !.at = "prefs"]]
    /\ UNCHANGED <<limit, shut, clock, house, pin, visit, made, held, line, consents, answers>>

ReadPreferences(k) ==
    /\ talk[k].at = "prefs"
    /\ talk' = [talk EXCEPT ![k] = [talk[k] EXCEPT !.pref = house.pref, !.at = "back"]]
    /\ line' = [line EXCEPT ![k] = {j \in Talks : talk[j].at = "back"}]
    /\ UNCHANGED <<limit, shut, clock, house, pin, visit, made, held, consents, answers>>

-----------------------------------------------------------------------------
(* What runs when the preferences come back *)

Back(k) == talk[k].at = "back" /\ line[k] = {}

\* Mutant: every read replaces the pin.
PinAlways(v) == [pref |-> v, stamp |-> clock.wall]

\* _pin_observation: the pin once the read is back.
Pinned(v) ==
    IF pin.pref = v \/ (pin.pref # 0 /\ clock.wall < pin.stamp) THEN pin
    ELSE [pref |-> v, stamp |-> clock.wall]

\* The observation that is served: the pinned one of that version, or its own.
Stamp(v) == IF Pinned(v).pref = v THEN Pinned(v).stamp ELSE clock.wall

\* _project: what the digest covers.
Projected(k) == [plan |-> talk[k].plan, pref |-> talk[k].pref, stamp |-> Stamp(talk[k].pref),
                 head |-> house.head]

Return(k) ==
    /\ talk' = [talk EXCEPT ![k] = NoTalk]
    /\ line' = [j \in Talks |-> IF j = k THEN {} ELSE line[j] \ {k}]

Earlier(a, b) == IF a <= b THEN a ELSE b

\* review: one challenge per session and reference; the limit of four references per
\* session is out of reach with one reference.
Show(k) ==
    /\ Back(k) /\ talk[k].op = "review"
    /\ Usable /\ Sampled /\ Present(talk[k].visit)
    /\ made < limit.reviews /\ made' = made + 1
    /\ pin' = Pinned(talk[k].pref)
    /\ LET h == talk[k].visit
           until == Earlier(clock.wall + ReviewTTL, visit[h].until) IN
       held' = [held EXCEPT ![h] =
         [id |-> made + 1, digest |-> Projected(k), wall |-> clock.wall, until |-> until,
          end |-> clock.tick + (until - clock.wall), known |-> Len(consents)]]
    /\ Return(k)
    /\ UNCHANGED <<limit, shut, house, visit, consents, answers>>

\* hmac.compare_digest with what was reviewed.
Matches(k) == Projected(k) = talk[k].challenge.digest

\* No other row is written in the instant of a review: the clock has microseconds.
NewInstant ==
    /\ \A h \in Visits : held[h].wall # clock.wall
    /\ \A k \in Talks : talk[k].challenge.wall # clock.wall

Conflict(k) ==
    \/ \E g \in DOMAIN consents : consents[g].of = talk[k].challenge.id  \* the nonce
    \/ answers[talk[k].ask] # "none"

\* decide, Phase C of an approval: the grant and its receipt are one transaction.
Approve(k) ==
    /\ Back(k) /\ talk[k].op = "approve"
    /\ Usable /\ Sampled /\ Present(talk[k].visit)
    /\ Matches(k) /\ ~Conflict(k)
    /\ NewInstant /\ Len(consents) < limit.consents
    /\ pin' = Pinned(talk[k].pref)
    /\ consents' = Append(consents, [of |-> talk[k].challenge.id, plan |-> talk[k].plan,
                     wall |-> clock.wall, until |-> clock.wall + ConsentTTL, st |-> "pending"])
    /\ answers' = [answers EXCEPT ![talk[k].ask] = "approve"]
    /\ Return(k)
    /\ UNCHANGED <<limit, shut, house, visit, made, held>>

\* list_active_approvals_sync and resolve_active_approval: the one pending grant
\* issued by the time of the review, or else the one consumed.
Reviewable(c, st) ==
    {g \in DOMAIN consents : /\ consents[g].st = st /\ consents[g].wall <= c.wall
                             /\ st = "pending" => clock.wall < consents[g].until}
Candidates(c) == IF Reviewable(c, "pending") # {} THEN Reviewable(c, "pending")
                 ELSE Reviewable(c, "consumed")

\* decide, Phase C of a revocation: the grant, its receipt and the next head.
Revoke(k) ==
    /\ Back(k) /\ talk[k].op = "revoke"
    /\ Usable /\ Sampled /\ Present(talk[k].visit)
    /\ Matches(k) /\ answers[talk[k].ask] = "none"
    /\ pin' = Pinned(talk[k].pref)
    /\ \E g \in DOMAIN consents :
         /\ Candidates(talk[k].challenge) = {g}
         /\ consents' = [consents EXCEPT ![g] = [consents[g] EXCEPT !.st = "revoked"]]
    /\ answers' = [answers EXCEPT ![talk[k].ask] = "revoke"]
    /\ house' = [house EXCEPT !.head = @ + 1]
    /\ Return(k)
    /\ UNCHANGED <<limit, shut, visit, made, held>>

\* challenge_invalid: the household is no longer what was shown.
Stale(k) ==
    /\ Back(k) /\ talk[k].op \in {"approve", "revoke"}
    /\ Usable /\ Sampled /\ Present(talk[k].visit)
    /\ ~Matches(k)
    /\ pin' = Pinned(talk[k].pref)
    /\ Return(k)
    /\ UNCHANGED <<limit, shut, house, visit, made, held, consents, answers>>

\* The lookup is refused or times out, the session has gone, or the grant cannot be
\* issued or found; the observation is pinned if it came back.
FailTalk(k) ==
    /\ talk[k] # NoTalk
    /\ pin' \in {pin} \cup {Pinned(talk[k].pref) : j \in {i \in {k} : Back(i)}}
    /\ Return(k)
    /\ UNCHANGED <<limit, shut, clock, house, visit, made, held, consents, answers>>

-----------------------------------------------------------------------------
(* The rest of the household, and the clocks, while the host is open *)

TurnOf(x) ==
    /\ ~shut
    /\ house.plan + house.pref < 2 + limit.turns
    /\ house' = [house EXCEPT ![x] = @ + 1]
    /\ UNCHANGED <<limit, shut, clock, pin, visit, made, held, talk, line, consents, answers>>

Elsewhere == ~shut /\ house.others < limit.others

IssuedElsewhere ==
    /\ Elsewhere
    /\ Len(consents) < limit.consents /\ NewInstant
    /\ consents' = Append(consents, [of |-> 0, plan |-> house.plan, wall |-> clock.wall,
                                     until |-> clock.wall + ConsentTTL, st |-> "pending"])
    /\ house' = [house EXCEPT !.others = @ + 1]
    /\ UNCHANGED <<limit, shut, clock, pin, visit, made, held, talk, line, answers>>

SpentElsewhere(g) ==
    /\ Elsewhere
    /\ consents[g].st = "pending" /\ clock.wall < consents[g].until
    /\ consents' = [consents EXCEPT ![g] = [consents[g] EXCEPT !.st = "consumed"]]
    /\ house' = [house EXCEPT !.others = @ + 1]
    /\ UNCHANGED <<limit, shut, clock, pin, visit, made, held, talk, line, answers>>

RevokedElsewhere(g) ==
    /\ Elsewhere
    /\ consents[g].st # "revoked"
    /\ consents' = [consents EXCEPT ![g] = [consents[g] EXCEPT !.st = "revoked"]]
    /\ house' = [house EXCEPT !.head = @ + 1, !.others = @ + 1]
    /\ UNCHANGED <<limit, shut, clock, pin, visit, made, held, talk, line, answers>>

HourPasses ==
    /\ ~shut
    /\ clock.tick < limit.hours
    /\ clock' = [clock EXCEPT !.wall = @ + 1, !.tick = @ + 1]
    /\ UNCHANGED <<limit, shut, house, pin, visit, made, held, talk, line, consents, answers>>

\* The wall clock is set forward or back.
WallJumps ==
    /\ ~shut
    /\ clock.jumps < limit.jumps
    /\ \E w \in {clock.wall - 1, clock.wall + 1} :
         clock' = [clock EXCEPT !.wall = w, !.jumps = @ + 1]
    /\ UNCHANGED <<limit, shut, house, pin, visit, made, held, talk, line, consents, answers>>

ConsentNext ==
    \/ \E h \in Visits : OpenVisit(h)
    \/ CloseConsent
    \/ \E k \in Talks, h \in Visits : StartReview(k, h)
    \/ \E k \in Talks, h \in Visits, r \in Asks, act \in {"approve", "revoke", "reject"} :
         StartDecision(k, h, r, act)
    \/ \E k \in Talks : \/ ReadPlan(k) \/ ReadPreferences(k) \/ Show(k) \/ Approve(k)
                        \/ Revoke(k) \/ Stale(k) \/ FailTalk(k)
    \/ \E x \in {"plan", "pref"} : TurnOf(x)
    \/ IssuedElsewhere
    \/ \E g \in DOMAIN consents : SpentElsewhere(g) \/ RevokedElsewhere(g)
    \/ HourPasses \/ WallJumps

ConsentSpec == ConsentInit /\ [][ConsentNext]_consentVars

-----------------------------------------------------------------------------
(* Properties *)

ConsentTypeOK ==
    /\ shut \in BOOLEAN
    /\ clock.tick \in 0 .. limit.hours /\ clock.last <= limit.hours + limit.jumps + 1
    /\ made \in 0 .. limit.reviews /\ \A h \in Visits : held[h].id \in 0 .. made
    /\ \A k \in Talks : /\ talk[k].visit \in 0 .. limit.visits
                        /\ talk[k].at \in {"idle", "plan", "prefs", "back", "done"}
    /\ \A k \in Talks : \A j \in line[k] : talk[j].at = "back"
    /\ \A g \in DOMAIN consents : consents[g].st \in {"pending", "consumed", "revoked"}

InHand == {held[h].id : h \in Visits} \ {0}
InTalk == {talk[k].challenge.id : k \in Talks} \ {0}
InBooks == {consents[g].of : g \in DOMAIN consents} \ {0}

\* A challenge decides once: it is in its session's hand, in one request that
\* decides on it, or in the grant that came of it, and never in two of them.
DecidesOnce ==
    /\ InHand \cap InTalk = {} /\ InHand \cap InBooks = {} /\ InTalk \cap InBooks = {}
    /\ \A j, k \in Talks : j # k /\ talk[j].challenge.id # 0
                           => talk[j].challenge.id # talk[k].challenge.id
    /\ \A f, g \in DOMAIN consents : f # g /\ consents[f].of # 0 => consents[f].of # consents[g].of

\* What was shown is what is: the plan the request read, the preferences and the head.
AsShown(k) ==
    LET d == talk[k].challenge.digest IN
    <<talk[k].plan, talk[k].pref, house.head>> = <<d.plan, d.pref, d.head>>

\* A grant or a revocation of a resident takes effect while the host is open, in the
\* session that was shown the review, while that lives on both clocks, and for exactly
\* the plan, preferences and control head that were on the screen; a revocation takes
\* back a grant that existed when the resident looked, unless the wall clock was set
\* meanwhile.  A decision is refused as stale only if one of the three has changed.
DecidesAsShown ==
    /\ \A k \in Talks :
         Approve(k) \/ Revoke(k) =>
             /\ ~shut /\ AsShown(k)
             /\ Lives(visit[talk[k].visit])
    /\ \A k \in Talks, g \in DOMAIN consents :
         Revoke(k) /\ consents'[g] # consents[g] /\ clock.jumps = 0
             => g <= talk[k].challenge.known
    /\ \A k \in Talks : Stale(k) /\ clock.jumps = 0 => ~AsShown(k)

\* What a resident decides is what the resident was shown: whenever a request moves.
ConsentIsInformed == [][talk' # talk => DecidesAsShown /\ DecidesOnce']_consentVars
=============================================================================
