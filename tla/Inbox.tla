-------------------------------- MODULE Inbox --------------------------------
(***************************************************************************)
(* The memory inbox (packages/review, packages/api/review.ts).  Reading it *)
(* puts the open questions of one context packet on cards, decides card by *)
(* card whether to interrupt the owner, and lets an approved learned rule  *)
(* answer; an answer is written to memory, proposed to the governor and    *)
(* recorded on the card in transactions of their own.                      *)
(*                                                                         *)
(* A question is a situation: what memory knows of it is a number of       *)
(* pieces of evidence, each of which may be unconfirmed.  All cards match  *)
(* the same rules.  Left out: conflicts of two values (an answer decides   *)
(* one of them), what a question is worth, the cap per sensitivity scope,  *)
(* changes of the budget, the weekly review.                               *)
(***************************************************************************)
EXTENDS Integers, Sequences, FiniteSetsExt

CONSTANTS Questions,    \* numbered by expected value, the highest first
          Effects,      \* what the choices of a card do: "confirm", "reject", "keep" uncertain
          Eyes,         \* the sets of questions a packet may be allowed to show
          Visits,       \* readings and answers under way
          Day, Window,  \* ticks in a local day, ticks of repeat suppression
          Cap,          \* cards a day
          MaxPieces,    \* bound: how much there may come to be about each question
          Horizon, MaxCards, MaxVisits,  \* bounds
          Null          \* SQL NULL

ASSUME InboxAssumption ==
  /\ Questions \subseteq Nat /\ IsFiniteSet(Questions) /\ Eyes \subseteq SUBSET Questions
  /\ Day \in Nat \ {0} /\ Window \in Nat /\ Cap \in Nat /\ Horizon \in Nat
  /\ Null \notin Nat

VARIABLES ticks,       \* the clock
          pieces,      \* how much there is about each question
          said,        \* up to where the owner's deltas confirm or reject it
          cards,       \* clarification_cards
          asks,        \* the rows of interruption_decisions that say ASK
          rules,       \* learned_approval_rules
          proposals,   \* belief transactions proposed for an answer
          visit,       \* each request: where it is, and what it has read
          begun        \* how many of MaxVisits have begun

inboxVars == <<ticks, pieces, said, cards, asks, rules, proposals, visit, begun>>

Settled == {"RESOLVED", "CLEARED"}
Statuses == Settled \cup {"OPEN", "ASKED", "DEFERRED", "SUPPRESSED"}
Today(t) == t \div Day

Nothing == [at |-> "idle", now |-> 0, shows |-> {}, seen |-> [q \in Questions |-> 0], apply |-> {},
            card |-> 0, upTo |-> 0, choice |-> "keep", rule |-> 0]
NoAnswer == [by |-> "NOBODY", choice |-> "keep", at |-> 0, rule |-> 0]

InboxInit ==
  /\ ticks = 0
  /\ pieces = [q \in Questions |-> 1] /\ said = [q \in Questions |-> 0]
  /\ cards = <<>> /\ asks = {} /\ rules = <<>> /\ proposals = {}
  /\ visit = [r \in Visits |-> Nothing] /\ begun = 0

Enter == begun < MaxVisits /\ begun' = begun + 1
To(r, record) == visit' = [visit EXCEPT ![r] = record]

OpenCards(q) == {c \in DOMAIN cards : cards[c].question = q /\ cards[c].status \notin Settled}

-----------------------------------------------------------------------------
(* GET /v1/memory/inbox.                                                   *)

\* The clock and the packet: the questions that are undecided, as far as this reader may see.
ReadPacket(r, eyes) ==
  /\ visit[r].at = "idle" /\ Enter
  /\ To(r, [Nothing EXCEPT !.at = "packet", !.now = ticks, !.seen = pieces,
               !.shows = {q \in eyes : pieces[q] > said[q]}])
  /\ UNCHANGED <<ticks, pieces, said, cards, asks, rules, proposals>>

\* evaluateInbox, first half: what is no longer a question is history, what is one has a
\* card, and a card on screen today was asked with what it shows now.
Refreshed(mine, old) ==
  LET on(c) == mine.seen[c.question]
  IN [c \in DOMAIN old |->
        IF old[c].status \in Settled THEN old[c]
        ELSE IF old[c].question \notin mine.shows THEN [old[c] EXCEPT !.status = "CLEARED"]
        ELSE [old[c] EXCEPT !.seen = on(old[c]),
                !.known = IF old[c].status = "ASKED" /\ Today(old[c].asked) = Today(mine.now) THEN on(old[c]) ELSE @]]

Fresh(mine) == {q \in mine.shows : OpenCards(q) = {}}
NewCard(mine, q) ==
  [question |-> q, status |-> "OPEN", seen |-> mine.seen[q], known |-> 0,
   asked |-> Null, evaluated |-> Null, until |-> Null, answer |-> NoAnswer]
Composed(mine) ==
  Refreshed(mine, cards) \o
    [i \in 1..Cardinality(Fresh(mine)) |->
       NewCard(mine, CHOOSE q \in Fresh(mine) : Cardinality({p \in Fresh(mine) : p < q}) = i - 1)]

\* Once a local day, and again when evidence arrives; what is asked today stays asked.
Due(mine, c) ==
  LET card == Composed(mine)[c]
  IN /\ card.status \notin Settled
     /\ ~(card.status = "ASKED" /\ Today(card.asked) = Today(mine.now))
     /\ \/ card.evaluated # Today(mine.now)
        \/ c \in DOMAIN cards /\ card.seen > cards[c].seen

\* approvedRuleFor: the rules in effect, of which the one approved last answers.
InEffect(i) == rules[i].status = "APPROVED"
RulesFor == {i \in DOMAIN rules : InEffect(i) /\ \A j \in DOMAIN rules : InEffect(j) => rules[j].approved <= rules[i].approved}

\* decideInterruption: within the window, or kept uncertain, with nothing new to show.
Withheld_KeptOnly(card, now) ==
  card.until # Null /\ now < card.until /\ card.seen <= card.known
Withheld(card, now) ==
  /\ \/ card.until # Null /\ now < card.until
     \/ card.asked # Null /\ now < card.asked + Window
  /\ card.seen <= card.known

AskedOn(day) == {c \in DOMAIN cards : cards[c].asked # Null /\ Today(cards[c].asked) = day}

Wants(mine, c) == Due(mine, c) /\ RulesFor = {} /\ ~Withheld(Composed(mine)[c], mine.now)
WithinCap(mine, c) ==
  Cardinality(AskedOn(Today(mine.now)))
    + Cardinality({d \in DOMAIN Composed(mine) : Wants(mine, d) /\ Composed(mine)[d].question < Composed(mine)[c].question}) < Cap

WindowEnd(card, now) ==
  Max({now} \cup ({card.until} \ {Null}) \cup (IF card.asked = Null THEN {} ELSE {card.asked + Window}))

Decided(mine, c) ==
  LET card == Composed(mine)[c]
      judged == [card EXCEPT !.evaluated = Today(mine.now)]
  IN IF ~Due(mine, c) \/ RulesFor # {} THEN card
     ELSE IF Withheld(card, mine.now)
     THEN [judged EXCEPT !.status = "SUPPRESSED", !.until = WindowEnd(card, mine.now)]
     ELSE IF ~WithinCap(mine, c) THEN [judged EXCEPT !.status = "DEFERRED"]
     ELSE [judged EXCEPT !.status = "ASKED", !.asked = mine.now, !.known = card.seen, !.until = Null]

\* The rule's answer to the next of the cards, with the choice as the packet had it.
Applying(mine) ==
  LET c == CHOOSE d \in mine.apply : \A e \in mine.apply : Composed(mine)[d].question <= Composed(mine)[e].question
  IN [mine EXCEPT !.at = "writing", !.apply = @ \ {c}, !.card = c,
        !.upTo = mine.seen[Composed(mine)[c].question], !.choice = rules[mine.rule].choice]

\* One transaction, as far as cards go: two that meet on a card wait for one another, and
\* the one that finds the card settled, or the situation on a card already, is refused.
Evaluate(r) ==
  LET mine == visit[r]
      all == DOMAIN Composed(mine)
      answered == IF RulesFor = {} THEN {} ELSE {c \in all : Due(mine, c)}
  IN /\ mine.at = "packet"
     /\ Len(Composed(mine)) <= MaxCards
     /\ cards' = [c \in all |-> Decided(mine, c)]
     /\ asks' = asks \cup {[card |-> c, question |-> cards'[c].question, seen |-> cards'[c].seen, at |-> mine.now] :
                             c \in {d \in all : Wants(mine, d) /\ WithinCap(mine, d)}}
     /\ \E i \in IF answered = {} THEN {0} ELSE RulesFor :
          To(r, IF answered = {} THEN Nothing ELSE Applying([mine EXCEPT !.apply = answered, !.rule = i]))
     /\ UNCHANGED <<ticks, pieces, said, rules, proposals, begun>>

-----------------------------------------------------------------------------
(* POST /v1/memory/inbox/cards/{id}/decide.                                *)

\* The card is read; one that is settled is refused, or answered from what it holds.
BeginAnswer(r, c, choice) ==
  /\ visit[r].at = "idle" /\ Enter
  /\ cards[c].status \notin Settled
  /\ To(r, [Nothing EXCEPT !.at = "writing", !.now = ticks, !.card = c, !.upTo = cards[c].seen, !.choice = choice])
  /\ UNCHANGED <<ticks, pieces, said, cards, asks, rules, proposals>>

\* applyAnswer: the evidence and a delta for each target of the choice; ...
WriteDeltas(r) ==
  LET mine == visit[r]
      q == cards[mine.card].question
  IN /\ mine.at = "writing"
     /\ said' = IF mine.choice = "keep" THEN said ELSE [said EXCEPT ![q] = Max({@, mine.upTo})]
     /\ To(r, [mine EXCEPT !.at = "written"])
     /\ UNCHANGED <<ticks, pieces, cards, asks, rules, proposals, begun>>

\* ... the proposal, under a key of the card and the request or the rule, and the operations.
ProposeAnswer(r) ==
  LET mine == visit[r]
  IN /\ mine.at = "written"
     /\ proposals' = IF mine.choice = "keep" THEN proposals
                     ELSE proposals \cup {[card |-> mine.card, choice |-> mine.choice, rule |-> mine.rule]}
     /\ To(r, [mine EXCEPT !.at = "proposed"])
     /\ UNCHANGED <<ticks, pieces, said, cards, asks, rules, begun>>

Answered(mine) ==
  LET keep == mine.choice = "keep"
  IN [cards EXCEPT ![mine.card] =
        [@ EXCEPT !.status = IF keep THEN "SUPPRESSED" ELSE "RESOLVED",
           !.until = IF keep THEN mine.now + Window ELSE cards[mine.card].until, !.known = cards[mine.card].seen,
           !.answer = [by |-> IF mine.rule = 0 THEN "OWNER" ELSE "LEARNED_RULE",
                       choice |-> mine.choice, at |-> mine.now, rule |-> mine.rule]]]

\* proposeRuleIfRepeated: two answers of the owner, given since the rule was last revoked.
Repeated(then, choice) == {c \in DOMAIN then : then[c].answer.by = "OWNER" /\ then[c].answer.choice = choice}

Eligible(then, choice) ==
  {c \in Repeated(then, choice) : \A i \in DOMAIN rules :
     rules[i].choice = choice /\ rules[i].status = "REVOKED" => then[c].answer.at > rules[i].revoked}

Live(choice) == \E i \in DOMAIN rules : rules[i].choice = choice /\ rules[i].status # "REVOKED"

Learned(mine, then) ==
  IF mine.choice # "keep" /\ ~Live(mine.choice) /\ Cardinality(Eligible(then, mine.choice)) >= 2
  THEN Append(rules, [choice |-> mine.choice, status |-> "PROPOSED", from |-> Eligible(then, mine.choice),
                      approved |-> Null, revoked |-> Null])
  ELSE rules

AfterRecord(mine) ==
  IF mine.apply # {} THEN Applying(mine) ELSE Nothing

Recordable_Unproposed(mine) == mine.at \in {"written", "proposed"} /\ cards[mine.card].status \notin Settled
Recordable(mine) == mine.at = "proposed" /\ cards[mine.card].status \notin Settled

\* recordCardAnswer, and for an answer of the owner the rule it may lead to.
RecordAnswer(r) ==
  LET mine == visit[r]
  IN /\ Recordable(mine)
     /\ cards' = Answered(mine)
     /\ rules' = IF mine.rule = 0 THEN Learned(mine, Answered(mine)) ELSE rules
     /\ To(r, AfterRecord(mine))
     /\ UNCHANGED <<ticks, pieces, said, asks, proposals, begun>>

\* A request ends behind its first commit: its process is gone, a transaction of it is
\* refused, or the card was settled meanwhile.  What it has committed stays.
Leave(r) ==
  /\ visit[r].at \in {"written", "proposed"}
  /\ To(r, Nothing)
  /\ UNCHANGED <<ticks, pieces, said, cards, asks, rules, proposals, begun>>

-----------------------------------------------------------------------------
(* The owner's rules, and the world.                                       *)

ApproveRule(i) ==
  /\ rules[i].status = "PROPOSED"
  /\ rules' = [rules EXCEPT ![i].status = "APPROVED", ![i].approved = ticks]
  /\ UNCHANGED <<ticks, pieces, said, cards, asks, proposals, visit, begun>>

RevokeRule(i) ==
  /\ rules[i].status # "REVOKED"
  /\ rules' = [rules EXCEPT ![i].status = "REVOKED", ![i].revoked = ticks]
  /\ UNCHANGED <<ticks, pieces, said, cards, asks, proposals, visit, begun>>

\* Something more about a question, as unconfirmed as the first of it.
Extract(q) ==
  /\ pieces[q] < MaxPieces[q]
  /\ pieces' = [pieces EXCEPT ![q] = @ + 1]
  /\ UNCHANGED <<ticks, said, cards, asks, rules, proposals, visit, begun>>

Tick ==
  /\ ticks < Horizon
  /\ ticks' = ticks + 1
  /\ UNCHANGED <<pieces, said, cards, asks, rules, proposals, visit, begun>>

InboxNext ==
  \/ \E r \in Visits :
       \/ \E eyes \in Eyes : ReadPacket(r, eyes)
       \/ \E c \in DOMAIN cards, choice \in Effects : BeginAnswer(r, c, choice)
       \/ Evaluate(r) \/ WriteDeltas(r) \/ ProposeAnswer(r) \/ RecordAnswer(r) \/ Leave(r)
  \/ \E i \in DOMAIN rules : ApproveRule(i) \/ RevokeRule(i)
  \/ \E q \in Questions : Extract(q)
  \/ Tick

InboxSpec == InboxInit /\ [][InboxNext]_inboxVars

-----------------------------------------------------------------------------
\* Rows have their shape, an answer stands on a card that is settled with it, and a
\* situation has one card that is not settled.
Options == Effects \cup {"keep"}
AnswerRows == [by : {"NOBODY", "OWNER", "LEARNED_RULE"}, choice : Options, at : Nat, rule : Nat]
CardRows == [question : Questions, status : Statuses, seen : Nat, known : Nat, asked : Nat \cup {Null},
             evaluated : Nat \cup {Null}, until : Nat \cup {Null}, answer : AnswerRows]
RuleRows == [choice : Options \ {"keep"}, status : {"PROPOSED", "APPROVED", "REVOKED"}, from : SUBSET Nat,
             approved : Nat \cup {Null}, revoked : Nat \cup {Null}]
VisitRows == [at : {"idle", "packet", "writing", "written", "proposed"}, now : Nat, shows : SUBSET Questions,
              seen : [Questions -> Nat], apply : SUBSET Nat, card : Nat, upTo : Nat, choice : Options, rule : Nat]

InboxTypeOK ==
  /\ ticks \in 0..Horizon /\ begun \in Nat
  /\ pieces \in [Questions -> Nat] /\ said \in [Questions -> Nat]
  /\ cards \in Seq(CardRows) /\ rules \in Seq(RuleRows) /\ visit \in [Visits -> VisitRows]
  /\ \A q \in Questions : said[q] <= pieces[q] /\ \A c, d \in OpenCards(q) : c = d
  /\ \A c \in DOMAIN cards :
       cards[c].status = "RESOLVED" <=> cards[c].answer.by # "NOBODY" /\ cards[c].answer.choice # "keep"

\* The owner is not asked the same question twice within the window with nothing new to
\* show, and no day asks about more cards than the budget has.
NotAskedTwice ==
  \A a, b \in asks : a # b /\ a.question = b.question /\ a.seen = b.seen => a.at + Window <= b.at \/ b.at + Window <= a.at
CardsWithinCap == \A t \in 0..Horizon : Cardinality({a.card : a \in {b \in asks : Today(b.at) = Today(t)}}) <= Cap

\* A rule rests on two answers of the owner, none of them older than a revocation of the
\* same rule; it answers no card before it was approved, and none for a reading that began
\* after it was revoked.
RulesFromFreshAnswers ==
  \A i \in DOMAIN rules :
    /\ Cardinality(rules[i].from) >= 2
    /\ \A c \in rules[i].from :
         /\ cards[c].answer.by = "OWNER" /\ cards[c].answer.choice = rules[i].choice
         /\ \A j \in 1..(i - 1) : rules[j].choice = rules[i].choice => rules[j].revoked < cards[c].answer.at
RulesAnswerInEffect ==
  \A c \in DOMAIN cards : \A i \in DOMAIN rules : cards[c].answer.rule = i =>
    rules[i].approved # Null /\ (rules[i].revoked # Null => cards[c].answer.at <= rules[i].revoked)

\* What a card says was decided is what was proposed to the governor for it.
ResolvedIsProposed ==
  \A c \in DOMAIN cards : cards[c].status = "RESOLVED" =>
    [card |-> c, choice |-> cards[c].answer.choice, rule |-> cards[c].answer.rule] \in proposals

\* Whatever overlaps or stops half way: a rule is learned from fresh answers of the owner,
\* one answers a card only while it is in effect, and what a card says was proposed.
AnswersAreTheOwners == RulesFromFreshAnswers /\ RulesAnswerInEffect /\ ResolvedIsProposed

-----------------------------------------------------------------------------
(* The inductive invariant: what the rows and the requests know of one another. *)

\* A card shows no more than there is, and was answered in the past, by a rule that there is.
CardsFit ==
  \A c \in DOMAIN cards :
    /\ cards[c].seen <= pieces[cards[c].question]
    /\ cards[c].answer.at <= ticks /\ cards[c].answer.rule \in 0..Len(rules)

\* A rule is approved and revoked in that order, and follows the revocation of every
\* earlier one of its kind.
RulesFit ==
  \A i \in DOMAIN rules :
    /\ (rules[i].status = "REVOKED") <=> (rules[i].revoked # Null)
    /\ rules[i].status = "APPROVED" => rules[i].approved # Null
    /\ rules[i].revoked # Null => rules[i].revoked <= ticks
    /\ rules[i].from \subseteq DOMAIN cards
    /\ \A j \in 1..(i - 1) : rules[j].choice = rules[i].choice => rules[j].status = "REVOKED"

\* What a request may carry: no more evidence than there is; from where it writes, a card
\* that there is; a rule that was in effect when it began; and a proposal that was made.
VisitKnows(r) ==
  LET mine == visit[r]
  IN /\ mine.now <= ticks /\ \A q \in Questions : mine.seen[q] <= pieces[q]
     /\ mine.at \in {"writing", "written", "proposed"} =>
          /\ {mine.card} \cup mine.apply \subseteq DOMAIN cards
          /\ mine.upTo <= pieces[cards[mine.card].question]
          /\ mine.apply # {} => mine.rule # 0
     /\ mine.rule # 0 =>
          /\ mine.rule \in DOMAIN rules /\ rules[mine.rule].approved # Null
          /\ rules[mine.rule].revoked # Null => mine.now <= rules[mine.rule].revoked
     /\ mine.at = "proposed" /\ mine.choice # "keep" =>
          [card |-> mine.card, choice |-> mine.choice, rule |-> mine.rule] \in proposals
VisitsKnow == \A r \in Visits : VisitKnows(r)

InboxInv == InboxTypeOK /\ CardsFit /\ RulesFit /\ VisitsKnow /\ AnswersAreTheOwners
=============================================================================
