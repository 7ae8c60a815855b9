-------------------------------- MODULE Lineage --------------------------------
(****************************************************************************)
(* Governed merges and splits of frame instances (packages/belief/src/        *)
(* lineage.ts, packages/memory/src/lineage.ts, migration 0020) beside the      *)
(* canonicalization that keeps finding slots by fingerprint (memory/slots.ts).  *)
(* One predicate, so a frame is one location: two slots of it collide.  A       *)
(* proposition is a slot with a value.                                         *)
(****************************************************************************)
EXTENDS Naturals, FiniteSets, Functions

CONSTANTS
    Frames,    \* 1..n: identifiers in the order they are given out
    Existing,  \* the frames that are there at the start
    Slots,     \* 1..n, likewise
    Values,
    Claims,
    Writers,   \* canonicalizing transactions, each for one claim
    Assessable \* the verdicts belief transactions give here

VARIABLES
    frame,    \* each frame's lifecycle
    lineage,  \* rows <<from, to, kind>> of frame_instance_lineage
    slot,     \* each slot: the frame its row names, the one its fingerprint names, lifecycle
    verdict,  \* each proposition's current assessment
    into,     \* the slot a merged proposition's lineage row leads to, its value kept
    claim,    \* each claim: the proposition it was recorded against, its lifecycle; late: the
              \* slot had been merged away, so a proposition of its own was made in it
    support,  \* <<claim, slot>>: the slots a split assigned a claim to
    writer    \* each transaction: its claim's frame, slot and value so far

lineageVars == <<frame, lineage, slot, verdict, into, claim, support, writer>>

NoSlot == 0
Unused == "unused"
Settled == {"PROVISIONAL", "ACCEPTED", "CONTESTED", "SUPERSEDED"}
Assessments == {"absent", "NONE"} \cup Settled
Idle == [at |-> "idle"]
NoClaim == [lifecycle |-> Unused]

Least(S) == CHOOSE x \in S : \A y \in S : x <= y
FreshSlots == {x \in Slots : slot[x].lifecycle = Unused}
FreshFrames == {f \in Frames : frame[f] = Unused}
TheFirst(n, S) == {x \in S : Cardinality({y \in S : y < x}) < n}

\* No chain of rows is longer than there are rows.
Merges == {row \in lineage : row[3] = "MERGED_INTO"}

\* listMergedFrameMembers: the frames that now speak for f.
Members(f) ==
    LET reach[n \in 0..Cardinality(Merges)] ==
            IF n = 0 THEN {f}
            ELSE LET found == reach[n - 1] IN found \cup {row[1] : row \in {r \in Merges : r[2] \in found}}
    IN  reach[Cardinality(Merges)]

\* resolveFrameInstanceSurvivors: the frame f means today, 0 where a split cannot know.
Survivor(f) ==
    LET chain[n \in 0..Cardinality(Merges)] ==
            IF n = 0 THEN f
            ELSE LET g == chain[n - 1]
                     absorbing == {row[2] : row \in {r \in Merges : r[1] = g}}
                 IN  IF absorbing = {} THEN g ELSE Least(absorbing)
        last == chain[Cardinality(Merges)]
    IN  IF \E row \in lineage : row[1] = last /\ row[3] = "SPLIT_INTO" THEN 0 ELSE last

\* resolveIdentity: forward through merges and splits to where only live objects remain.
ResolvesTo(f) ==
    LET Successors(g) == {row[2] : row \in {r \in lineage : r[1] = g}}
        Ends(g) == frame[g] = "ACTIVE" \/ Successors(g) = {}
        frontier[n \in 0..Cardinality(lineage)] ==
            IF n = 0 THEN {f}
            ELSE LET found == frontier[n - 1] IN found \cup UNION {Successors(g) : g \in {h \in found : ~Ends(h)}}
    IN  {g \in frontier[Cardinality(lineage)] : Ends(g)}

\* listFrameSlots: the live slots whose rows name f or a frame merged into it.
FrameSlots(f) ==
    LET members == Members(f) IN {x \in Slots : slot[x].lifecycle = "ACTIVE" /\ slot[x].row \in members}
\* lookupBeliefSlot: the live slots whose live fingerprint names f.
Indexed(f) == {x \in Slots : slot[x].lifecycle = "ACTIVE" /\ slot[x].index = f}
ActiveValues(x) == {v \in Values : verdict[x, v] # "absent" /\ into[x, v] = NoSlot}

----------------------------------------------------------------------------
\* A transaction canonicalizes a claim: it matches an instance ...
Match(w, c, f, v) ==
    /\ writer[w].at = "idle" /\ claim[c].lifecycle = Unused /\ frame[f] = "ACTIVE"
    /\ \A u \in Writers : writer[u].at # "idle" => writer[u].claim # c
    /\ writer' = [writer EXCEPT ![w] = [at |-> "matched", claim |-> c, frame |-> f, slot |-> NoSlot, value |-> v]]
    /\ UNCHANGED <<frame, lineage, slot, verdict, into, claim, support>>

\* ... looks the slot up by its fingerprint, and joins it only where there is one ...
Lookup(w) ==
    LET found == Indexed(writer[w].frame)
    IN  /\ writer[w].at = "matched"
        /\ writer' = [writer EXCEPT ![w].at = "resolved",
                                    ![w].slot = IF Cardinality(found) = 1 THEN Least(found) ELSE NoSlot]
        /\ UNCHANGED <<frame, lineage, slot, verdict, into, claim, support>>

\* ... and writes what was missing, and the claim.
WriteClaim(w) ==
    LET new == writer[w].slot = NoSlot
        x == IF new THEN Least(FreshSlots) ELSE writer[w].slot
        v == writer[w].value
    IN  /\ writer[w].at = "resolved" /\ (new => FreshSlots # {})
        /\ slot' = IF new THEN [slot EXCEPT ![x] = [row |-> writer[w].frame, index |-> writer[w].frame,
                                                    lifecycle |-> "ACTIVE"]] ELSE slot
        /\ verdict' = [verdict EXCEPT ![<<x, v>>] = IF @ = "absent" THEN "NONE" ELSE @]
        /\ claim' = [claim EXCEPT ![writer[w].claim] =
                         [slot |-> x, value |-> v, lifecycle |-> "PROVISIONAL", late |-> slot[x].lifecycle = "MERGED"]]
        /\ writer' = [writer EXCEPT ![w] = Idle]
        /\ UNCHANGED <<frame, lineage, into, support>>

\* A belief transaction assesses a proposition; it accepts no second value.
Assess(x, v, status) ==
    /\ slot[x].lifecycle = "ACTIVE" /\ v \in ActiveValues(x) /\ verdict[x, v] # status
    /\ status = "ACCEPTED" => \A other \in ActiveValues(x) \ {v} : verdict[x, other] # "ACCEPTED"
    /\ verdict' = [verdict EXCEPT ![<<x, v>>] = status]
    /\ UNCHANGED <<frame, lineage, slot, into, claim, support, writer>>

----------------------------------------------------------------------------
Mergeable_IntoRetired(m, s) == m # s /\ frame[m] = "ACTIVE" /\ frame[s] # Unused
\* applyFrameMerge, both frames locked and read again.
Mergeable(m, s) == m # s /\ frame[m] = "ACTIVE" /\ frame[s] = "ACTIVE"

\* Where values compete in one slot an accepted one becomes contested.
Competing(values, status) == IF Cardinality(values) > 1 /\ status = "ACCEPTED" THEN "CONTESTED" ELSE status

\* The slot that is the location from now on: the survivor's, or the first moved in.
\* Each value of another slot of the merged frame moves into it, verdict and all: a
\* proposition there without a verdict inherits the first that comes.
MergedVerdicts(kept, colliding) ==
    LET Moving(v) == {x \in colliding : v \in ActiveValues(x)}
        Own(v) == IF v \in ActiveValues(kept) THEN verdict[kept, v] ELSE "NONE"
        Judged(v) == {x \in Moving(v) : verdict[x, v] \in Settled}
        Carried(v) == IF Own(v) \in Settled \/ Judged(v) = {} THEN Own(v) ELSE verdict[Least(Judged(v)), v]
        values == ActiveValues(kept) \cup {v \in Values : Moving(v) # {}}
    IN  [q \in Slots \X Values |->
            IF q[1] \in Moving(q[2]) THEN (IF verdict[q] \in Settled THEN "SUPERSEDED" ELSE "NONE")
            ELSE IF q[1] = kept /\ q[2] \in values THEN Competing(values, Carried(q[2])) ELSE verdict[q]]

MergeFrames(m, s) ==
    /\ Mergeable(m, s)
    /\ LET moved == FrameSlots(m)
           stay == IF FrameSlots(s) = {} THEN moved ELSE FrameSlots(s)
           kept == IF stay = {} THEN NoSlot ELSE Least(stay)
           colliding == moved \ {kept}
       IN  /\ slot' = [x \in Slots |->
                          IF x \notin moved THEN slot[x]
                          ELSE [slot[x] EXCEPT !.index = s, !.lifecycle = IF x \in colliding THEN "MERGED" ELSE @]]
           /\ verdict' = IF colliding = {} THEN verdict ELSE MergedVerdicts(kept, colliding)
           /\ into' = [q \in Slots \X Values |->
                          IF q[1] \in colliding /\ q[2] \in ActiveValues(q[1]) THEN kept ELSE into[q]]
    /\ frame' = [frame EXCEPT ![m] = "MERGED"]
    /\ lineage' = lineage \cup {<<m, s, "MERGED_INTO">>}
    /\ UNCHANGED <<claim, support, writer>>

----------------------------------------------------------------------------
\* The proposition a claim was recorded against, and those it was merged into.
FollowsTo(x, v) ==
    LET reach[n \in 0..Cardinality(Slots)] ==
            IF n = 0 THEN {x} ELSE LET found == reach[n - 1] IN found \cup ({into[y, v] : y \in found} \ {NoSlot})
    IN  reach[Cardinality(Slots)]
AssignedTo(c) == {x \in Slots : <<c, x>> \in support}

\* parentClaims: recorded there, merged into there, or assigned there by an earlier split.
SpeaksFor(c) ==
    IF claim[c].lifecycle = Unused \/ claim[c].late THEN {}
    ELSE FollowsTo(claim[c].slot, claim[c].value) \cup AssignedTo(c)
Spots(c, p) == {x \in SpeaksFor(c) \cap FrameSlots(p) : claim[c].value \in ActiveValues(x)}
Speaking(p) == {c \in Claims : Spots(c, p) # {}}
Contestable == {"PROVISIONAL"}

\* The slots that a split of p opens: one for each partition of one that claims of p stand in.
Spot(c, p) == Least(Spots(c, p))
Mixed(p, part) == {<<Spot(c, p), part[c]>> : c \in {d \in DOMAIN part : part[d] # 0}}

\* applyFrameSplit into two partitions, part[c] = 0 for a claim nobody assigned; name gives
\* the opened slots their identifiers.
SplitFrame(p, part, one, two, name) ==
    frame[p] = "ACTIVE" /\ one < two /\ {one, two} = TheFirst(2, FreshFrames) /\ IsInjective(name) /\
    LET parent == FrameSlots(p)
        assigned == {c \in DOMAIN part : part[c] # 0}
        mixed == Mixed(p, part)
        Heirs(x, v) == {a \in mixed : name[a] = x /\ \E c \in assigned : <<Spot(c, p), part[c]>> = a /\ claim[c].value = v}
        Abandoned(x, v) == \E c \in DOMAIN part \ assigned : Spot(c, p) = x /\ claim[c].value = v
        Verdict(x, v) ==
            IF \E a \in Heirs(x, v) : TRUE THEN verdict[(CHOOSE a \in Heirs(x, v) : TRUE)[1], v]
            ELSE IF x \in parent /\ v \in ActiveValues(x) /\ verdict[x, v] \in Settled
            THEN (IF Abandoned(x, v) THEN "CONTESTED" ELSE "SUPERSEDED") ELSE verdict[x, v]
    IN  /\ frame' = [f \in Frames |-> IF f = p THEN "SPLIT" ELSE IF f \in {one, two} THEN "ACTIVE" ELSE frame[f]]
        /\ lineage' = lineage \cup {<<p, one, "SPLIT_INTO">>, <<p, two, "SPLIT_INTO">>}
        /\ slot' = [x \in Slots |->
                       IF \E a \in mixed : name[a] = x
                       THEN LET f == IF (CHOOSE a \in mixed : name[a] = x)[2] = 1 THEN one ELSE two
                            IN  [row |-> f, index |-> f, lifecycle |-> "ACTIVE"]
                       ELSE slot[x]]
        /\ verdict' = [q \in Slots \X Values |-> Verdict(q[1], q[2])]
        /\ support' = support \cup {<<c, name[<<Spot(c, p), part[c]>>]>> : c \in assigned}
        /\ claim' = [c \in Claims |->
                        IF c \in DOMAIN part \ assigned /\ claim[c].lifecycle \in Contestable
                        THEN [claim[c] EXCEPT !.lifecycle = "CONTESTED"] ELSE claim[c]]
        /\ UNCHANGED <<into, writer>>

----------------------------------------------------------------------------
LineageInit ==
    /\ frame = [f \in Frames |-> IF f \in Existing THEN "ACTIVE" ELSE Unused]
    /\ lineage = {}
    /\ slot = [x \in Slots |-> [row |-> 0, index |-> 0, lifecycle |-> Unused]]
    /\ verdict = [q \in Slots \X Values |-> "absent"]
    /\ into = [q \in Slots \X Values |-> NoSlot]
    /\ claim = [c \in Claims |-> NoClaim]
    /\ support = {}
    /\ writer = [w \in Writers |-> Idle]

LineageNext ==
    \/ \E w \in Writers, c \in Claims, f \in Frames, v \in Values : Match(w, c, f, v)
    \/ \E w \in Writers : Lookup(w) \/ WriteClaim(w)
    \/ \E x \in Slots, v \in Values, status \in Assessable : Assess(x, v, status)
    \/ \E m, s \in Frames : MergeFrames(m, s)
    \/ \E p \in {f \in Frames : frame[f] = "ACTIVE"} :
           \E part \in [Speaking(p) -> 0..2], one, two \in FreshFrames :
               \E name \in [Mixed(p, part) -> TheFirst(Cardinality(Mixed(p, part)), FreshSlots)] :
                   SplitFrame(p, part, one, two, name)

LineageTypeOK ==
    /\ frame \in [Frames -> {Unused, "ACTIVE", "MERGED", "SPLIT"}]
    /\ lineage \subseteq Frames \X Frames \X {"MERGED_INTO", "SPLIT_INTO"}
    /\ slot \in [Slots -> [row : Frames \cup {0}, index : Frames \cup {0}, lifecycle : {Unused, "ACTIVE", "MERGED"}]]
    /\ verdict \in [Slots \X Values -> Assessments]
    /\ into \in [Slots \X Values -> Slots \cup {NoSlot}]
    /\ claim \in [Claims -> {NoClaim} \cup [slot : Slots, value : Values, late : BOOLEAN,
                                              lifecycle : {"PROVISIONAL", "CONTESTED"}]]
    /\ support \subseteq Claims \X Slots
    /\ writer \in [Writers -> {Idle} \cup [at : {"matched", "resolved"}, claim : Claims, frame : Frames,
                                             slot : Slots \cup {NoSlot}, value : Values]]
    \* frame_instance_lineage_one_survivor and the trigger frame_instance_governed_retirement
    /\ \A f \in Frames :
          LET rows == {row \in lineage : row[1] = f}
          IN  /\ (frame[f] = "MERGED") => Cardinality(rows) = 1
              /\ (frame[f] \in {"MERGED", "SPLIT"}) <=> (rows # {})

\* However merges and splits follow one another, an identifier goes on naming
\* something live, the two ways of reading it agree, and what a live frame says it
\* speaks for is what resolves to it (PRD 14.1 items 9 and 10).
OldIdsResolve ==
    LET used == {f \in Frames : frame[f] # Unused}
        survivor == [f \in used |-> Survivor(f)]
    IN  /\ \A f \in used :
              LET live == ResolvesTo(f)
              IN  /\ live # {} /\ \A g \in live : frame[g] = "ACTIVE"
                  /\ survivor[f] # 0 => live = {survivor[f]}
        /\ \A g \in used : frame[g] = "ACTIVE" => Members(g) = {f \in used : survivor[f] = g}

\* A live frame is one location with at most one accepted value, found by its
\* fingerprint and by its members alike.
OneLocationEach ==
    \A f \in {g \in Frames : frame[g] = "ACTIVE"} :
        /\ Indexed(f) = FrameSlots(f) /\ Cardinality(Indexed(f)) <= 1
        /\ \A x \in Indexed(f) : Cardinality({v \in ActiveValues(x) : verdict[x, v] = "ACCEPTED"}) <= 1

\* Where a claim has got to: the proposition it was recorded against and those a
\* split gave it, and on through what they were merged into.
Follows(c) == UNION {FollowsTo(x, claim[c].value) : x \in {claim[c].slot} \cup AssignedTo(c)}
\* It speaks for a live value of a live frame.
HasItsPlace(c) ==
    \E x \in Follows(c) :
        /\ slot[x].lifecycle = "ACTIVE" /\ claim[c].value \in ActiveValues(x)
        /\ frame[slot[x].index] = "ACTIVE" /\ Survivor(slot[x].row) = slot[x].index
Uncontested == {c \in Claims : claim[c].lifecycle = "PROVISIONAL"}

\* No claim is left behind: each is contested or speaks for a live frame (PRD 14.2
\* items 2 and 3).
NoClaimLeftBehind == \A c \in Uncontested : HasItsPlace(c)

\* It is, unless a merge took away the proposition that a split had given it.
NoOtherClaimLeftBehind ==
    \A c \in Uncontested : HasItsPlace(c) \/ \E x \in AssignedTo(c) : slot[x].lifecycle = "MERGED"
================================================================================
